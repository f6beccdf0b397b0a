---------------------------- MODULE Peggy_proofs ----------------------------
(***************************************************************************)
(* Theorems about the contract, for every set of users and tokens, any     *)
(* amounts, and calls nested to any depth.                                 *)
(*                                                                         *)
(* A call that fails takes the contract back to the state in which it      *)
(* began.  So the invariant is about every state on the stack, the current *)
(* one and those the waiting calls began in: each is Good for the calls    *)
(* below it.  A call that begins pushes a state that was good, one that    *)
(* fails uncovers one, and one that returns replaces the uppermost two.    *)
(***************************************************************************)
EXTENDS Peggy, Sums_proofs, SequenceTheorems

-----------------------------------------------------------------------------
(* The inductive invariant.                                                 *)

Ops     == {"lock", "unlock", "withdraw"}
Events  == {"LogLock", "LogUnlock", "LogWithdraw"}
Entries == [event : Events, id : ItemIds]
ItemMaps == UNION {[D -> BOOLEAN] : D \in SUBSET ItemIds}
Books   == [Currencies -> [Accounts -> Nat]]
States  == [active : BOOLEAN, nonce : Nat, items : ItemMaps, holdings : Books, log : Seq(Entries)]
Calls   == [op : Ops, id : ItemIds, moved : BOOLEAN, before : States]

\* What the items that are locked, and the waiting calls 1..k of the stack cs, keep
\* in currency c for the users U.
ItemsOf(its, c, U) == {id \in DOMAIN its : its[id] /\ id.token = c /\ id.sender \in U}

CallsOf(cs, k, c, U) ==
  {i \in 1..k : /\ cs[i].id.token = c
                /\ cs[i].moved = (cs[i].op = "lock")
                /\ cs[i].id.sender \in U}

Total(cs, S) == SumFunctionOnSet([i \in S |-> cs[i].id.amount], S)

Kept(its, c, U) == SumOfAmounts(ItemsOf(its, c, U))
Held(cs, k, c, U) == Total(cs, CallsOf(cs, k, c, U))

Given(d, c, u) == IF c = Ether THEN 0 ELSE d[c][u]

\* The funds: no user has gained or lost, and the contract can pay all it keeps.
GoodFunds(its, h, cs, k, d) ==
  \A c \in Currencies :
    /\ \A u \in Users :
         h[c][u] + Kept(its, c, {u}) + Held(cs, k, c, {u}) + Given(d, c, u)
           = InitialFunds
    /\ h[c][contract] >= Kept(its, c, Users) + Held(cs, k, c, Users)

\* The nonces: there is one for each waiting lock, and they count the locks.
LocksOf(cs, k) == {i \in 1..k : cs[i].op = "lock"}
LockEntries(l, i) == {j \in 1..i : l[j].event = "LogLock"}

GoodNonces(n, its, l, cs, k) ==
  /\ n + Cardinality(LocksOf(cs, k)) <= MaxLocks + MaxDepth
  /\ n = Cardinality(LockEntries(l, Len(l)))
  /\ \A id \in DOMAIN its : id.nonce <= n
  /\ \A i \in DOMAIN l :
       l[i].event = "LogLock" => l[i].id.nonce = Cardinality(LockEntries(l, i))

\* The log: an item is locked once and then either paid out once or about to be, by
\* one of the waiting calls, or still locked.
Paid(l, i, id) == l[i].event # "LogLock" /\ l[i].id = id
Paying(cs, i, id) == cs[i].op # "lock" /\ cs[i].id = id

LockedAt(l, id, i) ==
  /\ i \in DOMAIN l
  /\ \A j \in DOMAIN l : /\ l[j].event = "LogLock" /\ l[j].id = id <=> j = i
                         /\ Paid(l, j, id) => i < j

Told(its, l, cs, k, id) ==
  /\ \E i \in DOMAIN l : LockedAt(l, id, i)
  /\ \A i, j \in DOMAIN l : Paid(l, i, id) /\ Paid(l, j, id) => i = j
  /\ \A i, j \in 1..k : Paying(cs, i, id) /\ Paying(cs, j, id) => i = j
  /\ \A i \in DOMAIN l, j \in 1..k : ~(Paid(l, i, id) /\ Paying(cs, j, id))
  /\ its[id] <=> /\ \A i \in DOMAIN l : ~Paid(l, i, id)
                 /\ \A j \in 1..k : ~Paying(cs, j, id)

GoodLog(its, l, cs, k) ==
  /\ \A i \in DOMAIN l : l[i].id \in DOMAIN its
  /\ \A i \in 1..k : cs[i].op # "lock" => cs[i].id \in DOMAIN its
  /\ \A id \in DOMAIN its : Told(its, l, cs, k, id)

Good(s, cs, k, d) ==
  /\ IsFiniteSet(DOMAIN s.items)
  /\ GoodFunds(s.items, s.holdings, cs, k, d)
  /\ GoodNonces(s.nonce, s.items, s.log, cs, k)
  /\ GoodLog(s.items, s.log, cs, k)

\* The states the waiting calls began in are good for the calls below.
GoodBelow(cs, d) == \A k \in 0..Len(cs) - 1 : Good(cs[k + 1].before, cs, k, d)

TypeInv ==
  /\ active \in BOOLEAN
  /\ nonce \in Nat
  /\ items \in ItemMaps /\ IsFiniteSet(DOMAIN items)
  /\ holdings \in Books
  /\ log \in Seq(Entries)
  /\ calls \in Seq(Calls) /\ Len(calls) <= MaxDepth
  /\ donated \in [Tokens -> [Users -> Nat]]

PeggyInv ==
  /\ TypeInv
  /\ GoodFunds(items, holdings, calls, Len(calls), donated)
  /\ GoodNonces(nonce, items, log, calls, Len(calls))
  /\ GoodLog(items, log, calls, Len(calls))
  /\ GoodBelow(calls, donated)

-----------------------------------------------------------------------------
(* What is kept, and how it changes.                                        *)

\* What an item or a call adds to what is kept in c for U.
Share(id, c, U) == IF id.token = c /\ id.sender \in U THEN id.amount ELSE 0

\* The share of an item is a natural number.
LEMMA ShareIsNatural ==
  ASSUME NEW id \in ItemIds, NEW c, NEW U
  PROVE  Share(id, c, U) \in Nat
BY DEF Share, ItemIds

\* One item more adds its amount.
LEMMA AmountsAddOne ==
  ASSUME NEW S, IsFiniteSet(S), S \subseteq ItemIds, NEW id \in ItemIds, id \notin S
  PROVE  SumOfAmounts(S \cup {id}) = SumOfAmounts(S) + id.amount
<1> DEFINE f == [x \in S |-> x.amount]
           g == [x \in S \cup {id} |-> x.amount]
<1>1. \A x \in S \cup {id} : g[x] \in Nat
  BY DEF ItemIds
<1>2. \A x \in S : f[x] = g[x] /\ g[id] = id.amount
  OBVIOUS
<1>3. SumFunctionOnSet(g, S \cup {id}) = SumFunctionOnSet(g, S) + g[id]
  <2> HIDE DEF g
  <2> QED
    BY <1>1, SumAddsOne
<1>4. SumFunctionOnSet(f, S) = SumFunctionOnSet(g, S)
  <2> HIDE DEF f, g
  <2> QED
    BY <1>1, <1>2, SumSameValues
<1>5. g[id] = id.amount
  OBVIOUS
<1> QED
  BY <1>3, <1>4, <1>5 DEF SumOfAmounts

\* Amounts of items sum to a natural number,
LEMMA AmountsNatural ==
  ASSUME NEW S, IsFiniteSet(S), S \subseteq ItemIds
  PROVE  SumOfAmounts(S) \in Nat
<1> DEFINE f == [x \in S |-> x.amount]
<1>1. \A x \in S : f[x] \in Nat
  BY DEF ItemIds
<1> HIDE DEF f
<1>2. SumFunctionOnSet(f, S) \in Nat
  BY <1>1, SumIsNatural
<1> QED
  BY <1>2 DEF SumOfAmounts, f

\* The same for calls.
LEMMA TotalAddsOne ==
  ASSUME NEW cs, NEW S, IsFiniteSet(S), NEW i, i \notin S,
         \A j \in S \cup {i} : cs[j].id \in ItemIds
  PROVE  Total(cs, S \cup {i}) = Total(cs, S) + cs[i].id.amount
<1> DEFINE f == [x \in S |-> cs[x].id.amount]
           g == [x \in S \cup {i} |-> cs[x].id.amount]
<1>1. \A x \in S \cup {i} : g[x] \in Nat
  BY DEF ItemIds
<1>2. \A x \in S : f[x] = g[x]
  OBVIOUS
<1>3. SumFunctionOnSet(g, S \cup {i}) = SumFunctionOnSet(g, S) + g[i]
  <2> HIDE DEF g
  <2> QED
    BY <1>1, SumAddsOne
<1>4. SumFunctionOnSet(f, S) = SumFunctionOnSet(g, S)
  <2> HIDE DEF f, g
  <2> QED
    BY <1>1, <1>2, SumSameValues
<1>5. g[i] = cs[i].id.amount
  OBVIOUS
<1> QED
  BY <1>3, <1>4, <1>5 DEF Total

\* and so do the amounts of calls.
LEMMA TotalNatural ==
  ASSUME NEW cs, NEW S, IsFiniteSet(S), \A j \in S : cs[j].id \in ItemIds
  PROVE  Total(cs, S) \in Nat
<1> DEFINE f == [x \in S |-> cs[x].id.amount]
<1>1. \A x \in S : f[x] \in Nat
  BY DEF ItemIds
<1> HIDE DEF f
<1>2. SumFunctionOnSet(f, S) \in Nat
  BY <1>1, SumIsNatural
<1> QED
  BY <1>2 DEF Total, f

\* A sum looks at the ids of its calls alone.
LEMMA TotalSame ==
  ASSUME NEW cs, NEW ds, NEW S, \A j \in S : ds[j].id = cs[j].id
  PROVE  Total(ds, S) = Total(cs, S)
<1>1. [i \in S |-> ds[i].id.amount] = [i \in S |-> cs[i].id.amount]
  OBVIOUS
<1> QED
  BY <1>1 DEF Total

\* What users have locked is a natural number,
LEMMA KeptNatural ==
  ASSUME NEW its \in ItemMaps, IsFiniteSet(DOMAIN its), NEW c, NEW U
  PROVE  /\ IsFiniteSet(ItemsOf(its, c, U)) /\ ItemsOf(its, c, U) \subseteq ItemIds
         /\ Kept(its, c, U) \in Nat
<1>1. ItemsOf(its, c, U) \in SUBSET DOMAIN its /\ DOMAIN its \subseteq ItemIds
  BY DEF ItemsOf, ItemMaps
<1>2. IsFiniteSet(ItemsOf(its, c, U))
  BY <1>1, FS_Subset
<1> QED
  BY <1>1, <1>2, AmountsNatural DEF Kept

\* and so is what waiting calls have taken in.
LEMMA HeldNatural ==
  ASSUME NEW cs, NEW k \in Nat, \A i \in 1..k : cs[i].id \in ItemIds, NEW c, NEW U
  PROVE  IsFiniteSet(CallsOf(cs, k, c, U)) /\ Held(cs, k, c, U) \in Nat
<1>1. IsFiniteSet(1..k) /\ CallsOf(cs, k, c, U) \in SUBSET (1..k)
  BY FS_Interval DEF CallsOf
<1>2. IsFiniteSet(CallsOf(cs, k, c, U))
  BY <1>1, FS_Subset
<1> QED
  BY <1>1, <1>2, TotalNatural DEF Held

\* An item is created, and unlocked.
Created(its, id, new) ==
  new = [i \in DOMAIN its \cup {id} |-> IF i = id THEN TRUE ELSE its[i]]

Unlocked(its, id, new) == new = [its EXCEPT ![id] = FALSE]

\* An item that is created adds its share.
LEMMA KeptAdds ==
  ASSUME NEW its \in ItemMaps, IsFiniteSet(DOMAIN its), NEW c, NEW U,
         NEW id \in ItemIds, id \notin DOMAIN its,
         NEW new, Created(its, id, new)
  PROVE  /\ new \in ItemMaps /\ IsFiniteSet(DOMAIN new)
         /\ Kept(new, c, U) = Kept(its, c, U) + Share(id, c, U)
<1>0. DOMAIN its \subseteq ItemIds /\ its \in [DOMAIN its -> BOOLEAN]
  BY DEF ItemMaps
<1>1. /\ DOMAIN its \subseteq ItemIds /\ its \in [DOMAIN its -> BOOLEAN]
      /\ DOMAIN new = DOMAIN its \cup {id} /\ new \in [DOMAIN its \cup {id} -> BOOLEAN]
  BY <1>0 DEF Created
<1>2. new \in ItemMaps
  BY <1>1 DEF ItemMaps
<1>3. IsFiniteSet(DOMAIN new)
  BY <1>1, FS_AddElement
<1>4. CASE id.token = c /\ id.sender \in U
  <2>1. ItemsOf(new, c, U) = ItemsOf(its, c, U) \cup {id} /\ id \notin ItemsOf(its, c, U)
    BY <1>1, <1>4 DEF ItemsOf, Created
  <2> QED
    BY <1>2, <1>3, <1>4, <2>1, KeptNatural, AmountsAddOne DEF Kept, Share
<1>5. CASE ~(id.token = c /\ id.sender \in U)
  <2>1. ItemsOf(new, c, U) = ItemsOf(its, c, U)
    BY <1>1, <1>5 DEF ItemsOf, Created
  <2> QED
    BY <1>2, <1>3, <1>5, <2>1, KeptNatural DEF Kept, Share
<1> QED
  BY <1>4, <1>5

\* An item that is paid out takes its share away.
LEMMA KeptDrops ==
  ASSUME NEW its \in ItemMaps, IsFiniteSet(DOMAIN its), NEW c, NEW U,
         NEW id \in DOMAIN its, its[id],
         NEW new, Unlocked(its, id, new)
  PROVE  /\ new \in ItemMaps /\ DOMAIN new = DOMAIN its
         /\ Kept(its, c, U) = Kept(new, c, U) + Share(id, c, U)
<1>1. /\ DOMAIN its \subseteq ItemIds /\ its \in [DOMAIN its -> BOOLEAN]
      /\ DOMAIN new = DOMAIN its /\ new \in [DOMAIN its -> BOOLEAN]
      /\ id \in ItemIds
  BY DEF ItemMaps, Unlocked
<1>2. new \in ItemMaps
  BY <1>1 DEF ItemMaps
<1>3. IsFiniteSet(ItemsOf(new, c, U)) /\ ItemsOf(new, c, U) \subseteq ItemIds /\ Kept(new, c, U) \in Nat
  BY <1>1, <1>2, KeptNatural
<1>4. CASE id.token = c /\ id.sender \in U
  <2>1. ItemsOf(its, c, U) = ItemsOf(new, c, U) \cup {id} /\ id \notin ItemsOf(new, c, U)
    BY <1>1, <1>4 DEF ItemsOf, Unlocked
  <2>2. SumOfAmounts(ItemsOf(new, c, U) \cup {id}) = SumOfAmounts(ItemsOf(new, c, U)) + id.amount
    BY <1>1, <1>3, <2>1, AmountsAddOne
  <2> QED
    BY <1>1, <1>2, <1>4, <2>1, <2>2 DEF Kept, Share
<1>5. CASE ~(id.token = c /\ id.sender \in U)
  <2>1. ItemsOf(new, c, U) = ItemsOf(its, c, U)
    BY <1>1, <1>5 DEF ItemsOf, Unlocked
  <2> QED
    BY <1>1, <1>2, <1>3, <1>5, <2>1 DEF Kept, Share
<1> QED
  BY <1>4, <1>5

\* Two stacks with the same calls 1..k, whatever state these began in.
Agree(cs, ds, k) ==
  \A i \in 1..k : ds[i].op = cs[i].op /\ ds[i].id = cs[i].id /\ ds[i].moved = cs[i].moved

\* What waiting calls have taken in looks at their items and at what they moved.
LEMMA HeldSame ==
  ASSUME NEW cs, NEW ds, NEW k \in Nat, Agree(cs, ds, k), NEW c, NEW U
  PROVE  CallsOf(ds, k, c, U) = CallsOf(cs, k, c, U) /\ Held(ds, k, c, U) = Held(cs, k, c, U)
<1>1. CallsOf(ds, k, c, U) = CallsOf(cs, k, c, U)
  BY DEF Agree, CallsOf
<1>2. \A j \in CallsOf(cs, k, c, U) : ds[j].id = cs[j].id
  BY DEF Agree, CallsOf
<1> QED
  BY <1>1, <1>2, TotalSame DEF Held

\* A call holds its amount when it is a lock that was paid or a payment that was not.
Holds(call) == call.moved = (call.op = "lock")

\* The call on top adds its share if it holds it.
LEMMA HeldOfTop ==
  ASSUME NEW cs, NEW k \in Nat, \A i \in 1..k + 1 : cs[i].id \in ItemIds, NEW c, NEW U
  PROVE  Held(cs, k + 1, c, U) =
           Held(cs, k, c, U) + (IF Holds(cs[k + 1]) THEN Share(cs[k + 1].id, c, U) ELSE 0)
<1> DEFINE low == CallsOf(cs, k, c, U)
           top == cs[k + 1]
           all == CallsOf(cs, k + 1, c, U)
<1>1. /\ \A i \in 1..k : cs[i].id \in ItemIds
      /\ top.id \in ItemIds
  OBVIOUS
<1>2. IsFiniteSet(low) /\ Held(cs, k, c, U) \in Nat
  BY <1>1, HeldNatural
<1>3. 1..k + 1 = 1..k \cup {k + 1} /\ k + 1 \notin 1..k
  OBVIOUS
<1>4. CASE Holds(top) /\ top.id.token = c /\ top.id.sender \in U
  <2>1. all = low \cup {k + 1} /\ k + 1 \notin low
    BY <1>3, <1>4 DEF CallsOf, Holds
  <2>2. Total(cs, low \cup {k + 1}) = Total(cs, low) + top.id.amount
    <3>1. \A j \in low \cup {k + 1} : cs[j].id \in ItemIds
      BY DEF CallsOf
    <3> QED
      BY <1>2, <2>1, <3>1, TotalAddsOne
  <2> QED
    BY <1>4, <2>1, <2>2 DEF Held, Share
<1>5. CASE ~(Holds(top) /\ top.id.token = c /\ top.id.sender \in U)
  <2>1. all = low
    BY <1>3, <1>5 DEF CallsOf, Holds
  <2> QED
    BY <1>2, <1>5, <2>1 DEF Held, Share
<1> QED
  BY <1>4, <1>5

-----------------------------------------------------------------------------
(* The movements of funds.                                                  *)

\* The amount of id goes from its sender to the contract, or back.
FlowsIn(h, new, id) ==
  \A c \in Currencies :
    /\ \A u \in Users : new[c][u] = h[c][u] - Share(id, c, {u})
    /\ new[c][contract] = h[c][contract] + Share(id, c, Users)

FlowsOut(h, new, id) ==
  \A c \in Currencies :
    /\ \A u \in Users : new[c][u] = h[c][u] + Share(id, c, {u})
    /\ new[c][contract] = h[c][contract] - Share(id, c, Users)

\* A transfer between two accounts that differ, of an amount the payer has.
LEMMA MoveMoves ==
  ASSUME NEW h \in Books, NEW t \in Currencies, NEW x \in Accounts, NEW y \in Accounts, x # y,
         NEW a \in Nat, h[t][x] >= a
  PROVE  /\ Move(h, t, x, y, a) \in Books
         /\ \A c \in Currencies, z \in Accounts :
              Move(h, t, x, y, a)[c][z] =
                IF c # t THEN h[c][z]
                ELSE IF z = x THEN h[c][z] - a
                ELSE IF z = y THEN h[c][z] + a
                ELSE h[c][z]
<1> DEFINE left == [h[t] EXCEPT ![x] = h[t][x] - a]
           row  == [left EXCEPT ![y] = left[y] + a]
<1>1. h[t] \in [Accounts -> Nat] /\ h[t][x] - a \in Nat
  BY DEF Books
<1>2. left \in [Accounts -> Nat] /\ \A z \in Accounts : left[z] = IF z = x THEN h[t][x] - a ELSE h[t][z]
  BY <1>1
<1>3. row \in [Accounts -> Nat] /\ \A z \in Accounts : row[z] = IF z = y THEN left[y] + a ELSE left[z]
  <2> HIDE DEF left
  <2> QED
    BY <1>2
<1>4. Move(h, t, x, y, a) = [h EXCEPT ![t] = row]
  BY DEF Move, Books
<1> HIDE DEF row, left
<1>5. [h EXCEPT ![t] = row] \in Books
  BY <1>3 DEF Books
<1>6. \A c \in Currencies : [h EXCEPT ![t] = row][c] = IF c = t THEN row ELSE h[c]
  BY DEF Books
<1> QED
  BY <1>2, <1>3, <1>4, <1>5, <1>6

\* A lock pays the contract,
LEMMA MovesIn ==
  ASSUME NEW h \in Books, NEW id \in ItemIds, h[id.token][id.sender] >= id.amount
  PROVE  LET new == Move(h, id.token, id.sender, contract, id.amount)
         IN  new \in Books /\ FlowsIn(h, new, id)
<1> DEFINE t == id.token
           x == id.sender
           a == id.amount
           new == Move(h, t, x, contract, a)
<1>1. /\ t \in Currencies /\ x \in Users /\ a \in Nat
      /\ x \in Accounts /\ contract \in Accounts /\ x # contract /\ contract \notin Users
  BY AddressAssumption DEF ItemIds, Accounts, Currencies
<1>2. Users \subseteq Accounts
  BY DEF Accounts
<1> HIDE DEF t, x, a
<1>3. /\ new \in Books
      /\ \A c \in Currencies, z \in Accounts :
           new[c][z] = IF c # t THEN h[c][z]
                       ELSE IF z = x THEN h[c][z] - a
                       ELSE IF z = contract THEN h[c][z] + a
                       ELSE h[c][z]
  <2>1. h[t][x] >= a
    BY DEF t, x, a
  <2> QED
    BY <1>1, <2>1, MoveMoves
<1>4. \A c, U : Share(id, c, U) = IF t = c /\ x \in U THEN a ELSE 0
  BY DEF Share, t, x, a
<1>5. \A c \in Currencies, z \in Accounts : h[c][z] \in Nat
  BY DEF Books
<1> HIDE DEF new
<1>6. FlowsIn(h, new, id)
  BY <1>1, <1>2, <1>3, <1>4, <1>5 DEF FlowsIn
<1> QED
  BY <1>3, <1>6 DEF new, t, x, a

\* and a completion pays the sender of the item.
LEMMA MovesOut ==
  ASSUME NEW h \in Books, NEW id \in ItemIds, h[id.token][contract] >= id.amount
  PROVE  LET new == Move(h, id.token, contract, id.sender, id.amount)
         IN  new \in Books /\ FlowsOut(h, new, id)
<1> DEFINE t == id.token
           x == id.sender
           a == id.amount
           new == Move(h, t, contract, x, a)
<1>1. /\ t \in Currencies /\ x \in Users /\ a \in Nat
      /\ x \in Accounts /\ contract \in Accounts /\ x # contract /\ contract \notin Users
  BY AddressAssumption DEF ItemIds, Accounts, Currencies
<1>2. Users \subseteq Accounts
  BY DEF Accounts
<1> HIDE DEF t, x, a
<1>3. /\ new \in Books
      /\ \A c \in Currencies, z \in Accounts :
           new[c][z] = IF c # t THEN h[c][z]
                       ELSE IF z = contract THEN h[c][z] - a
                       ELSE IF z = x THEN h[c][z] + a
                       ELSE h[c][z]
  <2>1. h[t][contract] >= a
    BY DEF t, a
  <2> QED
    BY <1>1, <2>1, MoveMoves
<1>4. \A c, U : Share(id, c, U) = IF t = c /\ x \in U THEN a ELSE 0
  BY DEF Share, t, x, a
<1>5. \A c \in Currencies, z \in Accounts : h[c][z] \in Nat
  BY DEF Books
<1> HIDE DEF new
<1>6. FlowsOut(h, new, id)
  BY <1>1, <1>2, <1>3, <1>4, <1>5 DEF FlowsOut
<1> QED
  BY <1>3, <1>6 DEF new, t, x, a

\* The items, funds and waiting calls of a state have their types.
Sane(its, h, cs, k) ==
  /\ its \in ItemMaps /\ IsFiniteSet(DOMAIN its)
  /\ h \in Books
  /\ k \in Nat /\ \A i \in 1..k : cs[i].id \in ItemIds

\* What a user loses is kept for him, and the contract has gained it.
Balanced(its, h, cs, k, its2, h2, ds, k2) ==
  \A c \in Currencies :
    /\ \A u \in Users : h2[c][u] + Kept(its2, c, {u}) + Held(ds, k2, c, {u})
                         = h[c][u] + Kept(its, c, {u}) + Held(cs, k, c, {u})
    /\ h2[c][contract] + Kept(its, c, Users) + Held(cs, k, c, Users)
         = h[c][contract] + Kept(its2, c, Users) + Held(ds, k2, c, Users)

\* Then the funds stay good.
LEMMA FundsBalance ==
  ASSUME NEW its, NEW h, NEW cs, NEW k, Sane(its, h, cs, k),
         NEW its2, NEW h2, NEW ds, NEW k2, Sane(its2, h2, ds, k2),
         NEW d \in [Tokens -> [Users -> Nat]],
         GoodFunds(its, h, cs, k, d), Balanced(its, h, cs, k, its2, h2, ds, k2)
  PROVE  GoodFunds(its2, h2, ds, k2, d)
<1>1. \A c \in Currencies, z \in Accounts : h[c][z] \in Nat /\ h2[c][z] \in Nat
  BY DEF Sane, Books
<1>2. \A c, U : /\ Kept(its, c, U) \in Nat /\ Kept(its2, c, U) \in Nat
                 /\ Held(cs, k, c, U) \in Nat /\ Held(ds, k2, c, U) \in Nat
  BY KeptNatural, HeldNatural DEF Sane
<1>3. \A c \in Currencies, u \in Users : Given(d, c, u) \in Nat
  BY DEF Given, Currencies
<1>4. Users \subseteq Accounts /\ contract \in Accounts
  BY DEF Accounts
<1>5. ASSUME NEW c \in Currencies, NEW u \in Users
      PROVE  h2[c][u] + Kept(its2, c, {u}) + Held(ds, k2, c, {u}) + Given(d, c, u) = InitialFunds
  <2>1. h[c][u] + Kept(its, c, {u}) + Held(cs, k, c, {u}) + Given(d, c, u) = InitialFunds
    BY DEF GoodFunds
  <2> QED
    BY <1>1, <1>2, <1>3, <1>4, <2>1 DEF Balanced
<1>6. ASSUME NEW c \in Currencies
      PROVE  h2[c][contract] >= Kept(its2, c, Users) + Held(ds, k2, c, Users)
  <2>1. h[c][contract] >= Kept(its, c, Users) + Held(cs, k, c, Users)
    BY DEF GoodFunds
  <2> QED
    BY <1>1, <1>2, <1>4, <2>1 DEF Balanced
<1> QED
  BY <1>5, <1>6 DEF GoodFunds

\* An item that is created for ether that was paid.
LEMMA FundsOfCreated ==
  ASSUME NEW its \in ItemMaps, IsFiniteSet(DOMAIN its), NEW h \in Books, NEW h2 \in Books,
         NEW d \in [Tokens -> [Users -> Nat]],
         NEW cs, NEW k \in Nat, \A i \in 1..k : cs[i].id \in ItemIds,
         GoodFunds(its, h, cs, k, d),
         NEW id \in ItemIds, id \notin DOMAIN its,
         NEW new, Created(its, id, new),
         FlowsIn(h, h2, id)
  PROVE  GoodFunds(new, h2, cs, k, d)
<1>1. new \in ItemMaps /\ IsFiniteSet(DOMAIN new)
  BY KeptAdds
<1>2. \A c, U : /\ Kept(new, c, U) = Kept(its, c, U) + Share(id, c, U)
                 /\ Kept(its, c, U) \in Nat /\ Held(cs, k, c, U) \in Nat
                 /\ Share(id, c, U) \in Nat
  <2> TAKE c, U
  <2>1. Kept(new, c, U) = Kept(its, c, U) + Share(id, c, U)
    BY KeptAdds
  <2> QED
    BY <2>1, KeptNatural, HeldNatural, ShareIsNatural
<1>3. \A c \in Currencies, z \in Accounts : h[c][z] \in Nat
  BY DEF Books
<1>4. Users \subseteq Accounts /\ contract \in Accounts
  BY DEF Accounts
<1>5. ASSUME NEW c \in Currencies, NEW u \in Users
      PROVE  h2[c][u] + Kept(new, c, {u}) + Held(cs, k, c, {u})
               = h[c][u] + Kept(its, c, {u}) + Held(cs, k, c, {u})
  <2>1. h[c][u] \in Nat /\ h2[c][u] = h[c][u] - Share(id, c, {u})
    BY <1>3, <1>4 DEF FlowsIn
  <2> QED
    BY <1>2, <2>1
<1>6. ASSUME NEW c \in Currencies
      PROVE  h2[c][contract] + Kept(its, c, Users) + Held(cs, k, c, Users)
               = h[c][contract] + Kept(new, c, Users) + Held(cs, k, c, Users)
  <2>1. h[c][contract] \in Nat /\ h2[c][contract] = h[c][contract] + Share(id, c, Users)
    BY <1>3, <1>4 DEF FlowsIn
  <2> QED
    BY <1>2, <2>1
<1>7. Sane(its, h, cs, k) /\ Sane(new, h2, cs, k)
  BY <1>1 DEF Sane
<1>8. Balanced(its, h, cs, k, new, h2, cs, k)
  BY <1>5, <1>6 DEF Balanced
<1> QED
  BY <1>7, <1>8, FundsBalance

\* A call that begins and asks for the amount.
LEMMA FundsOfLockCalled ==
  ASSUME NEW its \in ItemMaps, IsFiniteSet(DOMAIN its), NEW h \in Books, NEW h2 \in Books,
         NEW d \in [Tokens -> [Users -> Nat]],
         NEW cs, NEW k \in Nat, NEW ds, \A i \in 1..k + 1 : ds[i].id \in ItemIds,
         Agree(cs, ds, k), GoodFunds(its, h, cs, k, d),
         ds[k + 1].op = "lock", ds[k + 1].moved \in BOOLEAN,
         IF ds[k + 1].moved THEN FlowsIn(h, h2, ds[k + 1].id) ELSE h2 = h
  PROVE  GoodFunds(its, h2, ds, k + 1, d)
<1> DEFINE id == ds[k + 1].id
<1>1. /\ \A i \in 1..k : cs[i].id \in ItemIds
      /\ id \in ItemIds
  BY DEF Agree
<1>2. \A c, U : /\ Held(ds, k + 1, c, U) =
                      Held(cs, k, c, U) + (IF ds[k + 1].moved THEN Share(id, c, U) ELSE 0)
                 /\ Kept(its, c, U) \in Nat /\ Held(cs, k, c, U) \in Nat
                 /\ Share(id, c, U) \in Nat
  <2> TAKE c, U
  <2>1. Held(ds, k + 1, c, U) =
          Held(ds, k, c, U) + (IF Holds(ds[k + 1]) THEN Share(id, c, U) ELSE 0)
    BY HeldOfTop
  <2>2. Held(ds, k, c, U) = Held(cs, k, c, U)
    BY HeldSame
  <2>3. Holds(ds[k + 1]) <=> ds[k + 1].moved
    BY DEF Holds
  <2> QED
    BY <1>1, <2>1, <2>2, <2>3, KeptNatural, HeldNatural, ShareIsNatural
<1>3. \A c \in Currencies, z \in Accounts : h[c][z] \in Nat
  BY DEF Books
<1>4. Users \subseteq Accounts /\ contract \in Accounts
  BY DEF Accounts
<1>5. ASSUME NEW c \in Currencies, NEW u \in Users
      PROVE  h2[c][u] + Kept(its, c, {u}) + Held(ds, k + 1, c, {u})
               = h[c][u] + Kept(its, c, {u}) + Held(cs, k, c, {u})
  <2>1. h[c][u] \in Nat /\ h2[c][u] =
          IF ds[k + 1].moved THEN h[c][u] - Share(id, c, {u}) ELSE h[c][u]
    BY <1>3, <1>4 DEF FlowsIn
  <2> QED
    BY <1>2, <2>1
<1>6. ASSUME NEW c \in Currencies
      PROVE  h2[c][contract] + Kept(its, c, Users) + Held(cs, k, c, Users)
               = h[c][contract] + Kept(its, c, Users) + Held(ds, k + 1, c, Users)
  <2>1. h[c][contract] \in Nat /\ h2[c][contract] =
          IF ds[k + 1].moved THEN h[c][contract] + Share(id, c, Users) ELSE h[c][contract]
    BY <1>3, <1>4 DEF FlowsIn
  <2> QED
    BY <1>2, <2>1
<1>7. Sane(its, h, cs, k) /\ Sane(its, h2, ds, k + 1)
  BY <1>1 DEF Sane
<1>8. Balanced(its, h, cs, k, its, h2, ds, k + 1)
  BY <1>5, <1>6 DEF Balanced
<1> QED
  BY <1>7, <1>8, FundsBalance

\* A lock call that returns: the item stands for what the call has held or now gets.
LEMMA FundsOfLockReturned ==
  ASSUME NEW its \in ItemMaps, IsFiniteSet(DOMAIN its), NEW h \in Books, NEW h2 \in Books,
         NEW d \in [Tokens -> [Users -> Nat]],
         NEW cs, NEW k \in Nat, NEW ds, \A i \in 1..k + 1 : cs[i].id \in ItemIds,
         Agree(cs, ds, k), GoodFunds(its, h, cs, k + 1, d),
         cs[k + 1].op = "lock", cs[k + 1].moved \in BOOLEAN,
         IF cs[k + 1].moved THEN h2 = h ELSE FlowsIn(h, h2, cs[k + 1].id),
         NEW id \in ItemIds, id \notin DOMAIN its,
         \A c, U : Share(id, c, U) = Share(cs[k + 1].id, c, U),
         NEW new, Created(its, id, new)
  PROVE  GoodFunds(new, h2, ds, k, d)
<1>0. new \in ItemMaps /\ IsFiniteSet(DOMAIN new)
  BY KeptAdds
<1>1. /\ \A i \in 1..k : cs[i].id \in ItemIds /\ ds[i].id \in ItemIds
      /\ new \in ItemMaps /\ IsFiniteSet(DOMAIN new)
  BY <1>0 DEF Agree
<1>2. \A c, U : /\ Held(cs, k + 1, c, U) =
                      Held(ds, k, c, U) + (IF cs[k + 1].moved THEN Share(id, c, U) ELSE 0)
                 /\ Kept(new, c, U) = Kept(its, c, U) + Share(id, c, U)
                 /\ Kept(its, c, U) \in Nat /\ Held(ds, k, c, U) \in Nat
                 /\ Share(id, c, U) \in Nat /\ Share(cs[k + 1].id, c, U) = Share(id, c, U)
  <2> TAKE c, U
  <2>1. Held(cs, k + 1, c, U) =
          Held(cs, k, c, U) + (IF Holds(cs[k + 1]) THEN Share(id, c, U) ELSE 0)
    BY HeldOfTop
  <2>2. Held(ds, k, c, U) = Held(cs, k, c, U)
    BY HeldSame
  <2>3. Holds(cs[k + 1]) <=> cs[k + 1].moved
    BY DEF Holds
  <2>4. Kept(new, c, U) = Kept(its, c, U) + Share(id, c, U)
    BY KeptAdds
  <2> QED
    BY <1>1, <2>1, <2>2, <2>3, <2>4, KeptNatural, HeldNatural, ShareIsNatural
<1>3. \A c \in Currencies, z \in Accounts : h[c][z] \in Nat
  BY DEF Books
<1>4. Users \subseteq Accounts /\ contract \in Accounts
  BY DEF Accounts
<1>5. ASSUME NEW c \in Currencies, NEW u \in Users
      PROVE  h2[c][u] + Kept(new, c, {u}) + Held(ds, k, c, {u})
               = h[c][u] + Kept(its, c, {u}) + Held(cs, k + 1, c, {u})
  <2>1. h[c][u] \in Nat /\ h2[c][u] =
          IF cs[k + 1].moved THEN h[c][u] ELSE h[c][u] - Share(cs[k + 1].id, c, {u})
    BY <1>3, <1>4 DEF FlowsIn
  <2> QED
    BY <1>2, <2>1
<1>6. ASSUME NEW c \in Currencies
      PROVE  h2[c][contract] + Kept(its, c, Users) + Held(cs, k + 1, c, Users)
               = h[c][contract] + Kept(new, c, Users) + Held(ds, k, c, Users)
  <2>1. h[c][contract] \in Nat /\ h2[c][contract] =
          IF cs[k + 1].moved THEN h[c][contract] ELSE h[c][contract] + Share(cs[k + 1].id, c, Users)
    BY <1>3, <1>4 DEF FlowsIn
  <2> QED
    BY <1>2, <2>1
<1>7. Sane(its, h, cs, k + 1) /\ Sane(new, h2, ds, k)
  BY <1>1 DEF Sane
<1>8. Balanced(its, h, cs, k + 1, new, h2, ds, k)
  BY <1>5, <1>6 DEF Balanced
<1> QED
  BY <1>7, <1>8, FundsBalance

\* An item of ether that is paid out.
LEMMA FundsOfPaidOut ==
  ASSUME NEW its \in ItemMaps, IsFiniteSet(DOMAIN its), NEW h \in Books, NEW h2 \in Books,
         NEW d \in [Tokens -> [Users -> Nat]],
         NEW cs, NEW k \in Nat, \A i \in 1..k : cs[i].id \in ItemIds,
         GoodFunds(its, h, cs, k, d),
         NEW id \in DOMAIN its, its[id], NEW new, Unlocked(its, id, new),
         FlowsOut(h, h2, id)
  PROVE  GoodFunds(new, h2, cs, k, d)
<1>1. new \in ItemMaps /\ IsFiniteSet(DOMAIN new) /\ id \in ItemIds
  BY KeptDrops DEF ItemMaps
<1>2. \A c, U : /\ Kept(its, c, U) = Kept(new, c, U) + Share(id, c, U)
                 /\ Kept(new, c, U) \in Nat /\ Held(cs, k, c, U) \in Nat
                 /\ Share(id, c, U) \in Nat
  BY <1>1, KeptDrops, KeptNatural, HeldNatural, ShareIsNatural
<1>3. \A c \in Currencies, z \in Accounts : h[c][z] \in Nat
  BY DEF Books
<1>4. Users \subseteq Accounts /\ contract \in Accounts
  BY DEF Accounts
<1>5. ASSUME NEW c \in Currencies, NEW u \in Users
      PROVE  h2[c][u] + Kept(new, c, {u}) + Held(cs, k, c, {u})
               = h[c][u] + Kept(its, c, {u}) + Held(cs, k, c, {u})
  <2>1. h[c][u] \in Nat /\ h2[c][u] = h[c][u] + Share(id, c, {u})
    BY <1>3, <1>4 DEF FlowsOut
  <2> QED
    BY <1>2, <2>1
<1>6. ASSUME NEW c \in Currencies
      PROVE  h2[c][contract] + Kept(its, c, Users) + Held(cs, k, c, Users)
               = h[c][contract] + Kept(new, c, Users) + Held(cs, k, c, Users)
  <2>1. h[c][contract] \in Nat /\ h2[c][contract] = h[c][contract] - Share(id, c, Users)
    BY <1>3, <1>4 DEF FlowsOut
  <2> QED
    BY <1>2, <2>1
<1>7. Sane(its, h, cs, k) /\ Sane(new, h2, cs, k)
  BY <1>1 DEF Sane
<1>8. Balanced(its, h, cs, k, new, h2, cs, k)
  BY <1>5, <1>6 DEF Balanced
<1> QED
  BY <1>7, <1>8, FundsBalance

\* A payment in tokens that begins: the call holds what it has not paid yet.
LEMMA FundsOfPaymentCalled ==
  ASSUME NEW its \in ItemMaps, IsFiniteSet(DOMAIN its), NEW h \in Books, NEW h2 \in Books,
         NEW d \in [Tokens -> [Users -> Nat]],
         NEW cs, NEW k \in Nat, NEW ds, \A i \in 1..k + 1 : ds[i].id \in ItemIds,
         Agree(cs, ds, k), GoodFunds(its, h, cs, k, d),
         ds[k + 1].op # "lock", ds[k + 1].moved \in BOOLEAN,
         ds[k + 1].id \in DOMAIN its, its[ds[k + 1].id],
         NEW new, Unlocked(its, ds[k + 1].id, new),
         IF ds[k + 1].moved THEN FlowsOut(h, h2, ds[k + 1].id) ELSE h2 = h
  PROVE  GoodFunds(new, h2, ds, k + 1, d)
<1> DEFINE id == ds[k + 1].id
<1>1. /\ \A i \in 1..k : cs[i].id \in ItemIds
      /\ id \in ItemIds /\ new \in ItemMaps /\ IsFiniteSet(DOMAIN new)
  <2>1. k + 1 \in 1..k + 1 /\ \A i \in 1..k : i \in 1..k + 1
    OBVIOUS
  <2>2. \A i \in 1..k : cs[i].id \in ItemIds
    BY <2>1 DEF Agree
  <2>3. id \in ItemIds
    BY <2>1
  <2>4. new \in ItemMaps /\ DOMAIN new = DOMAIN its
    BY KeptDrops
  <2> QED
    BY <2>2, <2>3, <2>4
<1>2. \A c, U : /\ Held(ds, k + 1, c, U) =
                      Held(cs, k, c, U) + (IF ds[k + 1].moved THEN 0 ELSE Share(id, c, U))
                 /\ Kept(its, c, U) = Kept(new, c, U) + Share(id, c, U)
                 /\ Kept(new, c, U) \in Nat /\ Held(cs, k, c, U) \in Nat
                 /\ Share(id, c, U) \in Nat
  <2> TAKE c, U
  <2>1. Held(ds, k + 1, c, U) =
          Held(ds, k, c, U) + (IF Holds(ds[k + 1]) THEN Share(id, c, U) ELSE 0)
    BY HeldOfTop
  <2>2. Held(ds, k, c, U) = Held(cs, k, c, U)
    BY HeldSame
  <2>3. Holds(ds[k + 1]) <=> ~ds[k + 1].moved
    BY DEF Holds
  <2>4. Kept(its, c, U) = Kept(new, c, U) + Share(id, c, U)
    BY KeptDrops
  <2> QED
    BY <1>1, <2>1, <2>2, <2>3, <2>4, KeptNatural, HeldNatural, ShareIsNatural
<1>3. \A c \in Currencies, z \in Accounts : h[c][z] \in Nat
  BY DEF Books
<1>4. Users \subseteq Accounts /\ contract \in Accounts
  BY DEF Accounts
<1>5. ASSUME NEW c \in Currencies, NEW u \in Users
      PROVE  h2[c][u] + Kept(new, c, {u}) + Held(ds, k + 1, c, {u})
               = h[c][u] + Kept(its, c, {u}) + Held(cs, k, c, {u})
  <2>1. h[c][u] \in Nat /\ h2[c][u] =
          IF ds[k + 1].moved THEN h[c][u] + Share(id, c, {u}) ELSE h[c][u]
    BY <1>3, <1>4 DEF FlowsOut
  <2> QED
    BY <1>2, <2>1
<1>6. ASSUME NEW c \in Currencies
      PROVE  h2[c][contract] + Kept(its, c, Users) + Held(cs, k, c, Users)
               = h[c][contract] + Kept(new, c, Users) + Held(ds, k + 1, c, Users)
  <2>1. h[c][contract] \in Nat /\ h2[c][contract] =
          IF ds[k + 1].moved THEN h[c][contract] - Share(id, c, Users) ELSE h[c][contract]
    BY <1>3, <1>4 DEF FlowsOut
  <2> QED
    BY <1>2, <2>1
<1>7. Sane(its, h, cs, k) /\ Sane(new, h2, ds, k + 1)
  BY <1>1 DEF Sane
<1>8. Balanced(its, h, cs, k, new, h2, ds, k + 1)
  BY <1>5, <1>6 DEF Balanced
<1> QED
  BY <1>7, <1>8, FundsBalance

\* A payment in tokens that returns has paid what the call held.
LEMMA FundsOfPaymentReturned ==
  ASSUME NEW its \in ItemMaps, IsFiniteSet(DOMAIN its), NEW h \in Books, NEW h2 \in Books,
         NEW d \in [Tokens -> [Users -> Nat]],
         NEW cs, NEW k \in Nat, NEW ds, \A i \in 1..k + 1 : cs[i].id \in ItemIds,
         Agree(cs, ds, k), GoodFunds(its, h, cs, k + 1, d),
         cs[k + 1].op # "lock", cs[k + 1].moved \in BOOLEAN,
         IF cs[k + 1].moved THEN h2 = h ELSE FlowsOut(h, h2, cs[k + 1].id)
  PROVE  GoodFunds(its, h2, ds, k, d)
<1> DEFINE id == cs[k + 1].id
<1>1. /\ \A i \in 1..k : cs[i].id \in ItemIds /\ ds[i].id \in ItemIds
      /\ id \in ItemIds
  BY DEF Agree
<1>2. \A c, U : /\ Held(cs, k + 1, c, U) =
                      Held(ds, k, c, U) + (IF cs[k + 1].moved THEN 0 ELSE Share(id, c, U))
                 /\ Kept(its, c, U) \in Nat /\ Held(ds, k, c, U) \in Nat
                 /\ Share(id, c, U) \in Nat
  <2> TAKE c, U
  <2>1. Held(cs, k + 1, c, U) =
          Held(cs, k, c, U) + (IF Holds(cs[k + 1]) THEN Share(id, c, U) ELSE 0)
    BY HeldOfTop
  <2>2. Held(ds, k, c, U) = Held(cs, k, c, U)
    BY HeldSame
  <2>3. Holds(cs[k + 1]) <=> ~cs[k + 1].moved
    BY DEF Holds
  <2> QED
    BY <1>1, <2>1, <2>2, <2>3, KeptNatural, HeldNatural, ShareIsNatural
<1>3. \A c \in Currencies, z \in Accounts : h[c][z] \in Nat
  BY DEF Books
<1>4. Users \subseteq Accounts /\ contract \in Accounts
  BY DEF Accounts
<1>5. ASSUME NEW c \in Currencies, NEW u \in Users
      PROVE  h2[c][u] + Kept(its, c, {u}) + Held(ds, k, c, {u})
               = h[c][u] + Kept(its, c, {u}) + Held(cs, k + 1, c, {u})
  <2>1. h[c][u] \in Nat /\ h2[c][u] =
          IF cs[k + 1].moved THEN h[c][u] ELSE h[c][u] + Share(id, c, {u})
    BY <1>3, <1>4 DEF FlowsOut
  <2> QED
    BY <1>2, <2>1
<1>6. ASSUME NEW c \in Currencies
      PROVE  h2[c][contract] + Kept(its, c, Users) + Held(cs, k + 1, c, Users)
               = h[c][contract] + Kept(its, c, Users) + Held(ds, k, c, Users)
  <2>1. h[c][contract] \in Nat /\ h2[c][contract] =
          IF cs[k + 1].moved THEN h[c][contract] ELSE h[c][contract] - Share(id, c, Users)
    BY <1>3, <1>4 DEF FlowsOut
  <2> QED
    BY <1>2, <2>1
<1>7. Sane(its, h, cs, k + 1) /\ Sane(its, h2, ds, k)
  BY <1>1 DEF Sane
<1>8. Balanced(its, h, cs, k + 1, its, h2, ds, k)
  BY <1>5, <1>6 DEF Balanced
<1> QED
  BY <1>7, <1>8, FundsBalance

-----------------------------------------------------------------------------
(* The log.                                                                 *)

\* The log l with one entry more.
Grown(l, e, m) ==
  /\ l \in Seq(Entries) /\ DOMAIN l = 1..Len(l) /\ Len(l) \in Nat
  /\ m \in Seq(Entries) /\ DOMAIN m = 1..Len(l) + 1 /\ Len(m) = Len(l) + 1
  /\ \A i \in 1..Len(l) : m[i] = l[i]
  /\ m[Len(l) + 1] = e

\* An entry appended is an entry grown.
LEMMA AppendGrows ==
  ASSUME NEW l \in Seq(Entries), NEW e \in Entries
  PROVE  Grown(l, e, Append(l, e))
BY AppendProperties, LenProperties DEF Grown

\* A lock is logged; the locks among the waiting calls do not matter.
LEMMA LogOfCreated ==
  ASSUME NEW its, NEW l, NEW id, id \notin DOMAIN its,
         NEW new, Created(its, id, new),
         NEW m, Grown(l, [event |-> "LogLock", id |-> id], m),
         NEW cs, NEW ds, NEW k \in Nat, NEW k2 \in 0..k, Agree(cs, ds, k2),
         \A i \in k2 + 1..k : cs[i].op = "lock",
         GoodLog(its, l, cs, k)
  PROVE  GoodLog(new, m, ds, k2)
<1>1. /\ DOMAIN new = DOMAIN its \cup {id} /\ new[id] = TRUE
      /\ \A x \in DOMAIN its : new[x] = its[x]
  BY DEF Created
<1> DEFINE top == Len(l) + 1
<1>2. /\ DOMAIN l = 1..Len(l) /\ Len(l) \in Nat /\ DOMAIN m = DOMAIN l \cup {top} /\ top \notin DOMAIN l
      /\ \A i \in DOMAIN l : m[i] = l[i] /\ i < top
      /\ m[top].event = "LogLock" /\ m[top].id = id
  BY DEF Grown
<1>3. /\ \A i \in DOMAIN l : l[i].id \in DOMAIN its
      /\ \A i \in 1..k : cs[i].op # "lock" => cs[i].id \in DOMAIN its
      /\ \A x \in DOMAIN its : Told(its, l, cs, k, x)
  BY DEF GoodLog
<1>4. \A i \in 1..k2 : i \in 1..k /\ ds[i].op = cs[i].op /\ ds[i].id = cs[i].id
  BY DEF Agree
<1>5. \A i \in 1..k : cs[i].op # "lock" => i \in 1..k2
  OBVIOUS
<1> HIDE DEF top
<1>6. /\ \A i \in DOMAIN m : m[i].id \in DOMAIN new
      /\ \A i \in 1..k2 : ds[i].op # "lock" => ds[i].id \in DOMAIN new
  BY <1>1, <1>2, <1>3, <1>4
<1>7. Told(new, m, ds, k2, id)
  <2>1. \A i \in DOMAIN m : ~Paid(m, i, id)
    BY <1>2, <1>3 DEF Paid
  <2>2. \A i \in 1..k2 : ~Paying(ds, i, id)
    BY <1>3, <1>4 DEF Paying
  <2>3. LockedAt(m, id, top)
    BY <1>2, <1>3, <2>1 DEF LockedAt
  <2> QED
    BY <1>1, <1>2, <2>1, <2>2, <2>3 DEF Told
<1>8. ASSUME NEW x \in DOMAIN its
      PROVE  Told(new, m, ds, k2, x)
  <2>1. Told(its, l, cs, k, x) /\ x # id
    BY <1>3
  <2>2. /\ \A i \in DOMAIN l : Paid(m, i, x) <=> Paid(l, i, x)
        /\ ~Paid(m, top, x)
    BY <1>2, <2>1 DEF Paid
  <2>3. /\ \A i \in 1..k2 : Paying(ds, i, x) <=> Paying(cs, i, x)
        /\ \A i \in 1..k : Paying(cs, i, x) => i \in 1..k2
    BY <1>4, <1>5 DEF Paying
  <2>4. \E i \in DOMAIN m : LockedAt(m, x, i)
    <3>1. PICK i \in DOMAIN l : LockedAt(l, x, i)
      BY <2>1 DEF Told
    <3>2. LockedAt(m, x, i)
      BY <1>2, <2>1, <2>2, <3>1 DEF LockedAt
    <3> QED
      BY <1>2, <3>2
  <2>5. \A i, j \in DOMAIN m : Paid(m, i, x) /\ Paid(m, j, x) => i = j
    BY <1>2, <2>1, <2>2 DEF Told
  <2>6. \A i, j \in 1..k2 : Paying(ds, i, x) /\ Paying(ds, j, x) => i = j
    BY <1>4, <2>1, <2>3 DEF Told
  <2>7. \A i \in DOMAIN m, j \in 1..k2 : ~(Paid(m, i, x) /\ Paying(ds, j, x))
    BY <1>2, <1>4, <2>1, <2>2, <2>3 DEF Told
  <2>8. new[x] <=> /\ \A i \in DOMAIN m : ~Paid(m, i, x)
                   /\ \A j \in 1..k2 : ~Paying(ds, j, x)
    BY <1>1, <1>2, <1>4, <2>1, <2>2, <2>3 DEF Told
  <2> QED
    BY <2>4, <2>5, <2>6, <2>7, <2>8 DEF Told
<1> QED
  BY <1>1, <1>6, <1>7, <1>8 DEF GoodLog

\* The calls above k2 may go when they are locks; and a lock may come on top.
LEMMA LogOfCalls ==
  ASSUME NEW its, NEW l, NEW cs, NEW ds, NEW k \in Nat, NEW k2 \in Nat,
         \A i \in 1..k2 : ds[i].op # "lock" => i \in 1..k /\ cs[i].op = ds[i].op /\ cs[i].id = ds[i].id,
         \A i \in 1..k : cs[i].op # "lock" => i \in 1..k2 /\ cs[i].op = ds[i].op /\ cs[i].id = ds[i].id,
         GoodLog(its, l, cs, k)
  PROVE  GoodLog(its, l, ds, k2)
<1>1. \A x : \A i : (i \in 1..k2 /\ Paying(ds, i, x)) <=> (i \in 1..k /\ Paying(cs, i, x))
  BY DEF Paying
<1>2. ASSUME NEW x \in DOMAIN its
      PROVE  Told(its, l, ds, k2, x)
  <2>1. Told(its, l, cs, k, x)
    BY DEF GoodLog
  <2> QED
    BY <1>1, <2>1 DEF Told
<1> QED
  BY <1>2 DEF GoodLog

\* An item is paid out in ether.
LEMMA LogOfPaidOut ==
  ASSUME NEW its, NEW l, NEW id \in DOMAIN its, its[id] = TRUE,
         NEW new, Unlocked(its, id, new),
         NEW e, e # "LogLock", NEW m, Grown(l, [event |-> e, id |-> id], m),
         NEW cs, NEW k, GoodLog(its, l, cs, k)
  PROVE  GoodLog(new, m, cs, k)
<1>1. /\ DOMAIN new = DOMAIN its /\ new[id] = FALSE
      /\ \A x \in DOMAIN its : x # id => new[x] = its[x]
  BY DEF Unlocked
<1> DEFINE top == Len(l) + 1
<1>2. /\ DOMAIN m = DOMAIN l \cup {top} /\ top \notin DOMAIN l
      /\ \A i \in DOMAIN l : m[i] = l[i] /\ i < top
      /\ m[top].event # "LogLock" /\ m[top].id = id
  BY DEF Grown
<1>3. /\ \A i \in DOMAIN l : l[i].id \in DOMAIN its
      /\ \A i \in 1..k : cs[i].op # "lock" => cs[i].id \in DOMAIN its
      /\ \A x \in DOMAIN its : Told(its, l, cs, k, x)
  BY DEF GoodLog
<1> HIDE DEF top
<1>4. \A i \in DOMAIN m : m[i].id \in DOMAIN new
  BY <1>1, <1>2, <1>3
<1>5. ASSUME NEW x \in DOMAIN its
      PROVE  Told(new, m, cs, k, x)
  <2>1. Told(its, l, cs, k, x)
    BY <1>3
  <2>2. /\ \A i \in DOMAIN l : Paid(m, i, x) <=> Paid(l, i, x)
        /\ Paid(m, top, x) <=> x = id
    BY <1>2 DEF Paid
  <2>3. \E i \in DOMAIN m : LockedAt(m, x, i)
    <3>1. PICK i \in DOMAIN l : LockedAt(l, x, i)
      BY <2>1 DEF Told
    <3>2. LockedAt(m, x, i)
      BY <1>2, <2>2, <3>1 DEF LockedAt
    <3> QED
      BY <1>2, <3>2
  <2>4. CASE x = id
    <3>1. /\ \A i \in DOMAIN l : ~Paid(l, i, x)
          /\ \A j \in 1..k : ~Paying(cs, j, x)
      BY <2>1, <2>4 DEF Told
    <3> QED
      BY <1>1, <1>2, <2>2, <2>3, <2>4, <3>1 DEF Told
  <2>5. CASE x # id
    <3>1. new[x] = its[x] /\ ~Paid(m, top, x)
      BY <1>1, <2>2, <2>5
    <3>2. \A i, j \in DOMAIN m : Paid(m, i, x) /\ Paid(m, j, x) => i = j
      BY <1>2, <2>1, <2>2, <3>1 DEF Told
    <3>3. \A i \in DOMAIN m, j \in 1..k : ~(Paid(m, i, x) /\ Paying(cs, j, x))
      BY <1>2, <2>1, <2>2, <3>1 DEF Told
    <3>4. (\A i \in DOMAIN m : ~Paid(m, i, x)) <=> \A i \in DOMAIN l : ~Paid(l, i, x)
      BY <1>2, <2>2, <3>1
    <3> QED
      BY <2>1, <2>3, <3>1, <3>2, <3>3, <3>4 DEF Told
  <2> QED
    BY <2>4, <2>5
<1> QED
  BY <1>1, <1>3, <1>4, <1>5 DEF GoodLog

\* A payment in tokens begins.
LEMMA LogOfPaymentCalled ==
  ASSUME NEW its, NEW l, NEW cs, NEW ds, NEW k \in Nat, Agree(cs, ds, k),
         ds[k + 1].op # "lock", ds[k + 1].id \in DOMAIN its, its[ds[k + 1].id] = TRUE,
         NEW new, Unlocked(its, ds[k + 1].id, new), GoodLog(its, l, cs, k)
  PROVE  GoodLog(new, l, ds, k + 1)
<1> DEFINE id  == ds[k + 1].id
           top == k + 1
<1>1. /\ DOMAIN new = DOMAIN its /\ new[id] = FALSE
      /\ \A x \in DOMAIN its : x # id => new[x] = its[x]
  BY DEF Unlocked
<1>2. /\ 1..top = 1..k \cup {top} /\ top \notin 1..k
      /\ \A i \in 1..k : ds[i].op = cs[i].op /\ ds[i].id = cs[i].id
      /\ ds[top].op # "lock" /\ ds[top].id = id /\ id \in DOMAIN its /\ its[id] = TRUE
  BY DEF Agree
<1>3. /\ \A i \in DOMAIN l : l[i].id \in DOMAIN its
      /\ \A i \in 1..k : cs[i].op # "lock" => cs[i].id \in DOMAIN its
      /\ \A x \in DOMAIN its : Told(its, l, cs, k, x)
  BY DEF GoodLog
<1> HIDE DEF top, id
<1>4. \A i \in 1..top : ds[i].op # "lock" => ds[i].id \in DOMAIN new
  BY <1>1, <1>2, <1>3
<1>5. ASSUME NEW x \in DOMAIN its
      PROVE  Told(new, l, ds, top, x)
  <2>1. Told(its, l, cs, k, x)
    BY <1>3
  <2>2. /\ \A i \in 1..k : Paying(ds, i, x) <=> Paying(cs, i, x)
        /\ Paying(ds, top, x) <=> x = id
    BY <1>2 DEF Paying
  <2>3. CASE x = id
    <3>1. /\ \A i \in DOMAIN l : ~Paid(l, i, x)
          /\ \A j \in 1..k : ~Paying(cs, j, x)
      BY <1>2, <2>1, <2>3 DEF Told
    <3> QED
      BY <1>1, <1>2, <2>1, <2>2, <2>3, <3>1 DEF Told
  <2>4. CASE x # id
    <3>1. new[x] = its[x] /\ ~Paying(ds, top, x)
      BY <1>1, <2>2, <2>4
    <3>2. \A i, j \in 1..top : Paying(ds, i, x) /\ Paying(ds, j, x) => i = j
      BY <1>2, <2>1, <2>2, <3>1 DEF Told
    <3>3. \A i \in DOMAIN l, j \in 1..top : ~(Paid(l, i, x) /\ Paying(ds, j, x))
      BY <1>2, <2>1, <2>2, <3>1 DEF Told
    <3>4. (\A i \in 1..top : ~Paying(ds, i, x)) <=> \A i \in 1..k : ~Paying(cs, i, x)
      BY <1>2, <2>2, <3>1
    <3> QED
      BY <2>1, <3>1, <3>2, <3>3, <3>4 DEF Told
  <2> QED
    BY <2>3, <2>4
<1>6. GoodLog(new, l, ds, top)
  BY <1>1, <1>3, <1>4, <1>5 DEF GoodLog
<1> QED
  BY <1>6 DEF top

\* A payment in tokens returns.
LEMMA LogOfPaymentReturned ==
  ASSUME NEW its, NEW l, NEW cs, NEW ds, NEW k \in Nat, Agree(cs, ds, k),
         cs[k + 1].op # "lock", NEW e, e # "LogLock",
         NEW m, Grown(l, [event |-> e, id |-> cs[k + 1].id], m), GoodLog(its, l, cs, k + 1)
  PROVE  GoodLog(its, m, ds, k)
<1> DEFINE id   == cs[k + 1].id
           top  == k + 1
           last == Len(l) + 1
<1>1. /\ 1..top = 1..k \cup {top} /\ top \notin 1..k
      /\ \A i \in 1..k : ds[i].op = cs[i].op /\ ds[i].id = cs[i].id
      /\ cs[top].op # "lock" /\ cs[top].id = id
  BY DEF Agree
<1>2. /\ DOMAIN m = DOMAIN l \cup {last} /\ last \notin DOMAIN l
      /\ \A i \in DOMAIN l : m[i] = l[i] /\ i < last
      /\ m[last].event # "LogLock" /\ m[last].id = id
  BY DEF Grown
<1>3. /\ \A i \in DOMAIN l : l[i].id \in DOMAIN its
      /\ \A i \in 1..top : cs[i].op # "lock" => cs[i].id \in DOMAIN its
      /\ \A x \in DOMAIN its : Told(its, l, cs, top, x)
  BY DEF GoodLog
<1> HIDE DEF top, id, last
<1>4. /\ \A i \in DOMAIN m : m[i].id \in DOMAIN its
      /\ \A i \in 1..k : ds[i].op # "lock" => ds[i].id \in DOMAIN its
  BY <1>1, <1>2, <1>3
<1>5. ASSUME NEW x \in DOMAIN its
      PROVE  Told(its, m, ds, k, x)
  <2>1. Told(its, l, cs, top, x)
    BY <1>3
  <2>2. /\ \A i \in DOMAIN l : Paid(m, i, x) <=> Paid(l, i, x)
        /\ Paid(m, last, x) <=> x = id
    BY <1>2 DEF Paid
  <2>3. /\ \A i \in 1..k : Paying(ds, i, x) <=> Paying(cs, i, x)
        /\ Paying(cs, top, x) <=> x = id
    BY <1>1 DEF Paying
  <2>4. \E i \in DOMAIN m : LockedAt(m, x, i)
    <3>1. PICK i \in DOMAIN l : LockedAt(l, x, i)
      BY <2>1 DEF Told
    <3>2. LockedAt(m, x, i)
      BY <1>2, <2>2, <3>1 DEF LockedAt
    <3> QED
      BY <1>2, <3>2
  <2>5. CASE x = id
    <3>1. \A i \in DOMAIN l : ~Paid(l, i, x)
      BY <1>1, <2>1, <2>3, <2>5 DEF Told
    <3>2. \A j \in 1..k : ~Paying(cs, j, x)
      BY <1>1, <2>1, <2>3, <2>5 DEF Told
    <3>3. ~its[x]
      BY <1>1, <2>1, <2>3, <2>5 DEF Told
    <3> QED
      BY <1>2, <2>2, <2>3, <2>4, <2>5, <3>1, <3>2, <3>3 DEF Told
  <2>6. CASE x # id
    <3>1. ~Paid(m, last, x) /\ ~Paying(cs, top, x)
      BY <2>2, <2>3, <2>6
    <3>2. \A i, j \in DOMAIN m : Paid(m, i, x) /\ Paid(m, j, x) => i = j
      BY <1>2, <2>1, <2>2, <3>1 DEF Told
    <3>3. \A i, j \in 1..k : Paying(ds, i, x) /\ Paying(ds, j, x) => i = j
      BY <1>1, <2>1, <2>3 DEF Told
    <3>4. \A i \in DOMAIN m, j \in 1..k : ~(Paid(m, i, x) /\ Paying(ds, j, x))
      BY <1>1, <1>2, <2>1, <2>2, <2>3, <3>1 DEF Told
    <3>5. (\A i \in DOMAIN m : ~Paid(m, i, x)) <=> \A i \in DOMAIN l : ~Paid(l, i, x)
      BY <1>2, <2>2, <3>1
    <3>6. (\A i \in 1..k : ~Paying(ds, i, x)) <=> \A i \in 1..top : ~Paying(cs, i, x)
      BY <1>1, <2>3, <3>1
    <3> QED
      BY <2>1, <2>4, <3>2, <3>3, <3>4, <3>5, <3>6 DEF Told
  <2> QED
    BY <2>5, <2>6
<1> QED
  BY <1>4, <1>5 DEF GoodLog

-----------------------------------------------------------------------------
(* The nonces.                                                              *)

\* Locks in the log and on the stack are counted by natural numbers.
LEMMA CountsAreNatural ==
  ASSUME NEW k \in Nat
  PROVE  /\ \A cs : Cardinality(LocksOf(cs, k)) \in 0..k
         /\ \A l : /\ IsFiniteSet(LockEntries(l, k))
                   /\ Cardinality(LockEntries(l, k)) \in Nat
<1>1. IsFiniteSet(1..k) /\ Cardinality(1..k) = k
  BY FS_Interval
<1>2. \A cs : LocksOf(cs, k) \in SUBSET (1..k)
  BY DEF LocksOf
<1>3. \A l : LockEntries(l, k) \in SUBSET (1..k)
  BY DEF LockEntries
<1>4. ASSUME NEW cs
      PROVE  Cardinality(LocksOf(cs, k)) \in 0..k
  <2>1. /\ IsFiniteSet(LocksOf(cs, k))
        /\ Cardinality(LocksOf(cs, k)) <= Cardinality(1..k)
    BY <1>1, <1>2, FS_Subset
  <2> QED
    BY <1>1, <2>1, FS_CardinalityType
<1>5. ASSUME NEW l
      PROVE  IsFiniteSet(LockEntries(l, k)) /\ Cardinality(LockEntries(l, k)) \in Nat
  BY <1>1, <1>3, FS_Subset, FS_CardinalityType
<1> QED
  BY <1>4, <1>5

\* Calls that agree have the same locks among them.
LEMMA LocksAgree ==
  ASSUME NEW cs, NEW ds, NEW k, Agree(cs, ds, k)
  PROVE  Cardinality(LocksOf(ds, k)) = Cardinality(LocksOf(cs, k))
<1>1. LocksOf(ds, k) = LocksOf(cs, k)
  BY DEF Agree, LocksOf
<1> QED
  BY <1>1

\* A call on top of the stack counts if it is a lock.
LEMMA LocksOnTop ==
  ASSUME NEW cs, NEW k \in Nat
  PROVE  Cardinality(LocksOf(cs, k + 1)) =
           Cardinality(LocksOf(cs, k)) + (IF cs[k + 1].op = "lock" THEN 1 ELSE 0)
<1>1. 1..k + 1 = 1..k \cup {k + 1} /\ k + 1 \notin 1..k
  OBVIOUS
<1>2. IsFiniteSet(LocksOf(cs, k)) /\ k + 1 \notin LocksOf(cs, k)
  <2>1. IsFiniteSet(1..k) /\ LocksOf(cs, k) \in SUBSET (1..k)
    BY FS_Interval DEF LocksOf
  <2>2. IsFiniteSet(LocksOf(cs, k))
    BY <2>1, FS_Subset
  <2> QED
    BY <1>1, <2>1, <2>2
<1>3. Cardinality(LocksOf(cs, k)) \in 0..k
  BY CountsAreNatural
<1>4. CASE cs[k + 1].op = "lock"
  <2>1. LocksOf(cs, k + 1) = LocksOf(cs, k) \cup {k + 1}
    BY <1>1, <1>4 DEF LocksOf
  <2> QED
    BY <1>2, <1>4, <2>1, FS_AddElement
<1>5. CASE cs[k + 1].op # "lock"
  <2>1. LocksOf(cs, k + 1) = LocksOf(cs, k)
    BY <1>1, <1>5 DEF LocksOf
  <2>2. Cardinality(LocksOf(cs, k + 1)) = Cardinality(LocksOf(cs, k))
    BY <2>1
  <2> QED
    BY <1>3, <1>5, <2>2
<1> QED
  BY <1>4, <1>5

\* An entry counts when it is a lock, and leaves what was counted before alone.
LEMMA EntriesOfGrown ==
  ASSUME NEW l, NEW e, NEW m, Grown(l, e, m)
  PROVE  /\ \A i \in DOMAIN l :
              Cardinality(LockEntries(m, i)) = Cardinality(LockEntries(l, i))
         /\ Cardinality(LockEntries(m, Len(m))) =
              Cardinality(LockEntries(l, Len(l))) + (IF e.event = "LogLock" THEN 1 ELSE 0)
<1> DEFINE n   == Len(l)
           top == n + 1
<1>1. /\ n \in Nat /\ DOMAIN l = 1..n /\ Len(m) = top
      /\ \A i \in 1..n : m[i] = l[i]
      /\ m[top] = e
  BY DEF Grown
<1>2. 1..top = 1..n \cup {top} /\ top \notin 1..n
  BY <1>1
<1> HIDE DEF n, top
<1>3. ASSUME NEW i \in 1..n
      PROVE  Cardinality(LockEntries(m, i)) = Cardinality(LockEntries(l, i))
  <2>1. \A j \in 1..i : m[j] = l[j]
    BY <1>1
  <2>2. LockEntries(m, i) = LockEntries(l, i)
    BY <2>1 DEF LockEntries
  <2> QED
    BY <2>2
<1>4. IsFiniteSet(LockEntries(l, n)) /\ Cardinality(LockEntries(l, n)) \in Nat
  BY <1>1, CountsAreNatural
<1>5. CASE e.event = "LogLock"
  <2>1. LockEntries(m, top) = LockEntries(l, n) \cup {top} /\ top \notin LockEntries(l, n)
    BY <1>1, <1>2, <1>5 DEF LockEntries
  <2>2. Cardinality(LockEntries(m, top)) = Cardinality(LockEntries(l, n)) + 1
    BY <1>4, <2>1, FS_AddElement
  <2> QED
    BY <1>1, <1>3, <1>5, <2>2 DEF n
<1>6. CASE e.event # "LogLock"
  <2>1. LockEntries(m, top) = LockEntries(l, n)
    BY <1>1, <1>2, <1>6 DEF LockEntries
  <2>2. Cardinality(LockEntries(m, top)) = Cardinality(LockEntries(l, n))
    BY <2>1
  <2> QED
    BY <1>1, <1>3, <1>4, <1>6, <2>2 DEF n
<1> QED
  BY <1>5, <1>6

\* A new item takes the next nonce,
LEMMA NoncesOfCreated ==
  ASSUME NEW n \in Nat, NEW its \in ItemMaps, NEW l, NEW cs, NEW k, GoodNonces(n, its, l, cs, k),
         NEW id, id.nonce = n + 1, NEW new, Created(its, id, new),
         NEW m, Grown(l, [event |-> "LogLock", id |-> id], m), NEW ds, NEW k2,
         n + 1 + Cardinality(LocksOf(ds, k2)) <= MaxLocks + MaxDepth
  PROVE  GoodNonces(n + 1, new, m, ds, k2)
<1>1. DOMAIN new = DOMAIN its \cup {id} /\ \A x \in DOMAIN its : x.nonce \in Nat
  BY DEF Created, ItemMaps, ItemIds
<1>2. \A x \in DOMAIN new : x.nonce <= n + 1
  BY <1>1 DEF GoodNonces
<1>3. /\ \A i \in DOMAIN l :
           Cardinality(LockEntries(m, i)) = Cardinality(LockEntries(l, i))
      /\ Cardinality(LockEntries(m, Len(m))) = Cardinality(LockEntries(l, Len(l))) + 1
  BY EntriesOfGrown
<1>4. Cardinality(LockEntries(m, Len(m))) = n + 1
  BY <1>3 DEF GoodNonces
<1>5. ASSUME NEW i \in DOMAIN m, m[i].event = "LogLock"
      PROVE  m[i].id.nonce = Cardinality(LockEntries(m, i))
  <2>1. CASE i \in DOMAIN l
    <3>1. m[i] = l[i]
      BY <2>1 DEF Grown
    <3> QED
      BY <1>3, <1>5, <2>1, <3>1 DEF GoodNonces
  <2>2. CASE i \notin DOMAIN l
    <3>1. i = Len(m) /\ m[i].id = id
      BY <2>2 DEF Grown
    <3> QED
      BY <1>4, <3>1
  <2> QED
    BY <2>1, <2>2
<1> QED
  BY <1>2, <1>4, <1>5 DEF GoodNonces

\* a payment takes none,
LEMMA NoncesOfPaidOut ==
  ASSUME NEW n \in Nat, NEW its, NEW l, NEW cs, NEW k, GoodNonces(n, its, l, cs, k),
         NEW new, DOMAIN new = DOMAIN its,
         NEW e, e.event # "LogLock", NEW m, Grown(l, e, m), NEW ds, NEW k2,
         n + Cardinality(LocksOf(ds, k2)) <= MaxLocks + MaxDepth
  PROVE  GoodNonces(n, new, m, ds, k2)
<1>1. /\ \A i \in DOMAIN l :
           Cardinality(LockEntries(m, i)) = Cardinality(LockEntries(l, i))
      /\ Cardinality(LockEntries(m, Len(m))) = Cardinality(LockEntries(l, Len(l))) + 0
  BY EntriesOfGrown
<1>2. n = Cardinality(LockEntries(m, Len(m)))
  BY <1>1 DEF GoodNonces
<1>3. ASSUME NEW i \in DOMAIN m, m[i].event = "LogLock"
      PROVE  m[i].id.nonce = Cardinality(LockEntries(m, i))
  <2>1. i \in DOMAIN l /\ m[i] = l[i]
    BY <1>3 DEF Grown
  <2> QED
    BY <1>1, <1>3, <2>1 DEF GoodNonces
<1> QED
  BY <1>2, <1>3 DEF GoodNonces

\* and nor does a call that waits or fails.
LEMMA NoncesOfCalls ==
  ASSUME NEW n \in Nat, NEW its, NEW l, NEW cs, NEW k, GoodNonces(n, its, l, cs, k),
         NEW new, DOMAIN new = DOMAIN its, NEW ds, NEW k2,
         n + Cardinality(LocksOf(ds, k2)) <= MaxLocks + MaxDepth
  PROVE  GoodNonces(n, new, l, ds, k2)
BY DEF GoodNonces

\* The nonce does not run out.
LEMMA NonceWidth ==
  ASSUME NEW n \in Nat, n < MaxLocks + MaxDepth
  PROVE  successor(n) = n + 1 /\ 2^NonceBits \in Nat
<1>1. IsFiniteSet(1..NonceBits) /\ Cardinality(1..NonceBits) = NonceBits
  BY BoundAssumption, FS_Interval
<1>2. /\ IsFiniteSet(SUBSET (1..NonceBits))
      /\ Cardinality(SUBSET (1..NonceBits)) = 2^NonceBits
  BY <1>1, FS_SUBSET
<1>3. 2^NonceBits \in Nat
  BY <1>2, FS_CardinalityType
<1> DEFINE w == 2^NonceBits
<1>4. w \in Nat /\ n + 1 \in Nat /\ n + 1 < w
  BY <1>3, BoundAssumption, NonceAssumption
<1> HIDE DEF w
<1>5. (n + 1) % w = n + 1
  BY <1>4
<1> QED
  BY <1>3, <1>5 DEF successor, w

-----------------------------------------------------------------------------
(* The stack.                                                               *)

\* Good looks at the calls 1..k, and not at the states they began in.
LEMMA GoodSame ==
  ASSUME NEW s, NEW cs, NEW ds, NEW k \in Nat, Agree(cs, ds, k), NEW d, Good(s, cs, k, d)
  PROVE  Good(s, ds, k, d)
<1>1. GoodFunds(s.items, s.holdings, ds, k, d)
  <2>1. \A c, U : Held(ds, k, c, U) = Held(cs, k, c, U)
    BY HeldSame
  <2>2. GoodFunds(s.items, s.holdings, cs, k, d)
    BY DEF Good
  <2> QED
    BY <2>1, <2>2 DEF GoodFunds
<1>2. GoodNonces(s.nonce, s.items, s.log, ds, k)
  BY LocksAgree DEF Good, GoodNonces
<1>3. GoodLog(s.items, s.log, ds, k)
  <2>1. GoodLog(s.items, s.log, cs, k)
    BY DEF Good
  <2>2. \A i \in 1..k : cs[i].op = ds[i].op /\ cs[i].id = ds[i].id
    BY DEF Agree
  <2> QED
    BY <2>1, <2>2, LogOfCalls
<1> QED
  BY <1>1, <1>2, <1>3 DEF Good

\* A call goes on top of the stack.
LEMMA PushKeeps ==
  ASSUME NEW cs \in Seq(Calls), NEW call \in Calls, NEW d, GoodBelow(cs, d),
         Good(call.before, cs, Len(cs), d)
  PROVE  LET ds == Append(cs, call)
         IN  /\ ds \in Seq(Calls) /\ Len(ds) = Len(cs) + 1 /\ ds[Len(cs) + 1] = call
             /\ Agree(cs, ds, Len(cs))
             /\ GoodBelow(ds, d)
<1> DEFINE ds == Append(cs, call)
           n  == Len(cs)
<1>1. /\ n \in Nat /\ ds \in Seq(Calls) /\ Len(ds) = n + 1 /\ ds[n + 1] = call
      /\ \A i \in 1..n : ds[i] = cs[i]
  BY AppendProperties, LenProperties
<1> HIDE DEF ds, n
<1>2. ASSUME NEW k \in 0..n
      PROVE  Agree(cs, ds, k)
  BY <1>1, <1>2 DEF Agree
<1>3. ASSUME NEW k \in 0..n
      PROVE  Good(ds[k + 1].before, ds, k, d)
  <2>1. k \in Nat /\ Agree(cs, ds, k)
    BY <1>1, <1>2
  <2>2. CASE k = n
    <3>1. Good(call.before, cs, k, d)
      BY <2>2 DEF n
    <3>2. Good(call.before, ds, k, d)
      BY <2>1, <3>1, GoodSame
    <3> QED
      BY <1>1, <2>2, <3>2
  <2>3. CASE k # n
    <3>1. k \in 0..n - 1 /\ k + 1 \in 1..n
      BY <1>1, <2>3
    <3>2. Good(cs[k + 1].before, cs, k, d)
      BY <3>1 DEF GoodBelow, n
    <3>3. Good(cs[k + 1].before, ds, k, d)
      BY <2>1, <3>2, GoodSame
    <3> QED
      BY <1>1, <3>1, <3>3
  <2> QED
    BY <2>2, <2>3
<1>4. 0..Len(ds) - 1 = 0..n
  BY <1>1
<1> QED
  BY <1>1, <1>2, <1>3, <1>4 DEF GoodBelow, ds, n

\* The call on top goes away.
LEMMA PopKeeps ==
  ASSUME NEW cs \in Seq(Calls), cs # << >>, NEW d, GoodBelow(cs, d)
  PROVE  LET ds == Front(cs)
             k  == Len(cs) - 1
         IN  /\ k \in Nat /\ Len(cs) = k + 1 /\ Last(cs) = cs[k + 1]
             /\ ds \in Seq(Calls) /\ Len(ds) = k
             /\ Agree(cs, ds, k)
             /\ GoodBelow(ds, d)
             /\ Good(cs[k + 1].before, ds, k, d)
<1> DEFINE n  == Len(cs)
           k  == n - 1
           ds == Front(cs)
<1>1. n \in Nat \ {0} /\ \A i \in 1..n : cs[i] \in Calls
  BY EmptySeq, LenProperties, ElementOfSeq
<1>2. k \in Nat /\ n = k + 1 /\ 1 \in Int /\ k \in Int /\ \A i \in 1..k : cs[i] \in Calls
  BY <1>1
<1>3. ds = SubSeq(cs, 1, k)
  BY DEF Front
<1> HIDE DEF n, k
<1>4. /\ SubSeq(cs, 1, k) \in Seq(Calls)
      /\ Len(SubSeq(cs, 1, k)) = IF 1 <= k THEN k - 1 + 1 ELSE 0
      /\ \A i \in 1..k - 1 + 1 : SubSeq(cs, 1, k)[i] = cs[1 + i - 1]
  BY <1>2, SubSeqProperties
<1> HIDE DEF ds
<1>5. ds \in Seq(Calls) /\ Len(ds) = k /\ \A i \in 1..k : ds[i] = cs[i]
  BY <1>2, <1>3, <1>4
<1>6. \A i \in 0..k : Agree(cs, ds, i)
  BY <1>2, <1>5 DEF Agree
<1>7. \A i \in 0..k : Good(cs[i + 1].before, cs, i, d)
  BY <1>2 DEF GoodBelow, n, k
<1>8. \A i \in 0..k : Good(cs[i + 1].before, ds, i, d)
  BY <1>2, <1>6, <1>7, GoodSame
<1>9. GoodBelow(ds, d)
  BY <1>2, <1>5, <1>8 DEF GoodBelow
<1> QED
  BY <1>2, <1>5, <1>6, <1>8, <1>9 DEF Last, n, k, ds

-----------------------------------------------------------------------------
(* The steps.                                                               *)

\* The calls on the stack.
LEMMA CallsOfStack ==
  ASSUME NEW cs \in Seq(Calls)
  PROVE  \A i \in 1..Len(cs) :
           cs[i] \in Calls /\ cs[i].id \in ItemIds /\ cs[i].moved \in BOOLEAN
<1>1. \A i \in 1..Len(cs) : cs[i] \in Calls
  BY ElementOfSeq
<1> QED
  BY <1>1 DEF Calls

\* What every step starts from.
LEMMA Now ==
  ASSUME PeggyInv
  PROVE  /\ TypeInv /\ State \in States
         /\ Good(State, calls, Len(calls), donated)
         /\ Len(calls) \in 0..MaxDepth
         /\ \A i \in 1..Len(calls) :
              calls[i] \in Calls /\ calls[i].id \in ItemIds /\ calls[i].moved \in BOOLEAN
         /\ DOMAIN items \subseteq ItemIds /\ items \in [DOMAIN items -> BOOLEAN]
<1>1. TypeInv
  BY DEF PeggyInv
<1>2. State \in States
  BY <1>1 DEF TypeInv, State, States
<1>3. Good(State, calls, Len(calls), donated)
  BY <1>1 DEF PeggyInv, TypeInv, Good, State
<1>4. Len(calls) \in 0..MaxDepth
  BY <1>1, LenProperties, BoundAssumption DEF TypeInv
<1>5. \A i \in 1..Len(calls) :
        calls[i] \in Calls /\ calls[i].id \in ItemIds /\ calls[i].moved \in BOOLEAN
  BY <1>1, CallsOfStack DEF TypeInv
<1>6. DOMAIN items \subseteq ItemIds /\ items \in [DOMAIN items -> BOOLEAN]
  BY <1>1 DEF TypeInv, ItemMaps
<1> QED
  BY <1>1, <1>2, <1>3, <1>4, <1>5, <1>6

\* A new item has an id of its own, since it has a nonce of its own.
LEMMA CreateCreates ==
  ASSUME PeggyInv, nonce < MaxLocks + MaxDepth,
         NEW u \in Users, NEW token \in Currencies, NEW amount \in Nat,
         Create(u, token, amount, nonce)
  PROVE  LET id == [sender |-> u, token |-> token, amount |-> amount, nonce |-> nonce + 1]
         IN  /\ id \in ItemIds /\ id \notin DOMAIN items /\ nonce' = nonce + 1
             /\ Created(items, id, items')
             /\ Grown(log, [event |-> "LogLock", id |-> id], log')
             /\ items' \in ItemMaps /\ IsFiniteSet(DOMAIN items')
             /\ log' \in Seq(Entries)
<1> DEFINE id == [sender |-> u, token |-> token, amount |-> amount, nonce |-> nonce + 1]
           e  == [event |-> "LogLock", id |-> id]
<1>1. nonce \in Nat /\ items \in ItemMaps /\ IsFiniteSet(DOMAIN items) /\ log \in Seq(Entries)
  BY DEF PeggyInv, TypeInv
<1>2. successor(nonce) = nonce + 1
  BY <1>1, NonceWidth
<1>3. id \in ItemIds /\ e \in Entries
  BY <1>1 DEF ItemIds, Entries, Events
<1>4. id \notin DOMAIN items
  <2>1. id.nonce = nonce + 1 /\ \A x \in DOMAIN items : x.nonce <= nonce
    BY DEF PeggyInv, GoodNonces
  <2> QED
    BY <1>1, <2>1
<1>5. /\ nonce' = nonce + 1
      /\ items' = [i \in DOMAIN items \cup {id} |-> IF i = id THEN TRUE ELSE items[i]]
      /\ log' = Append(log, e)
  BY <1>2 DEF Create
<1>6. Created(items, id, items')
  BY <1>5 DEF Created
<1> HIDE DEF e
<1>7. Grown(log, e, log')
  BY <1>1, <1>3, <1>5, AppendGrows
<1> HIDE DEF id
<1>8. items' \in ItemMaps /\ IsFiniteSet(DOMAIN items')
  BY <1>1, <1>3, <1>4, <1>6, KeptAdds
<1> QED
  BY <1>3, <1>4, <1>5, <1>6, <1>7, <1>8 DEF Grown, id, e

\* lock, of ether.
LEMMA LockEtherKeeps ==
  ASSUME PeggyInv, NEW u \in Users, NEW n \in Amounts, LockEther(u, n)
  PROVE  PeggyInv'
<1> DEFINE id == [sender |-> u, token |-> Ether, amount |-> n, nonce |-> nonce + 1]
           k  == Len(calls)
<1>1. /\ TypeInv /\ k \in 0..MaxDepth
      /\ \A i \in 1..k : calls[i].id \in ItemIds
  BY Now
<1>2. /\ n \in Nat /\ Ether \in Currencies /\ nonce \in Nat /\ nonce + 1 <= MaxLocks
      /\ nonce < MaxLocks + MaxDepth
      /\ calls' = calls /\ donated' = donated /\ active' = active
  BY <1>1, AmountAssumption, BoundAssumption DEF LockEther, LockChecks, TypeInv, Currencies
<1>3. Create(u, Ether, n, nonce)
  BY DEF LockEther
<1>4. /\ id \in ItemIds /\ id \notin DOMAIN items /\ nonce' = nonce + 1
      /\ Created(items, id, items')
      /\ Grown(log, [event |-> "LogLock", id |-> id], log')
      /\ items' \in ItemMaps /\ IsFiniteSet(DOMAIN items')
      /\ log' \in Seq(Entries)
  BY <1>2, <1>3, CreateCreates
<1>5. holdings' \in Books /\ FlowsIn(holdings, holdings', id)
  <2>1. /\ id.sender = u /\ id.token = Ether /\ id.amount = n
        /\ holdings[Ether][u] >= n /\ holdings' = Move(holdings, Ether, u, contract, n)
    BY DEF LockEther
  <2>2. holdings \in Books /\ holdings[id.token][id.sender] >= id.amount
    BY <1>1, <2>1 DEF TypeInv
  <2>3. holdings' = Move(holdings, id.token, id.sender, contract, id.amount)
    BY <2>1
  <2> HIDE DEF id
  <2> QED
    BY <1>4, <2>2, <2>3, MovesIn
<1>6. id.nonce = nonce + 1
  OBVIOUS
<1> HIDE DEF id
<1>7. GoodFunds(items', holdings', calls, k, donated)
  <2>1. /\ GoodFunds(items, holdings, calls, k, donated) /\ k \in Nat
        /\ items \in ItemMaps /\ IsFiniteSet(DOMAIN items) /\ holdings \in Books
        /\ donated \in [Tokens -> [Users -> Nat]]
    BY <1>1 DEF PeggyInv, TypeInv
  <2> HIDE DEF k
  <2> QED
    BY <1>1, <1>4, <1>5, <2>1, FundsOfCreated
<1>8. GoodNonces(nonce + 1, items', log', calls, k)
  <2>1. nonce + 1 + Cardinality(LocksOf(calls, k)) <= MaxLocks + MaxDepth
    BY <1>1, <1>2, CountsAreNatural, BoundAssumption
  <2> QED
    BY <1>1, <1>4, <1>6, <2>1, NoncesOfCreated DEF PeggyInv, TypeInv
<1>9. GoodLog(items', log', calls, k)
  <2>1. Agree(calls, calls, k) /\ k \in Nat /\ k \in 0..k /\ \A i \in k + 1..k : calls[i].op = "lock"
    BY <1>1 DEF Agree
  <2>2. GoodLog(items, log, calls, k)
    BY DEF PeggyInv
  <2> QED
    BY <1>4, <2>1, <2>2, LogOfCreated
<1> QED
  BY <1>1, <1>2, <1>4, <1>5, <1>7, <1>8, <1>9 DEF PeggyInv, TypeInv

\* lock, of tokens, up to the call of the token.
LEMMA LockTokenKeeps ==
  ASSUME PeggyInv, NEW u \in Users, NEW t \in Tokens, NEW n \in Amounts, LockToken(u, t, n)
  PROVE  PeggyInv'
<1> DEFINE id == [sender |-> u, token |-> t, amount |-> n, nonce |-> 0]
           k  == Len(calls)
<1>1. PICK moved \in BOOLEAN :
        /\ TokenMoves(moved, t, u, contract, n)
        /\ calls' = Append(calls, Waiting("lock", id, moved))
  BY DEF LockToken
<1> DEFINE call == Waiting("lock", id, moved)
<1>2. /\ TypeInv /\ k \in 0..MaxDepth /\ k \in Nat /\ State \in States
      /\ Good(State, calls, k, donated)
  BY Now
<1>3. /\ id \in ItemIds /\ nonce < MaxLocks /\ k + 1 <= MaxDepth /\ nonce \in Nat
      /\ UNCHANGED <<active, nonce, items, log, donated>>
  <2>1. k + 1 <= MaxDepth
    BY <1>2, BoundAssumption, EmptySeq DEF LockToken, LockChecks, MayCall
  <2> QED
    BY <1>2, <2>1, AmountAssumption DEF LockToken, LockChecks, ItemIds, Currencies, TypeInv
<1>4. /\ call \in Calls /\ call.before = State /\ call.op = "lock" /\ call.id = id
      /\ call.moved = moved
  BY <1>2, <1>3 DEF Calls, Waiting, Ops
<1>5. holdings' \in Books /\ IF moved THEN FlowsIn(holdings, holdings', id) ELSE holdings' = holdings
  <2>1. id.sender = u /\ id.token = t /\ id.amount = n /\ holdings \in Books
    BY <1>2 DEF TypeInv
  <2>2. IF moved THEN /\ holdings[id.token][id.sender] >= id.amount
                      /\ holdings' = Move(holdings, id.token, id.sender, contract, id.amount)
                 ELSE holdings' = holdings
    BY <1>1, <2>1 DEF TokenMoves
  <2> HIDE DEF id
  <2> QED
    BY <1>3, <2>1, <2>2, MovesIn
<1> HIDE DEF call, id
<1>6. /\ calls' \in Seq(Calls) /\ Len(calls') = k + 1 /\ calls'[k + 1] = call
      /\ Agree(calls, calls', k) /\ GoodBelow(calls', donated)
  <2>1. calls \in Seq(Calls) /\ GoodBelow(calls, donated) /\ Good(call.before, calls, Len(calls), donated)
    BY <1>2, <1>4 DEF PeggyInv, TypeInv
  <2>2. calls' = Append(calls, call) /\ Len(calls) = k
    BY <1>1 DEF call, id
  <2> HIDE DEF k
  <2>3. LET ds == Append(calls, call)
        IN  /\ ds \in Seq(Calls) /\ Len(ds) = Len(calls) + 1 /\ ds[Len(calls) + 1] = call
            /\ Agree(calls, ds, Len(calls))
            /\ GoodBelow(ds, donated)
    BY <1>4, <2>1, PushKeeps
  <2> QED
    BY <2>2, <2>3
<1>7. \A i \in 1..k + 1 : calls'[i].id \in ItemIds
  BY <1>6, CallsOfStack
<1>8. GoodFunds(items, holdings', calls', k + 1, donated)
  <2>1. /\ GoodFunds(items, holdings, calls, k, donated) /\ k \in Nat
        /\ items \in ItemMaps /\ IsFiniteSet(DOMAIN items) /\ holdings \in Books
        /\ donated \in [Tokens -> [Users -> Nat]]
    BY <1>2 DEF PeggyInv, TypeInv
  <2>2. /\ calls'[k + 1].op = "lock" /\ calls'[k + 1].moved = moved /\ calls'[k + 1].id = id
    BY <1>4, <1>6
  <2> HIDE DEF k
  <2> QED
    BY <1>5, <1>6, <1>7, <2>1, <2>2, FundsOfLockCalled
<1>9. GoodNonces(nonce, items, log, calls', k + 1)
  <2>1. Cardinality(LocksOf(calls', k + 1)) \in 0..k + 1
    BY <1>2, CountsAreNatural
  <2>2. nonce + Cardinality(LocksOf(calls', k + 1)) <= MaxLocks + MaxDepth
    BY <1>2, <1>3, <2>1, BoundAssumption
  <2> QED
    BY <1>2, <1>3, <2>2, NoncesOfCalls DEF PeggyInv
<1>10. GoodLog(items, log, calls', k + 1)
  <2>1. GoodLog(items, log, calls, k) /\ k + 1 \in Nat
    BY <1>2 DEF PeggyInv
  <2>2. \A i \in 1..k + 1 : calls'[i].op # "lock" => i \in 1..k
    BY <1>2, <1>4, <1>6
  <2> QED
    BY <1>2, <1>6, <2>1, <2>2, LogOfCalls DEF Agree
<1> QED
  BY <1>2, <1>3, <1>5, <1>6, <1>8, <1>9, <1>10 DEF PeggyInv, TypeInv

\* lock, of tokens, after the token has returned.
LEMMA LockTokenReturnsKeeps ==
  ASSUME PeggyInv, LockTokenReturns
  PROVE  PeggyInv'
<1> DEFINE k   == Len(calls) - 1
           top == calls[k + 1]
           id  == [sender |-> top.id.sender, token |-> top.id.token, amount |-> top.id.amount,
                   nonce |-> nonce + 1]
<1>1. /\ k \in Nat /\ Len(calls) = k + 1 /\ Last(calls) = top /\ top = calls[k + 1]
      /\ calls' \in Seq(Calls) /\ Len(calls') = k
      /\ Agree(calls, calls', k)
      /\ GoodBelow(calls', donated)
      /\ Good(top.before, calls', k, donated)
  <2>1. calls \in Seq(Calls) /\ calls # << >> /\ GoodBelow(calls, donated) /\ calls' = Front(calls)
    BY DEF LockTokenReturns, PeggyInv, TypeInv
  <2> QED
    BY <2>1, PopKeeps
<1> HIDE DEF k, top
<1>2. /\ TypeInv /\ k + 1 <= MaxDepth
      /\ \A i \in 1..k + 1 : calls[i] \in Calls /\ calls[i].id \in ItemIds
      /\ top.id \in ItemIds /\ top.moved \in BOOLEAN
  <2>1. /\ TypeInv /\ Len(calls) \in 0..MaxDepth
        /\ \A i \in 1..Len(calls) :
             calls[i] \in Calls /\ calls[i].id \in ItemIds /\ calls[i].moved \in BOOLEAN
    BY Now
  <2> QED
    BY <1>1, <2>1, BoundAssumption
<1>3. /\ top.op = "lock"
      /\ TokenHasMoved(top.moved, top.id.token, top.id.sender, contract, top.id.amount)
      /\ Create(top.id.sender, top.id.token, top.id.amount, nonce)
      /\ UNCHANGED <<active, donated>>
  BY <1>1 DEF LockTokenReturns
<1>4. nonce \in Nat /\ nonce + 1 + Cardinality(LocksOf(calls', k)) <= MaxLocks + MaxDepth
  <2>1. nonce + Cardinality(LocksOf(calls, k + 1)) <= MaxLocks + MaxDepth /\ nonce \in Nat
    BY <1>1, <1>2 DEF PeggyInv, GoodNonces, TypeInv
  <2>2. Cardinality(LocksOf(calls, k + 1)) = Cardinality(LocksOf(calls, k)) + 1
    BY <1>1, <1>3, LocksOnTop
  <2>3. Cardinality(LocksOf(calls', k)) = Cardinality(LocksOf(calls, k))
    BY <1>1, LocksAgree
  <2>4. Cardinality(LocksOf(calls, k)) \in 0..k
    BY <1>1, CountsAreNatural
  <2> QED
    BY <2>1, <2>2, <2>3, <2>4, BoundAssumption
<1>5. nonce < MaxLocks + MaxDepth
  <2>1. Cardinality(LocksOf(calls', k)) \in 0..k
    BY <1>1, CountsAreNatural
  <2> QED
    BY <1>4, <2>1, BoundAssumption
<1>6. top.id.sender \in Users /\ top.id.token \in Currencies /\ top.id.amount \in Nat
  BY <1>2 DEF ItemIds
<1>7. /\ id \in ItemIds /\ id \notin DOMAIN items /\ nonce' = nonce + 1
      /\ Created(items, id, items')
      /\ Grown(log, [event |-> "LogLock", id |-> id], log')
      /\ items' \in ItemMaps /\ IsFiniteSet(DOMAIN items')
      /\ log' \in Seq(Entries)
  BY <1>3, <1>5, <1>6, CreateCreates
<1>8. id.nonce = nonce + 1 /\ \A c, U : Share(id, c, U) = Share(top.id, c, U)
  BY DEF Share
<1> HIDE DEF id
<1>9. /\ holdings' \in Books
      /\ IF top.moved THEN holdings' = holdings ELSE FlowsIn(holdings, holdings', top.id)
  <2>1. holdings \in Books
    BY <1>2 DEF TypeInv
  <2>2. IF top.moved THEN holdings' = holdings
        ELSE /\ holdings[top.id.token][top.id.sender] >= top.id.amount
             /\ holdings' = Move(holdings, top.id.token, top.id.sender, contract, top.id.amount)
    BY <1>2, <1>3 DEF TokenHasMoved, TokenMoves
  <2> QED
    BY <1>2, <2>1, <2>2, MovesIn
<1>10. GoodFunds(items', holdings', calls', k, donated)
  <2>1. /\ GoodFunds(items, holdings, calls, k + 1, donated)
        /\ items \in ItemMaps /\ IsFiniteSet(DOMAIN items) /\ holdings \in Books
        /\ donated \in [Tokens -> [Users -> Nat]]
    BY <1>1, <1>2 DEF PeggyInv, TypeInv
  <2>2. /\ calls[k + 1].op = "lock" /\ calls[k + 1].moved \in BOOLEAN
        /\ IF calls[k + 1].moved THEN holdings' = holdings
           ELSE FlowsIn(holdings, holdings', calls[k + 1].id)
        /\ \A c, U : Share(id, c, U) = Share(calls[k + 1].id, c, U)
    BY <1>1, <1>2, <1>3, <1>8, <1>9
  <2> QED
    BY <1>1, <1>2, <1>7, <1>9, <2>1, <2>2, FundsOfLockReturned
<1>11. GoodNonces(nonce + 1, items', log', calls', k)
  <2>1. GoodNonces(nonce, items, log, calls, k + 1) /\ items \in ItemMaps
    BY <1>1, <1>2 DEF PeggyInv, TypeInv
  <2> QED
    BY <1>4, <1>7, <1>8, <2>1, NoncesOfCreated
<1>12. GoodLog(items', log', calls', k)
  <2>1. GoodLog(items, log, calls, k + 1)
    BY <1>1 DEF PeggyInv
  <2>2. k + 1 \in Nat /\ k \in 0..k + 1 /\ \A i \in k + 1..k + 1 : calls[i].op = "lock"
    BY <1>1, <1>3
  <2> QED
    BY <1>1, <1>7, <2>1, <2>2, LogOfCreated
<1> QED
  BY <1>1, <1>2, <1>3, <1>4, <1>7, <1>9, <1>10, <1>11, <1>12, BoundAssumption DEF PeggyInv, TypeInv

\* unlock and withdraw, of ether.
LEMMA CompleteEtherKeeps ==
  ASSUME PeggyInv, NEW op \in {"unlock", "withdraw"}, NEW u \in Users, NEW id \in DOMAIN items,
         CompleteEther(op, u, id)
  PROVE  PeggyInv'
<1> DEFINE k == Len(calls)
           e == [event |-> EventOf(op), id |-> id]
<1>1. /\ TypeInv /\ k \in Nat /\ k <= MaxDepth
      /\ \A i \in 1..k : calls[i].id \in ItemIds
      /\ id \in ItemIds
  BY Now
<1>2. /\ items[id] = TRUE /\ Unlocked(items, id, items')
      /\ UNCHANGED <<active, nonce, calls, donated>>
  <2>1. items[id] /\ items \in [DOMAIN items -> BOOLEAN]
    BY Now DEF CompleteEther, MayComplete, isLocked
  <2> QED
    BY <2>1 DEF CompleteEther, Unlocked
<1>3. holdings' \in Books /\ FlowsOut(holdings, holdings', id)
  <2>1. /\ holdings \in Books /\ holdings[id.token][contract] >= id.amount
        /\ holdings' = Move(holdings, id.token, contract, id.sender, id.amount)
    BY <1>1 DEF CompleteEther, MayComplete, canDeliver, TypeInv
  <2> QED
    BY <1>1, <2>1, MovesOut
<1>4. e \in Entries /\ EventOf(op) # "LogLock"
  BY <1>1 DEF Entries, Events, EventOf
<1>5. Grown(log, e, log') /\ log' \in Seq(Entries)
  <2>1. log' = Append(log, e) /\ log \in Seq(Entries)
    BY <1>1 DEF CompleteEther, TypeInv
  <2> HIDE DEF e
  <2>2. Grown(log, e, Append(log, e))
    BY <1>4, <2>1, AppendGrows
  <2> QED
    BY <2>1, <2>2 DEF Grown
<1>6. /\ GoodFunds(items, holdings, calls, k, donated)
      /\ GoodNonces(nonce, items, log, calls, k) /\ nonce \in Nat
      /\ GoodLog(items, log, calls, k)
      /\ items \in ItemMaps /\ IsFiniteSet(DOMAIN items) /\ holdings \in Books
      /\ donated \in [Tokens -> [Users -> Nat]]
  BY <1>1 DEF PeggyInv, TypeInv
<1>7. items' \in ItemMaps /\ DOMAIN items' = DOMAIN items
  BY <1>2, <1>6, KeptDrops
<1>8. GoodFunds(items', holdings', calls, k, donated)
  <2> HIDE DEF k
  <2> QED
    BY <1>1, <1>2, <1>3, <1>6, FundsOfPaidOut
<1>9. GoodNonces(nonce, items', log', calls, k)
  <2>1. e.event # "LogLock" /\ nonce + Cardinality(LocksOf(calls, k)) <= MaxLocks + MaxDepth
    BY <1>4, <1>6 DEF GoodNonces
  <2> HIDE DEF k, e
  <2> QED
    BY <1>5, <1>6, <1>7, <2>1, NoncesOfPaidOut
<1>10. GoodLog(items', log', calls, k)
  <2> HIDE DEF k
  <2> QED
    BY <1>2, <1>4, <1>5, <1>6, LogOfPaidOut
<1> QED
  BY <1>1, <1>2, <1>3, <1>5, <1>6, <1>7, <1>8, <1>9, <1>10 DEF PeggyInv, TypeInv

\* unlock and withdraw, of tokens, up to the call of the token.
LEMMA CompleteTokenKeeps ==
  ASSUME PeggyInv, NEW op \in {"unlock", "withdraw"}, NEW u \in Users, NEW id \in DOMAIN items,
         CompleteToken(op, u, id)
  PROVE  PeggyInv'
<1> DEFINE k == Len(calls)
<1>1. PICK moved \in BOOLEAN :
        /\ TokenMoves(moved, id.token, contract, id.sender, id.amount)
        /\ calls' = Append(calls, Waiting(op, id, moved))
  BY DEF CompleteToken
<1> DEFINE call == Waiting(op, id, moved)
<1>2. /\ TypeInv /\ k \in 0..MaxDepth /\ k \in Nat /\ State \in States
      /\ Good(State, calls, k, donated) /\ id \in ItemIds
  BY Now
<1>3. /\ k + 1 <= MaxDepth /\ nonce \in Nat
      /\ UNCHANGED <<active, nonce, log, donated>>
  <2>1. k + 1 <= MaxDepth
    BY <1>2, BoundAssumption, EmptySeq DEF CompleteToken, MayComplete, MayCall
  <2> QED
    BY <1>2, <2>1 DEF CompleteToken, TypeInv
<1>4. /\ call \in Calls /\ call.before = State /\ call.op # "lock" /\ call.id = id
      /\ call.moved = moved
  BY <1>2 DEF Calls, Waiting, Ops
<1>5. holdings' \in Books /\ IF moved THEN FlowsOut(holdings, holdings', id) ELSE holdings' = holdings
  <2>1. holdings \in Books
    BY <1>2 DEF TypeInv
  <2>2. IF moved THEN /\ holdings[id.token][contract] >= id.amount
                      /\ holdings' = Move(holdings, id.token, contract, id.sender, id.amount)
                 ELSE holdings' = holdings
    BY <1>1 DEF TokenMoves
  <2> QED
    BY <1>2, <2>1, <2>2, MovesOut
<1> HIDE DEF call
<1>6. /\ calls' \in Seq(Calls) /\ Len(calls') = k + 1 /\ calls'[k + 1] = call
      /\ Agree(calls, calls', k) /\ GoodBelow(calls', donated)
  <2>1. calls \in Seq(Calls) /\ GoodBelow(calls, donated) /\ Good(call.before, calls, Len(calls), donated)
    BY <1>2, <1>4 DEF PeggyInv, TypeInv
  <2>2. calls' = Append(calls, call) /\ Len(calls) = k
    BY <1>1 DEF call
  <2> HIDE DEF k
  <2>3. LET ds == Append(calls, call)
        IN  /\ ds \in Seq(Calls) /\ Len(ds) = Len(calls) + 1 /\ ds[Len(calls) + 1] = call
            /\ Agree(calls, ds, Len(calls))
            /\ GoodBelow(ds, donated)
    BY <1>4, <2>1, PushKeeps
  <2> QED
    BY <2>2, <2>3
<1>7. \A i \in 1..k + 1 : calls'[i].id \in ItemIds
  BY <1>6, CallsOfStack
<1>8. /\ items[id] = TRUE /\ Unlocked(items, id, items')
      /\ items' \in ItemMaps /\ DOMAIN items' = DOMAIN items
      /\ GoodFunds(items, holdings, calls, k, donated)
      /\ GoodNonces(nonce, items, log, calls, k)
      /\ GoodLog(items, log, calls, k)
      /\ items \in ItemMaps /\ IsFiniteSet(DOMAIN items) /\ holdings \in Books
      /\ donated \in [Tokens -> [Users -> Nat]]
  <2>1. items[id] /\ items \in [DOMAIN items -> BOOLEAN]
    BY Now DEF CompleteToken, MayComplete, isLocked
  <2>2. items[id] = TRUE /\ Unlocked(items, id, items')
    BY <2>1 DEF CompleteToken, Unlocked
  <2>3. items \in ItemMaps /\ IsFiniteSet(DOMAIN items)
    BY <1>2 DEF TypeInv
  <2>4. items' \in ItemMaps /\ DOMAIN items' = DOMAIN items
    BY <2>2, <2>3, KeptDrops
  <2> QED
    BY <1>2, <2>2, <2>3, <2>4 DEF PeggyInv, TypeInv
<1>9. /\ calls'[k + 1].op # "lock" /\ calls'[k + 1].moved = moved /\ calls'[k + 1].id = id
  BY <1>4, <1>6
<1>10. GoodFunds(items', holdings', calls', k + 1, donated)
  <2> HIDE DEF k
  <2> QED
    BY <1>2, <1>5, <1>6, <1>7, <1>8, <1>9, FundsOfPaymentCalled
<1>11. GoodNonces(nonce, items', log, calls', k + 1)
  <2>1. Cardinality(LocksOf(calls', k + 1)) = Cardinality(LocksOf(calls', k)) + 0
    BY <1>2, <1>9, LocksOnTop
  <2>2. Cardinality(LocksOf(calls', k)) = Cardinality(LocksOf(calls, k))
    BY <1>6, LocksAgree
  <2>3. Cardinality(LocksOf(calls, k)) \in 0..k
    BY <1>2, CountsAreNatural
  <2>4. nonce + Cardinality(LocksOf(calls', k + 1)) <= MaxLocks + MaxDepth
    BY <1>8, <2>1, <2>2, <2>3 DEF GoodNonces
  <2> QED
    BY <1>3, <1>8, <2>4, NoncesOfCalls
<1>12. GoodLog(items', log, calls', k + 1)
  <2> HIDE DEF k
  <2> QED
    BY <1>2, <1>6, <1>8, <1>9, LogOfPaymentCalled
<1> QED
  BY <1>2, <1>3, <1>5, <1>6, <1>8, <1>10, <1>11, <1>12 DEF PeggyInv, TypeInv

\* unlock and withdraw, of tokens, after the token has returned.
LEMMA CompleteTokenReturnsKeeps ==
  ASSUME PeggyInv, CompleteTokenReturns
  PROVE  PeggyInv'
<1> DEFINE k   == Len(calls) - 1
           top == calls[k + 1]
           e   == [event |-> EventOf(top.op), id |-> top.id]
<1>1. /\ k \in Nat /\ Len(calls) = k + 1 /\ Last(calls) = top /\ top = calls[k + 1]
      /\ calls' \in Seq(Calls) /\ Len(calls') = k
      /\ Agree(calls, calls', k)
      /\ GoodBelow(calls', donated)
      /\ Good(top.before, calls', k, donated)
  <2>1. calls \in Seq(Calls) /\ calls # << >> /\ GoodBelow(calls, donated) /\ calls' = Front(calls)
    BY DEF CompleteTokenReturns, PeggyInv, TypeInv
  <2> QED
    BY <2>1, PopKeeps
<1> HIDE DEF k, top
<1>2. /\ TypeInv /\ k + 1 <= MaxDepth
      /\ \A i \in 1..k + 1 : calls[i] \in Calls /\ calls[i].id \in ItemIds
      /\ top.id \in ItemIds /\ top.moved \in BOOLEAN
  <2>1. /\ TypeInv /\ Len(calls) \in 0..MaxDepth
        /\ \A i \in 1..Len(calls) :
             calls[i] \in Calls /\ calls[i].id \in ItemIds /\ calls[i].moved \in BOOLEAN
    BY Now
  <2> QED
    BY <1>1, <2>1, BoundAssumption
<1>3. /\ top.op \in {"unlock", "withdraw"} /\ top.op # "lock"
      /\ TokenHasMoved(top.moved, top.id.token, contract, top.id.sender, top.id.amount)
      /\ log' = Append(log, e)
      /\ UNCHANGED <<active, nonce, items, donated>>
  BY <1>1 DEF CompleteTokenReturns
<1>4. e \in Entries /\ e.event # "LogLock" /\ EventOf(top.op) # "LogLock"
  BY <1>2, <1>3 DEF Entries, Events, EventOf
<1>5. Grown(log, e, log') /\ log' \in Seq(Entries)
  <2>1. log \in Seq(Entries)
    BY <1>2 DEF TypeInv
  <2> HIDE DEF e
  <2>2. Grown(log, e, Append(log, e))
    BY <1>4, <2>1, AppendGrows
  <2> QED
    BY <1>3, <2>2 DEF Grown
<1>6. /\ GoodFunds(items, holdings, calls, k + 1, donated)
      /\ GoodNonces(nonce, items, log, calls, k + 1) /\ nonce \in Nat
      /\ GoodLog(items, log, calls, k + 1)
      /\ items \in ItemMaps /\ IsFiniteSet(DOMAIN items) /\ holdings \in Books
      /\ donated \in [Tokens -> [Users -> Nat]]
  BY <1>1, <1>2 DEF PeggyInv, TypeInv
<1>7. /\ holdings' \in Books
      /\ IF top.moved THEN holdings' = holdings ELSE FlowsOut(holdings, holdings', top.id)
  <2>1. IF top.moved THEN holdings' = holdings
        ELSE /\ holdings[top.id.token][contract] >= top.id.amount
             /\ holdings' = Move(holdings, top.id.token, contract, top.id.sender, top.id.amount)
    BY <1>2, <1>3 DEF TokenHasMoved, TokenMoves
  <2> QED
    BY <1>2, <1>6, <2>1, MovesOut
<1>8. GoodFunds(items, holdings', calls', k, donated)
  <2>1. /\ calls[k + 1].op # "lock" /\ calls[k + 1].moved \in BOOLEAN
        /\ IF calls[k + 1].moved THEN holdings' = holdings
           ELSE FlowsOut(holdings, holdings', calls[k + 1].id)
    BY <1>1, <1>2, <1>3, <1>7
  <2> QED
    BY <1>1, <1>2, <1>6, <1>7, <2>1, FundsOfPaymentReturned
<1>9. GoodNonces(nonce, items, log', calls', k)
  <2>1. Cardinality(LocksOf(calls, k + 1)) = Cardinality(LocksOf(calls, k)) + 0
    BY <1>1, <1>3, LocksOnTop
  <2>2. Cardinality(LocksOf(calls', k)) = Cardinality(LocksOf(calls, k))
    BY <1>1, LocksAgree
  <2>3. Cardinality(LocksOf(calls, k)) \in 0..k
    BY <1>1, CountsAreNatural
  <2>4. nonce + Cardinality(LocksOf(calls', k)) <= MaxLocks + MaxDepth
    BY <1>6, <2>1, <2>2, <2>3 DEF GoodNonces
  <2> HIDE DEF e
  <2> QED
    BY <1>4, <1>5, <1>6, <2>4, NoncesOfPaidOut
<1>10. GoodLog(items, log', calls', k)
  <2>1. calls[k + 1].op # "lock" /\ Grown(log, [event |-> EventOf(top.op), id |-> calls[k + 1].id], log')
    BY <1>1, <1>3, <1>5
  <2> QED
    BY <1>1, <1>4, <1>6, <2>1, LogOfPaymentReturned
<1> QED
  BY <1>1, <1>2, <1>3, <1>5, <1>6, <1>7, <1>8, <1>9, <1>10, BoundAssumption DEF PeggyInv, TypeInv

\* A call that fails goes back to a state that was good for the calls below it.
LEMMA RevertKeeps ==
  ASSUME PeggyInv, Revert
  PROVE  PeggyInv'
<1> DEFINE k   == Len(calls) - 1
           top == calls[k + 1]
           b   == top.before
<1>1. /\ k \in Nat /\ Len(calls) = k + 1 /\ Last(calls) = top /\ top = calls[k + 1]
      /\ calls' \in Seq(Calls) /\ Len(calls') = k
      /\ GoodBelow(calls', donated)
      /\ Good(top.before, calls', k, donated)
  <2>1. calls \in Seq(Calls) /\ calls # << >> /\ GoodBelow(calls, donated) /\ calls' = Front(calls)
    BY DEF Revert, PeggyInv, TypeInv
  <2> QED
    BY <2>1, PopKeeps
<1> HIDE DEF k, top
<1>2. TypeInv /\ Len(calls) \in 0..MaxDepth /\ top \in Calls
  BY <1>1, Now
<1>3. /\ active' = b.active /\ nonce' = b.nonce /\ items' = b.items
      /\ holdings' = b.holdings /\ log' = b.log /\ donated' = donated
  BY <1>1 DEF Revert
<1>4. b \in States
  BY <1>2 DEF Calls
<1>5. /\ active' \in BOOLEAN /\ nonce' \in Nat /\ items' \in ItemMaps
      /\ holdings' \in Books /\ log' \in Seq(Entries)
  BY <1>3, <1>4 DEF States
<1>6. /\ IsFiniteSet(DOMAIN b.items)
      /\ GoodFunds(b.items, b.holdings, calls', k, donated)
      /\ GoodNonces(b.nonce, b.items, b.log, calls', k)
      /\ GoodLog(b.items, b.log, calls', k)
  BY <1>1 DEF Good
<1> HIDE DEF b
<1> QED
  BY <1>1, <1>2, <1>3, <1>5, <1>6, BoundAssumption DEF PeggyInv, TypeInv

\* Tokens that are sent without a call.
LEMMA DonateKeeps ==
  ASSUME PeggyInv, NEW u \in Users, NEW t \in Tokens, NEW n \in Amounts, Donate(u, t, n)
  PROVE  PeggyInv'
<1>1. /\ TypeInv /\ calls = << >> /\ Len(calls) = 0 /\ n \in Nat /\ t \in Currencies /\ t # Ether
      /\ u \in Accounts /\ contract \in Accounts /\ u # contract /\ contract \notin Users
      /\ Users \subseteq Accounts
      /\ holdings[t][u] >= n /\ holdings' = Move(holdings, t, u, contract, n)
      /\ donated' = [donated EXCEPT ![t][u] = @ + n]
      /\ UNCHANGED <<active, nonce, items, log, calls>>
  BY AddressAssumption, AmountAssumption, EmptySeq
     DEF Donate, PeggyInv, Currencies, Accounts
<1>2. holdings \in Books /\ donated \in [Tokens -> [Users -> Nat]]
  BY <1>1 DEF TypeInv
<1>3. /\ holdings' \in Books
      /\ \A c \in Currencies, z \in Accounts :
           holdings'[c][z] = IF c # t THEN holdings[c][z]
                             ELSE IF z = u THEN holdings[c][z] - n
                             ELSE IF z = contract THEN holdings[c][z] + n
                             ELSE holdings[c][z]
  BY <1>1, <1>2, MoveMoves
<1>4. /\ donated' \in [Tokens -> [Users -> Nat]]
      /\ \A c \in Tokens, v \in Users :
           donated'[c][v] = IF c = t /\ v = u THEN donated[c][v] + n ELSE donated[c][v]
  BY <1>1, <1>2
<1>5. GoodFunds(items, holdings', calls, Len(calls), donated')
  <2>1. \A c, U : Kept(items, c, U) \in Nat /\ Held(calls, Len(calls), c, U) \in Nat
    <3>1. Len(calls) \in Nat /\ \A i \in 1..Len(calls) : calls[i].id \in ItemIds
      BY Now
    <3>2. items \in ItemMaps /\ IsFiniteSet(DOMAIN items)
      BY <1>1 DEF TypeInv
    <3> QED
      BY <3>1, <3>2, KeptNatural, HeldNatural
  <2>2. \A c \in Currencies, z \in Accounts : holdings[c][z] \in Nat
    BY <1>2 DEF Books
  <2>3. GoodFunds(items, holdings, calls, Len(calls), donated)
    BY DEF PeggyInv
  <2>4. ASSUME NEW c \in Currencies, NEW v \in Users
        PROVE  holdings'[c][v] + Kept(items, c, {v}) + Held(calls, Len(calls), c, {v})
                 + Given(donated', c, v) = InitialFunds
    <3>1. holdings[c][v] + Kept(items, c, {v}) + Held(calls, Len(calls), c, {v})
            + Given(donated, c, v) = InitialFunds
      BY <2>3 DEF GoodFunds
    <3>2. holdings'[c][v] = IF c = t /\ v = u THEN holdings[c][v] - n ELSE holdings[c][v]
      BY <1>1, <1>3
    <3>3. /\ Given(donated', c, v) =
               IF c = t /\ v = u THEN Given(donated, c, v) + n ELSE Given(donated, c, v)
          /\ Given(donated, c, v) \in Nat
      BY <1>1, <1>2, <1>4 DEF Given, Currencies
    <3>4. holdings[c][v] \in Nat /\ n \in Nat
      BY <1>1, <2>2
    <3> QED
      BY <2>1, <3>1, <3>2, <3>3, <3>4
  <2>5. ASSUME NEW c \in Currencies
        PROVE  holdings'[c][contract]
                 >= Kept(items, c, Users) + Held(calls, Len(calls), c, Users)
    <3>1. holdings[c][contract] >= Kept(items, c, Users) + Held(calls, Len(calls), c, Users)
      BY <2>3 DEF GoodFunds
    <3>2. holdings'[c][contract] = IF c = t THEN holdings[c][contract] + n ELSE holdings[c][contract]
      BY <1>1, <1>3
    <3>3. holdings[c][contract] \in Nat /\ n \in Nat
      BY <1>1, <2>2
    <3> QED
      BY <2>1, <3>1, <3>2, <3>3
  <2> QED
    BY <2>4, <2>5 DEF GoodFunds
<1>6. GoodBelow(calls, donated')
  BY <1>1 DEF GoodBelow
<1> QED
  BY <1>1, <1>3, <1>4, <1>5, <1>6 DEF PeggyInv, TypeInv

\* pauseLocking and activateLocking.
LEMMA SetLockingKeeps ==
  ASSUME PeggyInv, NEW value \in BOOLEAN, SetLocking(value)
  PROVE  PeggyInv'
BY DEF PeggyInv, TypeInv, SetLocking

\* The contract starts with no item, no entry and none of the funds.
LEMMA PeggyInvInit ==
  ASSUME Init
  PROVE  PeggyInv
<1>1. /\ active \in BOOLEAN /\ nonce = 0 /\ DOMAIN items = {} /\ items \in [{} -> BOOLEAN]
      /\ log = << >> /\ calls = << >> /\ Len(calls) = 0 /\ Len(log) = 0
      /\ donated = [t \in Tokens |-> [u \in Users |-> 0]]
      /\ holdings = [c \in Currencies |->
                       [a \in Accounts |-> IF a = contract THEN 0 ELSE InitialFunds]]
  BY EmptySeq DEF Init
<1>2. items \in ItemMaps /\ IsFiniteSet(DOMAIN items)
  BY <1>1, FS_EmptySet DEF ItemMaps
<1>3. TypeInv
  BY <1>1, <1>2, EmptySeq, AmountAssumption, BoundAssumption DEF TypeInv, Books
<1>4. \A c, U : Kept(items, c, U) = 0 /\ Held(calls, 0, c, U) = 0
  <2> TAKE c, U
  <2>1. ItemsOf(items, c, U) = {} /\ CallsOf(calls, 0, c, U) = {}
    BY <1>1 DEF ItemsOf, CallsOf
  <2>2. SumOfAmounts({}) = 0 /\ Total(calls, {}) = 0
    BY SumOfNone DEF SumOfAmounts, Total
  <2> QED
    BY <2>1, <2>2 DEF Kept, Held
<1>5. GoodFunds(items, holdings, calls, 0, donated)
  <2>1. ASSUME NEW c \in Currencies, NEW u \in Users
        PROVE  holdings[c][u] = InitialFunds /\ Given(donated, c, u) = 0
    BY <1>1, AddressAssumption DEF Given, Currencies, Accounts
  <2>2. ASSUME NEW c \in Currencies
        PROVE  holdings[c][contract] = 0
    BY <1>1 DEF Accounts
  <2> QED
    BY <1>4, <2>1, <2>2, AmountAssumption DEF GoodFunds
<1>6. GoodNonces(nonce, items, log, calls, 0)
  <2>1. LocksOf(calls, 0) = {} /\ LockEntries(log, 0) = {}
    BY DEF LocksOf, LockEntries
  <2>2. Cardinality(LocksOf(calls, 0)) = 0 /\ Cardinality(LockEntries(log, 0)) = 0
    BY <2>1, FS_EmptySet
  <2>3. DOMAIN log = {}
    BY <1>1
  <2> QED
    BY <1>1, <2>2, <2>3, BoundAssumption DEF GoodNonces
<1>7. GoodLog(items, log, calls, 0) /\ GoodBelow(calls, donated)
  BY <1>1 DEF GoodLog, GoodBelow
<1> QED
  BY <1>1, <1>3, <1>5, <1>6, <1>7 DEF PeggyInv

\* Every step of a call, and every return or failure, keeps the invariant.
LEMMA PeggyInvStep ==
  ASSUME PeggyInv, [Next]_vars
  PROVE  PeggyInv'
<1>1. CASE \E u \in Users, n \in Amounts : LockEther(u, n)
  BY <1>1, LockEtherKeeps
<1>2. CASE \E u \in Users, t \in Tokens, n \in Amounts : LockToken(u, t, n)
  BY <1>2, LockTokenKeeps
<1>3. CASE LockTokenReturns
  BY <1>3, LockTokenReturnsKeeps
<1>4. ASSUME NEW op \in {"unlock", "withdraw"}, NEW u \in Users, NEW id \in DOMAIN items,
             CompleteEther(op, u, id) \/ CompleteToken(op, u, id)
      PROVE  PeggyInv'
  BY <1>4, CompleteEtherKeeps, CompleteTokenKeeps
<1>5. CASE CompleteTokenReturns
  BY <1>5, CompleteTokenReturnsKeeps
<1>6. CASE Revert
  BY <1>6, RevertKeeps
<1>7. CASE pauseLocking \/ activateLocking
  BY <1>7, SetLockingKeeps DEF pauseLocking, activateLocking
<1>8. CASE \E u \in Users, t \in Tokens, n \in Amounts : Donate(u, t, n)
  BY <1>8, DonateKeeps
<1>9. CASE UNCHANGED vars
  BY <1>9 DEF vars, PeggyInv, TypeInv
<1> QED
  BY <1>1, <1>2, <1>3, <1>4, <1>5, <1>6, <1>7, <1>8, <1>9 DEF Next, Lock, Complete

\* So the invariant always holds.
LEMMA PeggyInvHolds == Spec => []PeggyInv
BY PeggyInvInit, PeggyInvStep, PTL DEF Spec

-----------------------------------------------------------------------------
(* The theorems.                                                            *)

\* Every variable keeps its type, in particular no balance goes below zero and the
\* nonce does not overflow (Processor.sol:48-69, 89).
THEOREM ContractTypeCorrect == Spec => []TypeOK
<1>1. PeggyInv => TypeOK
  <2> SUFFICES ASSUME PeggyInv PROVE TypeOK
    OBVIOUS
  <2>1. /\ TypeInv /\ Len(calls) \in 0..MaxDepth
        /\ \A i \in 1..Len(calls) : calls[i] \in Calls
        /\ DOMAIN items \subseteq ItemIds /\ items \in [DOMAIN items -> BOOLEAN]
    BY Now
  <2>2. nonce \in 0..2^NonceBits - 1
    <3>1. nonce \in Nat /\ nonce + Cardinality(LocksOf(calls, Len(calls))) <= MaxLocks + MaxDepth
      BY <2>1 DEF PeggyInv, GoodNonces, TypeInv
    <3>2. Cardinality(LocksOf(calls, Len(calls))) \in Nat
      BY <2>1, CountsAreNatural
    <3>3. 2^NonceBits \in Nat
      BY NonceWidth, BoundAssumption, 0 < MaxLocks + MaxDepth
    <3> QED
      BY <3>1, <3>2, <3>3, BoundAssumption, NonceAssumption
  <2>3. \A i \in DOMAIN log : log[i].event \in Events
    <3>1. log \in Seq(Entries) /\ DOMAIN log = 1..Len(log)
      BY <2>1, LenProperties DEF TypeInv
    <3>2. \A i \in DOMAIN log : log[i] \in Entries
      BY <3>1, ElementOfSeq
    <3> QED
      BY <3>2 DEF Entries
  <2>4. \A i \in DOMAIN calls : calls[i].op \in Ops
    <3>1. DOMAIN calls = 1..Len(calls)
      BY <2>1, LenProperties DEF TypeInv
    <3> QED
      BY <2>1, <3>1 DEF Calls
  <2> QED
    BY <2>1, <2>2, <2>3, <2>4 DEF TypeOK, TypeInv, Books, Events, Ops
<1> QED
  BY <1>1, PeggyInvHolds, PTL

\* What the properties sum up is what the invariant speaks of.
LEMMA SumsAreKept ==
  ASSUME PeggyInv, NEW c
  PROVE  /\ \A u : /\ SumOfAmounts({id \in LockedItems(c) : id.sender = u}) = Kept(items, c, {u})
                   /\ SumOfCalls({i \in HeldByCalls(c) : calls[i].id.sender = u})
                        = Held(calls, Len(calls), c, {u})
         /\ SumOfAmounts(LockedItems(c)) = Kept(items, c, Users)
<1>1. DOMAIN calls = 1..Len(calls)
  BY LenProperties DEF PeggyInv, TypeInv
<1>2. \A id \in DOMAIN items : id.sender \in Users
  BY Now DEF ItemIds
<1>3. ASSUME NEW u
      PROVE  /\ SumOfAmounts({id \in LockedItems(c) : id.sender = u}) = Kept(items, c, {u})
             /\ SumOfCalls({i \in HeldByCalls(c) : calls[i].id.sender = u})
                  = Held(calls, Len(calls), c, {u})
  <2>1. {id \in LockedItems(c) : id.sender = u} = ItemsOf(items, c, {u})
    BY DEF LockedItems, ItemsOf
  <2>2. {i \in HeldByCalls(c) : calls[i].id.sender = u} = CallsOf(calls, Len(calls), c, {u})
    BY <1>1 DEF HeldByCalls, CallsOf
  <2> QED
    BY <2>1, <2>2 DEF Kept, Held, SumOfCalls, Total
<1>4. LockedItems(c) = ItemsOf(items, c, Users)
  BY <1>2 DEF LockedItems, ItemsOf
<1> QED
  BY <1>3, <1>4 DEF Kept

\* At every point of every nested call a user's funds and what is kept for him add up
\* to what he began with (Processor.sol:134-142, Peggy.sol:107-120).
THEOREM FundsAreSafe == Spec => []NobodyGainsOrLoses
<1>1. PeggyInv => NobodyGainsOrLoses
  <2> SUFFICES ASSUME PeggyInv, NEW u \in Users, NEW c \in Currencies
               PROVE  holdings[c][u]
                        + SumOfAmounts({id \in LockedItems(c) : id.sender = u})
                        + SumOfCalls({i \in HeldByCalls(c) : calls[i].id.sender = u})
                        + (IF c = Ether THEN 0 ELSE donated[c][u])
                      = InitialFunds
    BY DEF NobodyGainsOrLoses
  <2>1. holdings[c][u] + Kept(items, c, {u}) + Held(calls, Len(calls), c, {u})
          + Given(donated, c, u) = InitialFunds
    BY DEF PeggyInv, GoodFunds
  <2> QED
    BY <2>1, SumsAreKept DEF Given
<1> QED
  BY <1>1, PeggyInvHolds, PTL

\* The contract can pay all the locked items at once (Peggy.sol:9-10).
THEOREM ContractIsSolvent == Spec => []CanPayEveryone
<1>1. PeggyInv => CanPayEveryone
  <2> SUFFICES ASSUME PeggyInv, NEW c \in Currencies
               PROVE  holdings[c][contract] >= SumOfAmounts(LockedItems(c))
    BY DEF CanPayEveryone
  <2>1. holdings[c][contract] >= Kept(items, c, Users) + Held(calls, Len(calls), c, Users)
    BY DEF PeggyInv, GoodFunds
  <2>2. Kept(items, c, Users) \in Nat /\ Held(calls, Len(calls), c, Users) \in Nat
    <3>1. Len(calls) \in Nat /\ \A i \in 1..Len(calls) : calls[i].id \in ItemIds
      BY Now
    <3>2. items \in ItemMaps /\ IsFiniteSet(DOMAIN items)
      BY DEF PeggyInv, TypeInv
    <3> QED
      BY <3>1, <3>2, KeptNatural, HeldNatural
  <2>3. holdings[c][contract] \in Nat
    BY DEF PeggyInv, TypeInv, Books, Accounts
  <2> QED
    BY <2>1, <2>2, <2>3, SumsAreKept
<1> QED
  BY <1>1, PeggyInvHolds, PTL

\* Between transactions the log tells of every item that it was locked once, paid out
\* at most once, and is locked as long as it was not (Peggy.sol:122-129, 160-166, 196-202).
THEOREM LogIsTrue == Spec => []LogTellsItems
<1>1. PeggyInv => LogTellsItems
  <2> SUFFICES ASSUME PeggyInv, calls = << >>,
                      NEW id \in DOMAIN items \cup {log[i].id : i \in DOMAIN log}
               PROVE  /\ \E i \in DOMAIN log :
                           Positions("LogLock", id) = {i} /\ \A j \in Payouts(id) : i < j
                      /\ \A i, j \in Payouts(id) : i = j
                      /\ items[id] <=> Payouts(id) = {}
    BY DEF LogTellsItems
  <2>1. Len(calls) = 0 /\ GoodLog(items, log, calls, Len(calls))
    BY EmptySeq DEF PeggyInv
  <2>2. id \in DOMAIN items /\ Told(items, log, calls, 0, id)
    BY <2>1 DEF GoodLog
  <2>3. \A i \in DOMAIN log : log[i] \in Entries
    BY LenProperties, ElementOfSeq DEF PeggyInv, TypeInv
  <2>4. \A i \in DOMAIN log, event \in Events :
          log[i] = [event |-> event, id |-> id] <=> log[i].event = event /\ log[i].id = id
    BY <2>3 DEF Entries
  <2>5. \A i \in DOMAIN log : i \in Payouts(id) <=> Paid(log, i, id)
    <3>1. \A i \in DOMAIN log : log[i].event \in Events
      BY <2>3 DEF Entries
    <3> QED
      BY <2>4, <3>1 DEF Payouts, Positions, Paid, Events
  <2>6. \A j \in Payouts(id) : j \in DOMAIN log
    BY DEF Payouts, Positions
  <2>7. PICK i \in DOMAIN log : LockedAt(log, id, i)
    BY <2>2 DEF Told
  <2>8. Positions("LogLock", id) = {i} /\ \A j \in Payouts(id) : i < j
    <3>1. \A j : j \in Positions("LogLock", id) <=> j = i
      BY <2>4, <2>7 DEF Positions, LockedAt, Events
    <3> QED
      BY <2>5, <2>6, <2>7, <3>1 DEF LockedAt
  <2>9. items[id] <=> \A j \in DOMAIN log : ~Paid(log, j, id)
    BY <2>2 DEF Told
  <2> QED
    BY <2>2, <2>5, <2>6, <2>8, <2>9 DEF Told
<1> QED
  BY <1>1, PeggyInvHolds, PTL

\* The nonces of the LogLock events count the locks (Processor.sol:65, 89).
THEOREM NoncesAreCounted == Spec => []NoncesCountLocks
<1>1. PeggyInv => NoncesCountLocks
  <2> SUFFICES ASSUME PeggyInv, NEW i \in DOMAIN log, IsLogLock(i)
               PROVE  log[i].id.nonce = Cardinality({j \in 1..i : IsLogLock(j)})
    BY DEF NoncesCountLocks
  <2>1. log[i].id.nonce = Cardinality(LockEntries(log, i))
    BY DEF PeggyInv, GoodNonces, IsLogLock
  <2>2. LockEntries(log, i) = {j \in 1..i : IsLogLock(j)}
    BY DEF LockEntries, IsLogLock
  <2> QED
    BY <2>1, <2>2
<1> QED
  BY <1>1, PeggyInvHolds, PTL

=============================================================================
