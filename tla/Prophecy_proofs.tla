--------------------------- MODULE Prophecy_proofs --------------------------
(***************************************************************************)
(* Lemmas about prophecies: their type, the agreement of their two indexes *)
(* and what their tallies count.  OracleKeeper_proofs rests on them.       *)
(***************************************************************************)
EXTENDS Prophecy, FiniteSetTheorems, TLAPS

\* AddClaim stays within the type of a prophecy.
LEMMA AddClaimType ==
  ASSUME NEW p \in Prophecies, NEW v \in Validators, NEW c \in ClaimStrings
  PROVE  AddClaim(p, v, c) \in Prophecies
<1> DEFINE q == AddClaim(p, v, c)
<1>1. Append(p.claimValidators[c], v) \in Seq(Validators)
  BY DEF Prophecies
<1>2. q.claimValidators \in [ClaimStrings -> Seq(Validators)]
  BY <1>1 DEF AddClaim, Prophecies
<1>3. q.validatorClaims \in [Validators -> ClaimStrings]
  BY DEF AddClaim, Prophecies
<1> QED
  BY <1>2, <1>3 DEF AddClaim, Prophecies

\* A new prophecy has the type of one.
LEMMA NewProphecyType == NewProphecy \in Prophecies
BY DEF NewProphecy, Prophecies, ClaimStrings, PendingStatusText

-----------------------------------------------------------------------------
\* Both indexes of a new prophecy are empty.
LEMMA NewProphecyIndexes == IndexesAgree(NewProphecy)
BY ClaimsAssumption DEF IndexesAgree, NewProphecy, Supporters, ClaimStrings

\* A first vote of a validator keeps the two indexes of a prophecy in step.
LEMMA AddClaimIndexes ==
  ASSUME NEW p \in Prophecies, NEW v \in Validators, NEW c \in Claims,
         IndexesAgree(p), p.validatorClaims[v] = EmptyString
  PROVE  IndexesAgree(AddClaim(p, v, c))
<1> DEFINE q    == AddClaim(p, v, c)
           list == p.claimValidators[c]
<1>1. c \in ClaimStrings /\ c # EmptyString
  BY ClaimsAssumption DEF ClaimStrings
<1>2. list \in Seq(Validators) /\ Len(list) \in Nat /\ DOMAIN list = 1..Len(list)
  BY <1>1 DEF Prophecies
<1>3. /\ q.claimValidators[c] = Append(list, v)
      /\ \A d \in ClaimStrings : d # c => q.claimValidators[d] = p.claimValidators[d]
      /\ q.validatorClaims[v] = c
      /\ \A w \in Validators : w # v => q.validatorClaims[w] = p.validatorClaims[w]
  BY <1>1 DEF AddClaim, Prophecies
<1>4. /\ DOMAIN q.claimValidators[c] = 1..(Len(list) + 1)
      /\ \A i \in 1..Len(list) : q.claimValidators[c][i] = list[i]
      /\ q.claimValidators[c][Len(list) + 1] = v
  BY <1>2, <1>3
<1>5. \A d \in ClaimStrings : \A i \in DOMAIN p.claimValidators[d] :
        p.claimValidators[d][i] \in Validators
  BY DEF Prophecies
<1>6. \A d \in ClaimStrings : \A i \in DOMAIN p.claimValidators[d] :
        p.claimValidators[d][i] # v
  <2> SUFFICES ASSUME NEW d \in ClaimStrings, NEW i \in DOMAIN p.claimValidators[d],
                      p.claimValidators[d][i] = v
               PROVE  FALSE
    OBVIOUS
  <2>1. d = EmptyString
    BY DEF IndexesAgree
  <2> QED
    BY <2>1 DEF IndexesAgree
<1>7. ASSUME NEW d \in ClaimStrings, NEW i \in DOMAIN q.claimValidators[d]
      PROVE  q.validatorClaims[q.claimValidators[d][i]] = d
  <2>1. CASE d # c
    BY <1>3, <1>5, <1>6, <2>1 DEF IndexesAgree
  <2>2. CASE d = c /\ i \in 1..Len(list)
    <3>1. list[i] \in Validators /\ list[i] # v /\ p.validatorClaims[list[i]] = c
      BY <1>1, <1>2, <1>5, <1>6, <2>2 DEF IndexesAgree
    <3> QED
      BY <1>3, <1>4, <2>2, <3>1
  <2>3. CASE d = c /\ i = Len(list) + 1
    BY <1>3, <1>4, <2>3
  <2> QED
    BY <1>2, <1>4, <2>1, <2>2, <2>3
<1>8. ASSUME NEW d \in Claims, NEW w \in Supporters(q, d)
      PROVE  \E i \in DOMAIN q.claimValidators[d] : q.claimValidators[d][i] = w
  <2>1. w \in Validators /\ q.validatorClaims[w] = d /\ d \in ClaimStrings
    BY <1>8 DEF Supporters, ClaimStrings
  <2>2. CASE w = v
    <3>1. d = c
      BY <1>3, <2>1, <2>2
    <3> QED
      BY <1>2, <1>4, <2>2, <3>1
  <2>3. CASE w # v
    <3>1. w \in Supporters(p, d)
      BY <1>3, <2>1, <2>3 DEF Supporters
    <3>2. PICK i \in DOMAIN p.claimValidators[d] : p.claimValidators[d][i] = w
      BY <3>1 DEF IndexesAgree
    <3>3. CASE d = c
      <4>1. i \in 1..Len(list) /\ list[i] = w
        BY <1>2, <3>2, <3>3
      <4>2. i \in DOMAIN q.claimValidators[c] /\ q.claimValidators[c][i] = w
        BY <1>2, <1>4, <4>1
      <4> QED
        BY <3>3, <4>2
    <3>4. CASE d # c
      BY <1>3, <2>1, <3>2, <3>4
    <3> QED
      BY <3>3, <3>4
  <2> QED
    BY <2>2, <2>3
<1>9. ASSUME NEW d \in ClaimStrings,
             NEW i \in DOMAIN q.claimValidators[d], NEW j \in DOMAIN q.claimValidators[d],
             q.claimValidators[d][i] = q.claimValidators[d][j]
      PROVE  i = j
  <2>1. CASE d # c
    BY <1>3, <1>9, <2>1 DEF IndexesAgree
  <2>2. CASE d = c
    <3>1. \A k \in 1..Len(list) : list[k] # v
      BY <1>1, <1>2, <1>6
    <3>2. \A k, l \in 1..Len(list) : list[k] = list[l] => k = l
      BY <1>1, <1>2 DEF IndexesAgree
    <3> DEFINE n == Len(list)
    <3>0. i \in 1..(n + 1) /\ j \in 1..(n + 1) /\ n \in Nat
      BY <1>2, <1>4, <2>2
    <3>3. i \in 1..n \/ i = n + 1
      <4> HIDE DEF n
      <4> QED
        BY <3>0
    <3>4. j \in 1..n \/ j = n + 1
      <4> HIDE DEF n
      <4> QED
        BY <3>0
    <3> QED
      BY <1>4, <1>9, <2>2, <3>1, <3>2, <3>3, <3>4
  <2> QED
    BY <2>1, <2>2
<1>10. q.claimValidators[EmptyString] = << >>
  BY <1>1, <1>3 DEF IndexesAgree, ClaimStrings
<1> QED
  BY <1>7, <1>8, <1>9, <1>10 DEF IndexesAgree

\* IndexesAgree looks at the two indexes only.
LEMMA IndexesAgreeDependsOnIndexes ==
  ASSUME NEW p \in Prophecies, NEW q \in Prophecies, IndexesAgree(p),
         q.claimValidators = p.claimValidators, q.validatorClaims = p.validatorClaims
  PROVE  IndexesAgree(q)
BY DEF IndexesAgree, Supporters

-----------------------------------------------------------------------------
(* Tallies.                                                                 *)

\* The positions of a list are finitely many.
LEMMA InitialSegmentFinite == ASSUME NEW n \in Nat PROVE IsFiniteSet(1..n)
<1>1. 1 \in Int /\ n \in Int
  OBVIOUS
<1> QED
  BY <1>1, FS_Interval, Zenon

\* The walk over claimValidators ends.
LEMMA EntriesFinite ==
  ASSUME NEW p \in Prophecies
  PROVE  IsFiniteSet(Entries(p))
<1> DEFINE row(c) == {<<c, i>> : i \in DOMAIN p.claimValidators[c]}
           rows   == {row(c) : c \in ClaimStrings}
<1>1. ASSUME NEW c \in ClaimStrings PROVE IsFiniteSet(row(c))
  <2>1. Len(p.claimValidators[c]) \in Nat
        /\ DOMAIN p.claimValidators[c] = 1..Len(p.claimValidators[c])
    BY DEF Prophecies
  <2>2. IsFiniteSet(DOMAIN p.claimValidators[c])
    BY <2>1, InitialSegmentFinite
  <2> DEFINE f == [i \in DOMAIN p.claimValidators[c] |-> <<c, i>>]
  <2>3. f \in Surjection(DOMAIN p.claimValidators[c], row(c))
    BY DEF Surjection
  <2> QED
    BY <2>2, <2>3, FS_Surjection
<1>2. IsFiniteSet(ClaimStrings)
  BY ClaimsAssumption, FS_AddElement DEF ClaimStrings
<1>3. IsFiniteSet(rows)
  <2> DEFINE f == [c \in ClaimStrings |-> row(c)]
  <2>1. f \in Surjection(ClaimStrings, rows)
    BY DEF Surjection
  <2> QED
    BY <1>2, <2>1, FS_Surjection
<1>4. IsFiniteSet(UNION rows)
  BY <1>1, <1>3, FS_UNION
<1> QED
  BY <1>4 DEF Entries

\* Every tally is a natural number.
LEMMA UnitsFinite ==
  ASSUME NEW p \in Prophecies, NEW pow, NEW E \in SUBSET Entries(p)
  PROVE  /\ IsFiniteSet(UnitsOf(p, pow, E))
         /\ Cardinality(UnitsOf(p, pow, E)) \in Nat
<1>1. IsFiniteSet(E)
  BY EntriesFinite, FS_Subset
<1>2. IsFiniteSet(E \X (1..MaxPower))
  BY <1>1, MaxPowerAssumption, InitialSegmentFinite, FS_Product
<1> QED
  BY <1>2, FS_Subset, FS_CardinalityType DEF UnitsOf

\* The two sums of FindHighestClaim are natural numbers.
LEMMA TalliesAreNatural ==
  ASSUME NEW p \in Prophecies, NEW pow
  PROVE  /\ TotalClaimsPower(p, pow) \in Nat
         /\ \A c : ClaimPower(p, pow, c) \in Nat
BY UnitsFinite DEF TotalClaimsPower, ClaimPower

\* So is the stake of a set of validators, and it grows with the set.
LEMMA StakeIsNatural ==
  ASSUME NEW pow, NEW S \in SUBSET Validators
  PROVE  /\ IsFiniteSet({e \in S \X (1..MaxPower) : e[2] <= pow[e[1]]})
         /\ StakeOf(pow, S) \in Nat
<1>1. IsFiniteSet(S)
  BY ValidatorsAssumption, FS_Subset
<1>2. IsFiniteSet(S \X (1..MaxPower))
  BY <1>1, MaxPowerAssumption, InitialSegmentFinite, FS_Product
<1> QED
  BY <1>2, FS_Subset, FS_CardinalityType DEF StakeOf

\* When the indexes agree, the power the nested loops of FindHighestClaim add
\* up for a claim is the stake of the validators that made it, each once.
LEMMA TallyIsStake ==
  ASSUME NEW p \in Prophecies, IndexesAgree(p), NEW pow, NEW c \in Claims
  PROVE  ClaimPower(p, pow, c) = StakeOf(pow, Supporters(p, c))
<1> DEFINE E    == {e \in Entries(p) : e[1] = c}
           list == p.claimValidators[c]
           S    == UnitsOf(p, pow, E)
           T    == {e \in Supporters(p, c) \X (1..MaxPower) : e[2] <= pow[e[1]]}
           f    == [x \in S |-> <<list[x[1][2]], x[2]>>]
<1>1. c \in ClaimStrings
  BY DEF ClaimStrings
<1>2. E = {<<c, i>> : i \in DOMAIN list}
  BY <1>1 DEF Entries
<1>3. \A i \in DOMAIN list : list[i] \in Supporters(p, c)
  BY <1>1 DEF Supporters, IndexesAgree, Prophecies
<1>4. \A w \in Supporters(p, c) : \E i \in DOMAIN list : list[i] = w
  BY DEF IndexesAgree
<1>5. \A i, j \in DOMAIN list : list[i] = list[j] => i = j
  BY <1>1 DEF IndexesAgree
<1>6. S = {x \in E \X (1..MaxPower) : x[2] <= pow[list[x[1][2]]]}
  BY <1>2 DEF UnitsOf, Voter
<1>7. \A x \in S : /\ x = <<<<c, x[1][2]>>, x[2]>>
                  /\ x[1][2] \in DOMAIN list
                  /\ x[2] \in 1..MaxPower
                  /\ x[2] <= pow[list[x[1][2]]]
  BY <1>2, <1>6
<1>8. f \in [S -> T]
  BY <1>3, <1>7
<1>9. ASSUME NEW x \in S, NEW y \in S, f[x] = f[y] PROVE x = y
  <2>1. list[x[1][2]] = list[y[1][2]] /\ x[2] = y[2]
    BY <1>9
  <2> QED
    BY <1>5, <1>7, <2>1
<1>10. ASSUME NEW t \in T PROVE \E x \in S : f[x] = t
  <2>1. t = <<t[1], t[2]>> /\ t[1] \in Supporters(p, c) /\ t[2] \in 1..MaxPower /\ t[2] <= pow[t[1]]
    OBVIOUS
  <2>2. PICK i \in DOMAIN list : list[i] = t[1]
    BY <1>4, <2>1
  <2> DEFINE x == <<<<c, i>>, t[2]>>
  <2>3. x \in S
    BY <1>2, <1>6, <2>1, <2>2
  <2>4. f[x] = t
    BY <2>1, <2>2, <2>3
  <2> QED
    BY <2>3, <2>4
<1>11. f \in Bijection(S, T)
  <2> HIDE DEF f, S, T
  <2>1. f \in Injection(S, T)
    BY <1>8, <1>9 DEF Injection, IsInjective
  <2>2. f \in Surjection(S, T)
    BY <1>8, <1>10 DEF Surjection
  <2> QED
    BY <2>1, <2>2 DEF Bijection
<1>12. IsFiniteSet(S)
  BY UnitsFinite
<1>13. Cardinality(S) = Cardinality(T)
  BY <1>11, <1>12, FS_Bijection DEF ExistsBijection
<1> QED
  BY <1>13 DEF ClaimPower, StakeOf

\* A claim that nobody has made has no power behind it.
LEMMA UnmadeClaimHasNoPower ==
  ASSUME NEW p, NEW pow, NEW c \in ClaimStrings, c \notin ClaimsMade(p)
  PROVE  ClaimPower(p, pow, c) = 0
<1>1. {e \in Entries(p) : e[1] = c} = {}
  BY DEF ClaimsMade, Entries
<1>2. UnitsOf(p, pow, {}) = {}
  BY DEF UnitsOf
<1> QED
  BY <1>1, <1>2, FS_EmptySet DEF ClaimPower

\* The stake of a set is that of its two halves.
LEMMA StakeOfHalves ==
  ASSUME NEW pow, NEW S \in SUBSET Validators, NEW T \in SUBSET Validators, S \cap T = {}
  PROVE  StakeOf(pow, S \cup T) = StakeOf(pow, S) + StakeOf(pow, T)
<1> DEFINE units(U) == {e \in U \X (1..MaxPower) : e[2] <= pow[e[1]]}
<1>1. /\ IsFiniteSet(units(S)) /\ Cardinality(units(S)) \in Nat
      /\ IsFiniteSet(units(T)) /\ Cardinality(units(T)) \in Nat
  BY StakeIsNatural DEF StakeOf
<1>2. units(S \cup T) = units(S) \cup units(T) /\ units(S) \cap units(T) = {}
  OBVIOUS
<1> HIDE DEF units
<1>3. Cardinality(units(S) \cup units(T)) =
        Cardinality(units(S)) + Cardinality(units(T)) - Cardinality(units(S) \cap units(T))
  BY <1>1, FS_Union
<1>4. Cardinality(units(S) \cap units(T)) = 0
  BY <1>2, FS_EmptySet
<1>5. Cardinality(units(S \cup T)) = Cardinality(units(S) \cup units(T))
  BY <1>2
<1>6. Cardinality(units(S \cup T)) = Cardinality(units(S)) + Cardinality(units(T)) - 0
  BY <1>3, <1>4, <1>5
<1>7. Cardinality(units(S \cup T)) = Cardinality(units(S)) + Cardinality(units(T))
  BY <1>1, <1>6
<1> QED
  BY <1>7 DEF StakeOf, units

\* The validators that have claimed something.
Voters(p) == {v \in Validators : p.validatorClaims[v] # EmptyString}

\* When the indexes agree, the sum over all claims is the stake of the voters,
\* each counted once.
LEMMA TotalIsStakeOfVoters ==
  ASSUME NEW p \in Prophecies, IndexesAgree(p), NEW pow
  PROVE  TotalClaimsPower(p, pow) = StakeOf(pow, Voters(p))
<1> DEFINE lists == p.claimValidators
           S     == UnitsOf(p, pow, Entries(p))
           T     == {e \in Voters(p) \X (1..MaxPower) : e[2] <= pow[e[1]]}
           f     == [x \in S |-> <<lists[x[1][1]][x[1][2]], x[2]>>]
<1>1. \A e \in Entries(p) :
        /\ e = <<e[1], e[2]>> /\ e[1] \in ClaimStrings /\ e[2] \in DOMAIN lists[e[1]]
        /\ e[1] # EmptyString
        /\ lists[e[1]][e[2]] \in Validators
        /\ p.validatorClaims[lists[e[1]][e[2]]] = e[1]
  <2> SUFFICES ASSUME NEW c \in ClaimStrings, NEW i \in DOMAIN lists[c]
               PROVE  /\ c # EmptyString
                      /\ lists[c][i] \in Validators
                      /\ p.validatorClaims[lists[c][i]] = c
    BY DEF Entries
  <2> QED
    BY DEF IndexesAgree, Prophecies
<1>2. \A w \in Voters(p) : \E e \in Entries(p) : lists[e[1]][e[2]] = w
  <2> SUFFICES ASSUME NEW w \in Voters(p) PROVE \E e \in Entries(p) : lists[e[1]][e[2]] = w
    OBVIOUS
  <2> DEFINE c == p.validatorClaims[w]
  <2>1. c \in Claims /\ c \in ClaimStrings /\ w \in Supporters(p, c)
    BY DEF Voters, Supporters, Prophecies, ClaimStrings
  <2>2. PICK i \in DOMAIN lists[c] : lists[c][i] = w
    BY <2>1 DEF IndexesAgree
  <2>3. <<c, i>> \in Entries(p)
    BY <2>1 DEF Entries
  <2> QED
    BY <2>2, <2>3
<1>3. \A d, e \in Entries(p) : lists[d[1]][d[2]] = lists[e[1]][e[2]] => d = e
  <2> SUFFICES ASSUME NEW d \in Entries(p), NEW e \in Entries(p),
                      lists[d[1]][d[2]] = lists[e[1]][e[2]]
               PROVE  d = e
    OBVIOUS
  <2>1. d[1] = e[1]
    BY <1>1
  <2>2. d[2] = e[2]
    BY <1>1, <2>1 DEF IndexesAgree
  <2> QED
    BY <1>1, <2>1, <2>2
<1>4. \A x \in S : /\ x = <<x[1], x[2]>> /\ x[1] \in Entries(p)
                  /\ x[2] \in 1..MaxPower /\ x[2] <= pow[lists[x[1][1]][x[1][2]]]
  BY DEF UnitsOf, Voter
<1>5. f \in [S -> T]
  <2> SUFFICES ASSUME NEW x \in S PROVE f[x] \in T
    OBVIOUS
  <2>1. lists[x[1][1]][x[1][2]] \in Voters(p)
    BY <1>1, <1>4 DEF Voters
  <2> QED
    BY <1>4, <2>1
<1>6. ASSUME NEW x \in S, NEW y \in S, f[x] = f[y] PROVE x = y
  <2>1. lists[x[1][1]][x[1][2]] = lists[y[1][1]][y[1][2]] /\ x[2] = y[2]
    BY <1>6
  <2> QED
    BY <1>3, <1>4, <2>1
<1>7. ASSUME NEW t \in T PROVE \E x \in S : f[x] = t
  <2>1. t = <<t[1], t[2]>> /\ t[1] \in Voters(p) /\ t[2] \in 1..MaxPower /\ t[2] <= pow[t[1]]
    OBVIOUS
  <2>2. PICK e \in Entries(p) : lists[e[1]][e[2]] = t[1]
    BY <1>2, <2>1
  <2>3. <<e, t[2]>> \in S
    BY <2>1, <2>2 DEF UnitsOf, Voter
  <2>4. f[<<e, t[2]>>] = t
    BY <2>1, <2>2, <2>3
  <2> QED
    BY <2>3, <2>4
<1>8. f \in Bijection(S, T)
  <2> HIDE DEF f, S, T
  <2>1. f \in Injection(S, T)
    BY <1>5, <1>6 DEF Injection, IsInjective
  <2>2. f \in Surjection(S, T)
    BY <1>5, <1>7 DEF Surjection
  <2> QED
    BY <2>1, <2>2 DEF Bijection
<1>9. IsFiniteSet(S)
  BY UnitsFinite
<1>10. Cardinality(S) = Cardinality(T)
  BY <1>8, <1>9, FS_Bijection DEF ExistsBijection
<1> QED
  BY <1>10 DEF TotalClaimsPower, StakeOf

\* Every unit of stake has been claimed with or is still missing.
LEMMA VotedAndUncast ==
  ASSUME NEW p \in Prophecies, IndexesAgree(p), NEW pow
  PROVE  StakeOf(pow, Validators)
           = TotalClaimsPower(p, pow) + StakeOf(pow, Supporters(p, EmptyString))
<1> DEFINE silent == Supporters(p, EmptyString)
<1>1. /\ Validators = Voters(p) \cup silent /\ Voters(p) \cap silent = {}
      /\ Voters(p) \in SUBSET Validators /\ silent \in SUBSET Validators
  BY DEF Voters, Supporters
<1>2. StakeOf(pow, Voters(p) \cup silent) = StakeOf(pow, Voters(p)) + StakeOf(pow, silent)
  BY <1>1, StakeOfHalves
<1> QED
  BY <1>1, <1>2, TotalIsStakeOfVoters

\* Two different claims and the silent validators do not share stake.
LEMMA TwoClaimsAndUncast ==
  ASSUME NEW p \in Prophecies, NEW pow, NEW c \in Claims, NEW d \in Claims, c # d
  PROVE  StakeOf(pow, Supporters(p, c)) + StakeOf(pow, Supporters(p, d))
           + StakeOf(pow, Supporters(p, EmptyString)) <= StakeOf(pow, Validators)
<1> DEFINE C == Supporters(p, c)
           D == Supporters(p, d)
           E == Supporters(p, EmptyString)
           R == Validators \ (C \cup D \cup E)
<1>1. /\ C \in SUBSET Validators /\ D \in SUBSET Validators /\ E \in SUBSET Validators
      /\ C \cap D = {} /\ (C \cup D) \cap E = {}
  BY ClaimsAssumption DEF Supporters
<1>2. StakeOf(pow, C \cup D) = StakeOf(pow, C) + StakeOf(pow, D)
  BY <1>1, StakeOfHalves
<1>3. StakeOf(pow, C \cup D \cup E) = StakeOf(pow, C \cup D) + StakeOf(pow, E)
  BY <1>1, StakeOfHalves
<1>4. StakeOf(pow, (C \cup D \cup E) \cup R) = StakeOf(pow, C \cup D \cup E) + StakeOf(pow, R)
  BY <1>1, StakeOfHalves
<1>5. (C \cup D \cup E) \cup R = Validators
  BY <1>1
<1>6. /\ StakeOf(pow, C) \in Nat /\ StakeOf(pow, D) \in Nat /\ StakeOf(pow, E) \in Nat
      /\ StakeOf(pow, R) \in Nat
  BY <1>1, StakeIsNatural
<1> HIDE DEF C, D, E, R
<1>7. StakeOf(pow, Validators)
        = StakeOf(pow, C) + StakeOf(pow, D) + StakeOf(pow, E) + StakeOf(pow, R)
  BY <1>2, <1>3, <1>4, <1>5
<1>8. StakeOf(pow, C) + StakeOf(pow, D) + StakeOf(pow, E) <= StakeOf(pow, Validators)
  BY <1>6, <1>7
<1> QED
  BY <1>8 DEF C, D, E
-----------------------------------------------------------------------------
\* Of the numbers of a set there is a least one.
LEMMA LeastNumber ==
  ASSUME NEW T \in SUBSET Nat, T # {}
  PROVE  \E k \in T : \A j \in Nat : j < k => j \notin T
<1> DEFINE R == OpToRel(<, Nat)
<1>1. PICK k \in T : \A j \in T : ~(<<j, k>> \in R)
  <2> HIDE DEF R
  <2>1. IsWellFoundedOn(R, Nat)
    BY NatLessThanWellFounded DEF R
  <2> QED
    BY <2>1, WFMin
<1>2. \A j \in Nat : j < k => <<j, k>> \in R
  BY DEF OpToRel
<1> QED
  BY <1>1, <1>2

\* A claim that has been made has been made by somebody.
LEMMA MadeBySomebody ==
  ASSUME NEW p \in Prophecies, IndexesAgree(p), NEW c \in ClaimsMade(p)
  PROVE  c \in Claims /\ \E v \in Validators : p.validatorClaims[v] = c
<1> DEFINE list == p.claimValidators[c]
<1>1. c \in ClaimStrings /\ list # << >> /\ list \in Seq(Validators)
  BY DEF ClaimsMade, Prophecies
<1>2. c # EmptyString
  BY <1>1 DEF IndexesAgree
<1>3. 1 \in DOMAIN list /\ list[1] \in Validators
  <2> HIDE DEF list
  <2>1. Len(list) \in Nat \ {0} /\ DOMAIN list = 1..Len(list)
    BY <1>1
  <2>2. 1 \in 1..Len(list)
    BY <2>1
  <2> QED
    BY <1>1, <2>1, <2>2
<1>4. p.validatorClaims[list[1]] = c
  BY <1>1, <1>3 DEF IndexesAgree
<1> QED
  BY <1>1, <1>2, <1>3, <1>4 DEF ClaimStrings

\* Among the claims that have been made there is a highest.
LEMMA SomeClaimIsHighest ==
  ASSUME NEW p \in Prophecies, NEW pow, ClaimsMade(p) # {}
  PROVE  FindHighestClaim(p, pow) # {}
<1> DEFINE n       == TotalClaimsPower(p, pow)
           have(c) == ClaimPower(p, pow, c)
           T       == {k \in Nat : \E c \in ClaimsMade(p) : k = n - have(c)}
<1>1. n \in Nat /\ \A c : have(c) \in Nat
  BY TalliesAreNatural
<1>2. \A c : have(c) <= n
  <2> SUFFICES ASSUME NEW c PROVE have(c) <= n
    OBVIOUS
  <2>1. UnitsOf(p, pow, {e \in Entries(p) : e[1] = c}) \subseteq UnitsOf(p, pow, Entries(p))
    BY DEF UnitsOf
  <2> QED
    BY <2>1, UnitsFinite, FS_Subset DEF ClaimPower, TotalClaimsPower
<1> HIDE DEF n, have
<1>3. T \in SUBSET Nat /\ T # {}
  <2>1. PICK c : c \in ClaimsMade(p)
    OBVIOUS
  <2>2. n - have(c) \in Nat
    BY <1>1, <1>2
  <2> QED
    BY <2>1, <2>2
<1>4. PICK k \in T : \A j \in Nat : j < k => j \notin T
  <2> HIDE DEF T
  <2> QED
    BY <1>3, LeastNumber
<1>5. PICK c \in ClaimsMade(p) : k = n - have(c)
  BY <1>4
<1>6. \A d \in ClaimsMade(p) : have(d) <= have(c)
  <2> SUFFICES ASSUME NEW d \in ClaimsMade(p), ~(have(d) <= have(c)) PROVE FALSE
    OBVIOUS
  <2>1. n - have(d) \in Nat /\ n - have(d) < k
    BY <1>1, <1>2, <1>5
  <2>2. n - have(d) \in T
    BY <2>1
  <2> QED
    BY <1>4, <2>1, <2>2
<1>7. c \in FindHighestClaim(p, pow)
  BY <1>5, <1>6 DEF FindHighestClaim, have
<1> QED
  BY <1>7
=============================================================================
