--------------------------- MODULE Genesis_proofs ---------------------------
(***************************************************************************)
(* Exports and restarts lose nothing of an account, every file starts a    *)
(* chain, account numbers identify, and no height is of the future: for    *)
(* every set of accounts and validators and all arguments of the commands. *)
(* No command, message, fee, block, export or restart loses stake or makes *)
(* it but for a payment of the bridge, and what a vesting account has      *)
(* delegated is what it keeps book of.                                     *)
(***************************************************************************)
EXTENDS Genesis, Sums_proofs, SequenceTheorems

-----------------------------------------------------------------------------
(* Accounts: what they hold of the stake, and what they have written down   *)
(* as delegated.                                                            *)

StakeOf(acc) == acc.coins[BondDenom]

BookOf(acc) == acc.delegatedFree + acc.delegatedVesting

\* No coins are coins.
LEMMA NoCoinsType == NoCoins \in Coins
BY DEF NoCoins, Coins

\* A base account is an account, and a sound one.
LEMMA BaseAccountType ==
  ASSUME NEW coins \in Coins
  PROVE  BaseAccount(coins) \in ChainAccounts /\ Sound(BaseAccount(coins))
BY NoCoinsType DEF BaseAccount, ChainAccounts, Sound

\* An account written to a file is an entry of one.
LEMMA FileAccountType ==
  ASSUME NEW a \in Addresses, NEW acc \in ChainAccounts
  PROVE  NewGenesisAccountI(a, acc) \in FileAccounts
BY DEF NewGenesisAccountI, ChainAccounts, FileAccounts

\* What can be read as an account at all is read as a sound one.
LEMMA ToAccountType ==
  ASSUME NEW g \in FileAccounts, KindOf(g) # "panic"
  PROVE  ToAccount(g) \in ChainAccounts /\ Sound(ToAccount(g))
<1>1. BaseOf(g) \in ChainAccounts /\ Sound(BaseOf(g))
  <2>1. g.coins \in Coins /\ g.sequence \in Nat /\ g.number \in Nat
    BY DEF FileAccounts
  <2> QED
    BY <2>1, NoCoinsType DEF BaseOf, BaseAccount, ChainAccounts, Sound
<1>2. CASE KindOf(g) = "base"
  BY <1>1, <1>2 DEF ToAccount
<1>3. CASE KindOf(g) # "base"
  <2>1. /\ g.original # NoCoins /\ g.end # 0
        /\ KindOf(g) = IF g.start # 0 THEN "continuous" ELSE "delayed"
    BY <1>3 DEF KindOf
  <2>2. ToAccount(g) = [BaseOf(g) EXCEPT !.kind = KindOf(g), !.original = g.original,
                          !.delegatedFree = g.delegatedFree,
                          !.delegatedVesting = g.delegatedVesting,
                          !.start = g.start, !.end = g.end]
    BY <1>3 DEF ToAccount
  <2>3. /\ g.original \in Coins /\ g.delegatedFree \in Nat /\ g.delegatedVesting \in Nat
        /\ g.start \in Nat /\ g.end \in Nat
    BY DEF FileAccounts
  <2> QED
    BY <1>1, <2>1, <2>2, <2>3 DEF ChainAccounts, Sound
<1> QED
  BY <1>2, <1>3

\* Reading an account keeps its coins, and its books if it vests.
LEMMA ToAccountParts ==
  ASSUME NEW g \in FileAccounts
  PROVE  /\ ToAccount(g).coins = g.coins /\ ToAccount(g).kind = KindOf(g)
         /\ KindOf(g) # "base" => BookOf(ToAccount(g)) = BookOf(g)
BY DEF ToAccount, BaseOf, BaseAccount, FileAccounts, BookOf

\* A sound account survives being written to a file and read back.
LEMMA RoundTrip ==
  ASSUME NEW a, NEW acc \in ChainAccounts, Sound(acc)
  PROVE  /\ KindOf(NewGenesisAccountI(a, acc)) # "panic"
         /\ ToAccount(NewGenesisAccountI(a, acc)) = acc
<1> DEFINE g == NewGenesisAccountI(a, acc)
<1>1. KindOf(g) = acc.kind
  BY DEF NewGenesisAccountI, KindOf, Sound, ChainAccounts
<1>2. acc.kind # "panic"
  BY DEF ChainAccounts
<1>3. ToAccount(g) \in ChainAccounts
  <2>1. BaseOf(g) \in ChainAccounts
    BY NoCoinsType DEF NewGenesisAccountI, BaseOf, BaseAccount, ChainAccounts
  <2> QED
    BY <1>1, <2>1 DEF ToAccount, NewGenesisAccountI, ChainAccounts
<1>4. /\ ToAccount(g).kind = acc.kind /\ ToAccount(g).coins = acc.coins
      /\ ToAccount(g).sequence = acc.sequence /\ ToAccount(g).number = acc.number
      /\ ToAccount(g).original = acc.original
      /\ ToAccount(g).delegatedFree = acc.delegatedFree
      /\ ToAccount(g).delegatedVesting = acc.delegatedVesting
      /\ ToAccount(g).start = acc.start /\ ToAccount(g).end = acc.end
  BY <1>1 DEF ToAccount, NewGenesisAccountI, BaseOf, BaseAccount, Sound, ChainAccounts
<1>5. ToAccount(g) = acc
  BY <1>3, <1>4 DEF ChainAccounts
<1> QED
  BY <1>1, <1>2, <1>5

-----------------------------------------------------------------------------
(* The invariant.  The numbers given out are below the next one; the        *)
(* heights of a file for height zero are zero; and the file, since an       *)
(* export, holds what was exported.                                         *)

Files == [accounts : Seq(FileAccounts), staking : StakingStates, fees : Coins, minted : Coins,
          fresh : BOOLEAN]

ChainsOf(S) ==
  [accounts : [S -> ChainAccounts], nextNumber : Nat, staking : StakingStates, fees : Coins,
   minted : Coins, height : Nat, fresh : BOOLEAN]

FileOK(f) ==
  /\ f \in Files
  /\ ~Panics(f.accounts)
  /\ \A i, j \in DOMAIN f.accounts : f.accounts[i].address = f.accounts[j].address => i = j
  /\ f.fresh => \A a \in Addresses : f.staking.unbonding[a].creationHeight = 0

ChainOK(c) ==
  /\ DOMAIN c.accounts \subseteq Addresses
  /\ c \in ChainsOf(DOMAIN c.accounts)
  /\ \A a \in DOMAIN c.accounts : Sound(c.accounts[a])
  /\ \A a \in DOMAIN c.accounts : c.accounts[a].number < c.nextNumber
  /\ \A a, b \in DOMAIN c.accounts : c.accounts[a].number = c.accounts[b].number => a = b
  /\ c.fresh => \A a \in Addresses : c.staking.unbonding[a].creationHeight <= c.height

Holds(accounts, saved) ==
  \A a \in DOMAIN saved :
    /\ saved[a] \in ChainAccounts /\ Sound(saved[a])
    /\ \E i \in DOMAIN accounts : accounts[i] = NewGenesisAccountI(a, saved[a])

GenesisInv ==
  /\ file # None => FileOK(file)
  /\ chain # None => ChainOK(chain)
  /\ file # None => Holds(file.accounts, exported)

\* No stake is a staking state.
LEMMA NoStakeType == NoStake \in StakingStates
BY DEF NoStake, StakingStates, NotUnbonding

\* The new file has one entry more, of a kind that can be read back, with the coins
\* asked for and nothing delegated, and the pool is told.
Adds(f, x, g, new) ==
  /\ g.address = x.address /\ KindOf(g) # "panic"
  /\ g.coins = x.coins /\ BookOf(g) = 0
  /\ new = [f EXCEPT !.staking.notBonded = @ + x.coins[BondDenom],
                     !.accounts = Append(@, g)]

\* A command that succeeds appends one account, of an address not there before.
LEMMA AddedAccount ==
  ASSUME NEW f \in Files, NEW x \in Additions, ~addGenesisAccount(f, x).failed
  PROVE  /\ x.address \in Addresses \ AddressesOf(f.accounts)
         /\ \E g \in FileAccounts : Adds(f, x, g, addGenesisAccount(f, x).state)
<1>1. /\ x.address \in Addresses /\ x.coins \in Coins /\ x.vestingAmt \in Coins
      /\ x.vestingStart \in Nat /\ x.vestingEnd \in Nat
  BY AdditionsAssumption
<1>2. x.address \notin AddressesOf(f.accounts)
  BY DEF addGenesisAccount
<1> DEFINE base == BaseAccount(x.coins)
           raised == [f EXCEPT !.staking.notBonded = @ + x.coins[BondDenom]]
           vested == [base EXCEPT
                        !.kind = IF x.vestingStart # 0 THEN "continuous" ELSE "delayed",
                        !.original = x.vestingAmt,
                        !.start = x.vestingStart, !.end = x.vestingEnd]
           With(acc) == [raised EXCEPT !.accounts =
                           Append(@, NewGenesisAccountI(x.address, acc))]
<1>3. ASSUME NEW acc \in ChainAccounts, Sound(acc), addGenesisAccount(f, x).state = With(acc),
             acc.coins = x.coins, acc.delegatedFree = 0, acc.delegatedVesting = 0
      PROVE  \E g \in FileAccounts : Adds(f, x, g, addGenesisAccount(f, x).state)
  <2> DEFINE g == NewGenesisAccountI(x.address, acc)
  <2>1. g \in FileAccounts /\ KindOf(g) # "panic"
    BY <1>1, <1>3, FileAccountType, RoundTrip
  <2>2. g.address = x.address /\ g.coins = x.coins /\ BookOf(g) = 0
    <3>1. /\ g.address = x.address /\ g.coins = x.coins
          /\ g.delegatedFree = 0 /\ g.delegatedVesting = 0
      BY <1>3 DEF NewGenesisAccountI
    <3> HIDE DEF g
    <3> QED
      BY <3>1 DEF BookOf
  <2>3. With(acc) = [f EXCEPT !.staking.notBonded = @ + x.coins[BondDenom],
                              !.accounts = Append(@, g)]
    BY DEF Files
  <2>4. Adds(f, x, g, addGenesisAccount(f, x).state)
    BY <1>3, <2>1, <2>2, <2>3 DEF Adds
  <2> HIDE DEF g
  <2> QED
    BY <2>1, <2>4
<1>4. CASE x.vestingAmt = NoCoins
  <2>1. addGenesisAccount(f, x).state = With(base)
    BY <1>2, <1>4 DEF addGenesisAccount
  <2>2. /\ base \in ChainAccounts /\ Sound(base) /\ base.coins = x.coins
        /\ base.delegatedFree = 0 /\ base.delegatedVesting = 0
    BY <1>1, BaseAccountType DEF BaseAccount
  <2> HIDE DEF base, With
  <2> QED
    BY <1>1, <1>2, <1>3, <2>1, <2>2
<1>5. CASE x.vestingAmt # NoCoins
  <2>1. ~VestingRefused(x)
    BY <1>2, <1>5 DEF addGenesisAccount
  <2>2. x.vestingEnd # 0
    BY <1>1, <2>1 DEF VestingRefused
  <2>3. /\ base \in ChainAccounts /\ base.coins = x.coins
        /\ base.delegatedFree = 0 /\ base.delegatedVesting = 0
    BY <1>1, BaseAccountType DEF BaseAccount
  <2>4. /\ vested \in ChainAccounts /\ Sound(vested) /\ vested.coins = x.coins
        /\ vested.delegatedFree = 0 /\ vested.delegatedVesting = 0
    BY <1>1, <1>5, <2>2, <2>3 DEF ChainAccounts, Sound
  <2>5. addGenesisAccount(f, x).state = With(vested)
    BY <1>2, <1>5, <2>1 DEF addGenesisAccount
  <2> QED
    BY <1>1, <1>2, <1>3, <2>4, <2>5
<1> QED
  BY <1>4, <1>5

\* What the command does to the entries and to the staking state.
LEMMA AddsOneEntry ==
  ASSUME NEW f \in Files, NEW x \in Additions, NEW g \in FileAccounts, NEW new,
         Adds(f, x, g, new)
  PROVE  /\ new \in Files /\ new.fresh = f.fresh
         /\ new.fees = f.fees /\ new.minted = f.minted
         /\ Len(f.accounts) \in Nat /\ DOMAIN f.accounts = 1..Len(f.accounts)
         /\ DOMAIN new.accounts = 1..Len(f.accounts) + 1
         /\ new.accounts[Len(f.accounts) + 1] = g
         /\ \A i \in 1..Len(f.accounts) : new.accounts[i] = f.accounts[i]
         /\ x.coins[BondDenom] \in Nat
         /\ new.staking \in StakingStates
         /\ new.staking.notBonded = f.staking.notBonded + x.coins[BondDenom]
         /\ new.staking.bonded = f.staking.bonded
         /\ new.staking.delegations = f.staking.delegations
         /\ new.staking.unbonding = f.staking.unbonding
<1> DEFINE old == f.accounts
           n == Len(old)
           st == [f.staking EXCEPT !.notBonded = @ + x.coins[BondDenom]]
<1>1. /\ old \in Seq(FileAccounts) /\ f.staking \in StakingStates /\ f.fresh \in BOOLEAN
      /\ f.fees \in Coins /\ f.minted \in Coins
      /\ new.accounts = Append(old, g) /\ new.staking = st /\ new.fresh = f.fresh
      /\ new.fees = f.fees /\ new.minted = f.minted
      /\ new = [accounts |-> new.accounts, staking |-> new.staking, fees |-> new.fees,
                minted |-> new.minted, fresh |-> new.fresh]
  BY DEF Files, Adds
<1>2. x.coins[BondDenom] \in Nat
  BY AdditionsAssumption DEF Coins
<1>3. /\ st \in StakingStates /\ st.notBonded = f.staking.notBonded + x.coins[BondDenom]
      /\ st.bonded = f.staking.bonded /\ st.delegations = f.staking.delegations
      /\ st.unbonding = f.staking.unbonding
  <2> DEFINE s == f.staking
             m == s.notBonded + x.coins[BondDenom]
  <2>1. s \in StakingStates
    BY <1>1
  <2>2. s.notBonded \in Int
    BY <2>1 DEF StakingStates
  <2>3. m \in Int
    BY <1>2, <2>2
  <2>4. st = [s EXCEPT !.notBonded = m]
    OBVIOUS
  <2> HIDE DEF m, st, s
  <2>5. /\ st \in StakingStates /\ st.notBonded = m
        /\ st.bonded = s.bonded /\ st.delegations = s.delegations
        /\ st.unbonding = s.unbonding
    BY <2>1, <2>3, <2>4 DEF StakingStates
  <2> QED
    BY <2>5 DEF m, s
<1>4. /\ n \in Nat /\ DOMAIN old = 1..n
      /\ new.accounts \in Seq(FileAccounts) /\ DOMAIN new.accounts = 1..n + 1
      /\ new.accounts[n + 1] = g
      /\ \A i \in 1..n : new.accounts[i] = old[i]
  BY <1>1
<1> HIDE DEF st
<1>5. new \in Files
  BY <1>1, <1>3, <1>4 DEF Files
<1> QED
  BY <1>1, <1>2, <1>3, <1>4, <1>5

\* A chain has every account of its file, sound, with the index of its entry for a
\* number.
LEMMA LoadedType ==
  ASSUME NEW accounts \in Seq(FileAccounts), ~Panics(accounts)
  PROVE  /\ AddressesOf(accounts) \subseteq Addresses
         /\ Loaded(accounts) \in [AddressesOf(accounts) -> ChainAccounts]
         /\ \A a \in AddressesOf(accounts) :
              /\ Sound(Loaded(accounts)[a])
              /\ \E i \in DOMAIN accounts :
                   /\ accounts[i].address = a
                   /\ Loaded(accounts)[a] = [ToAccount(accounts[i]) EXCEPT !.number = i - 1]
<1>1. \A i \in DOMAIN accounts :
        /\ accounts[i] \in FileAccounts /\ accounts[i].address \in Addresses
        /\ i \in Nat /\ i - 1 \in Nat /\ KindOf(accounts[i]) # "panic"
  <2>1. \A i \in DOMAIN accounts : accounts[i] \in FileAccounts /\ i \in Nat /\ i - 1 \in Nat
    OBVIOUS
  <2>2. \A g \in FileAccounts : g.address \in Addresses
    BY DEF FileAccounts
  <2>3. \A i \in DOMAIN accounts : KindOf(accounts[i]) # "panic"
    BY DEF Panics
  <2> QED
    BY <2>1, <2>2, <2>3
<1>2. AddressesOf(accounts) \subseteq Addresses
  BY <1>1 DEF AddressesOf
<1>3. ASSUME NEW a \in AddressesOf(accounts)
      PROVE  /\ Loaded(accounts)[a] \in ChainAccounts /\ Sound(Loaded(accounts)[a])
             /\ \E i \in DOMAIN accounts :
                  /\ accounts[i].address = a
                  /\ Loaded(accounts)[a] = [ToAccount(accounts[i]) EXCEPT !.number = i - 1]
  <2> DEFINE i == CHOOSE i \in DOMAIN accounts : accounts[i].address = a
  <2>1. i \in DOMAIN accounts /\ accounts[i].address = a
    BY DEF AddressesOf
  <2>2. Loaded(accounts)[a] = [ToAccount(accounts[i]) EXCEPT !.number = i - 1]
    BY DEF Loaded
  <2>3. ToAccount(accounts[i]) \in ChainAccounts /\ Sound(ToAccount(accounts[i]))
    BY <1>1, <2>1, ToAccountType
  <2> HIDE DEF i
  <2>4. Loaded(accounts)[a] \in ChainAccounts /\ Sound(Loaded(accounts)[a])
    BY <1>1, <2>1, <2>2, <2>3 DEF ChainAccounts, Sound
  <2> QED
    BY <2>1, <2>2, <2>4
<1>4. Loaded(accounts) \in [AddressesOf(accounts) -> ChainAccounts]
  BY <1>3 DEF Loaded
<1> QED
  BY <1>2, <1>3, <1>4

\* IterateAccounts visits every account once.
LEMMA OrderVisitsAll ==
  ASSUME NEW S \in SUBSET Addresses, NEW order \in IteratedOrders(S)
  PROVE  /\ Cardinality(S) \in Nat
         /\ order \in [1..Cardinality(S) -> S]
         /\ \A i, j \in 1..Cardinality(S) : order[i] = order[j] => i = j
         /\ \A a \in S : \E i \in 1..Cardinality(S) : order[i] = a
<1> DEFINE n == Cardinality(S)
<1>1. IsFiniteSet(S) /\ n \in Nat
  BY AddressesAssumption, FS_Subset, FS_CardinalityType
<1>2. order \in [1..n -> S] /\ \A i, j \in 1..n : i < j => order[i] < order[j]
  BY DEF IteratedOrders
<1>3. \A i, j \in 1..n : order[i] = order[j] => i = j
  <2>1. \A i \in 1..n : order[i] \in Nat
    BY <1>2, AddressesAssumption
  <2> QED
    BY <1>1, <1>2, <2>1
<1>4. order \in Injection(1..n, S)
  BY <1>2, <1>3 DEF Injection, IsInjective
<1>5. Cardinality(1..n) = n
  BY <1>1, FS_Interval
<1>6. order \in Surjection(1..n, S)
  BY <1>1, <1>4, <1>5, FS_Injection
<1> QED
  BY <1>1, <1>2, <1>3, <1>6 DEF Surjection

-----------------------------------------------------------------------------
(* The commands and the two ways between a file and a chain.                *)

\* Before the first command there is nothing to be out of order.
LEMMA GenesisInvInit == Init => GenesisInv
BY DEF Init, GenesisInv, Holds, NoAccounts

\* A new file has no accounts and no unbonding.
LEMMA InitCmdKeeps ==
  ASSUME GenesisInv, NEW overwrite \in BOOLEAN, InitCmd(overwrite)
  PROVE  GenesisInv'
<1>1. file' = [accounts |-> << >>, staking |-> NoStake, fees |-> NoCoins, minted |-> NoCoins,
               fresh |-> TRUE]
  BY DEF InitCmd
<1>2. << >> \in Seq(FileAccounts) /\ DOMAIN << >> = {}
  OBVIOUS
<1>3. ~Panics(<< >>)
  BY <1>2 DEF Panics
<1>4. \A a \in Addresses : NoStake.unbonding[a].creationHeight = 0
  BY DEF NoStake, NotUnbonding
<1>5. FileOK(file')
  <2>1. file' \in Files
    BY <1>1, <1>2, NoStakeType, NoCoinsType DEF Files
  <2> QED
    BY <1>1, <1>2, <1>3, <1>4, <2>1 DEF FileOK
<1>6. exported' = NoAccounts /\ Holds(file'.accounts, exported')
  BY DEF InitCmd, Holds, NoAccounts
<1> QED
  BY <1>5, <1>6 DEF GenesisInv, InitCmd

\* An added account has an address of its own and can be read back.
LEMMA AddGenesisAccountKeeps ==
  ASSUME GenesisInv, NEW x \in Additions, AddGenesisAccountCmd(x)
  PROVE  GenesisInv'
<1>1. /\ FileOK(file) /\ Holds(file.accounts, exported) /\ file # None
      /\ ~addGenesisAccount(file, x).failed /\ file' = addGenesisAccount(file, x).state
  BY DEF GenesisInv, AddGenesisAccountCmd
<1>2. file \in Files
  BY <1>1 DEF FileOK
<1>3. x.address \notin AddressesOf(file.accounts)
  BY <1>1, <1>2, AddedAccount
<1>4. PICK g \in FileAccounts : Adds(file, x, g, file')
  BY <1>1, <1>2, AddedAccount
<1> DEFINE old == file.accounts
           n == Len(old)
<1>5. /\ file' \in Files /\ file'.staking \in StakingStates
      /\ file'.staking.unbonding = file.staking.unbonding /\ file'.fresh = file.fresh
      /\ n \in Nat /\ DOMAIN old = 1..n /\ DOMAIN file'.accounts = 1..n + 1
      /\ file'.accounts[n + 1] = g
      /\ \A i \in 1..n : file'.accounts[i] = old[i]
  BY <1>2, <1>4, AddsOneEntry
<1>6. g.address = x.address /\ KindOf(g) # "panic"
  BY <1>4 DEF Adds
<1>10. ~Panics(file'.accounts)
  BY <1>1, <1>5, <1>6 DEF Panics, FileOK
<1>11. \A i, j \in DOMAIN file'.accounts :
         file'.accounts[i].address = file'.accounts[j].address => i = j
  <2>1. \A i \in 1..n : old[i].address # x.address
    BY <1>3, <1>5 DEF AddressesOf
  <2>2. \A i, j \in 1..n : old[i].address = old[j].address => i = j
    BY <1>1, <1>5 DEF FileOK
  <2> HIDE DEF n, old
  <2> QED
    BY <1>5, <1>6, <2>1, <2>2
<1>12. FileOK(file')
  BY <1>1, <1>5, <1>10, <1>11 DEF FileOK
<1>13. Holds(file'.accounts, exported)
  <2> HIDE DEF n, old
  <2>1. \A i \in 1..n : i \in 1..(n + 1)
    BY <1>5
  <2> QED
    BY <1>1, <1>5, <2>1 DEF Holds, old
<1> QED
  BY <1>1, <1>12, <1>13 DEF GenesisInv, AddGenesisAccountCmd

\* A chain numbers its accounts by their place in the file.
LEMMA InitChainerKeeps ==
  ASSUME GenesisInv, initFromGenesisState
  PROVE  GenesisInv'
<1> DEFINE accounts == file.accounts
           S == AddressesOf(accounts)
<1>1. FileOK(file) /\ file # None /\ ~Panics(accounts)
  BY DEF GenesisInv, initFromGenesisState
<1>2. /\ accounts \in Seq(FileAccounts) /\ Len(accounts) \in Nat
      /\ file.staking \in StakingStates /\ file.fresh \in BOOLEAN
      /\ file.fees \in Coins /\ file.minted \in Coins
  BY <1>1 DEF FileOK, Files
<1>3. chain' = [accounts |-> Loaded(accounts), nextNumber |-> Len(accounts),
                staking |-> file.staking, fees |-> file.fees, minted |-> file.minted,
                height |-> 0, fresh |-> file.fresh]
  BY DEF initFromGenesisState
<1>4. /\ S \subseteq Addresses
      /\ chain'.accounts \in [S -> ChainAccounts] /\ DOMAIN chain'.accounts = S
  BY <1>1, <1>2, <1>3, LoadedType
<1>5. \A a \in S : /\ Sound(chain'.accounts[a])
                   /\ \E i \in 1..Len(accounts) :
                        accounts[i].address = a /\ chain'.accounts[a].number = i - 1
  <2> SUFFICES ASSUME NEW a \in S
               PROVE  /\ Sound(chain'.accounts[a])
                      /\ \E i \in 1..Len(accounts) :
                           accounts[i].address = a /\ chain'.accounts[a].number = i - 1
    OBVIOUS
  <2>1. PICK i \in DOMAIN accounts :
          /\ accounts[i].address = a
          /\ chain'.accounts[a] = [ToAccount(accounts[i]) EXCEPT !.number = i - 1]
    <3>1. chain'.accounts = Loaded(accounts)
      BY <1>3
    <3>2. \E i \in DOMAIN accounts :
            /\ accounts[i].address = a
            /\ Loaded(accounts)[a] = [ToAccount(accounts[i]) EXCEPT !.number = i - 1]
      <4> HIDE DEF accounts
      <4> QED
        BY <1>1, <1>2, LoadedType
    <3> QED
      BY <3>1, <3>2
  <2>2. accounts[i] \in FileAccounts /\ KindOf(accounts[i]) # "panic"
    BY <1>1, <1>2 DEF Panics
  <2>3. ToAccount(accounts[i]) \in ChainAccounts
    BY <2>2, ToAccountType
  <2>4. chain'.accounts[a].number = i - 1
    BY <2>1, <2>3 DEF ChainAccounts
  <2>5. Sound(chain'.accounts[a])
    BY <1>1, <1>2, <1>3, LoadedType
  <2> QED
    BY <1>2, <2>1, <2>4, <2>5
<1>6. /\ chain'.nextNumber = Len(accounts) /\ chain'.staking = file.staking
      /\ chain'.height = 0 /\ chain'.fresh = file.fresh
  BY <1>3
<1> HIDE DEF S, accounts
<1>7. chain' \in ChainsOf(S)
  BY <1>2, <1>3, <1>4 DEF ChainsOf
<1>8. \A a \in S : chain'.accounts[a].number < chain'.nextNumber
  BY <1>2, <1>5, <1>6
<1>9. \A a, b \in S : chain'.accounts[a].number = chain'.accounts[b].number => a = b
  <2> SUFFICES ASSUME NEW a \in S, NEW b \in S,
                      chain'.accounts[a].number = chain'.accounts[b].number
               PROVE  a = b
    OBVIOUS
  <2>1. PICK i \in 1..Len(accounts) :
          accounts[i].address = a /\ chain'.accounts[a].number = i - 1
    BY <1>5
  <2>2. PICK j \in 1..Len(accounts) :
          accounts[j].address = b /\ chain'.accounts[b].number = j - 1
    BY <1>5
  <2>3. i = j
    <3>1. i \in Int /\ j \in Int
      OBVIOUS
    <3>2. i - 1 = j - 1
      BY <2>1, <2>2
    <3> QED
      BY <3>1, <3>2
  <2> QED
    BY <2>1, <2>2, <2>3
<1>10. chain'.fresh =>
         \A a \in Addresses : chain'.staking.unbonding[a].creationHeight <= chain'.height
  BY <1>1, <1>6 DEF FileOK
<1>11. ChainOK(chain')
  BY <1>4, <1>5, <1>7, <1>8, <1>9, <1>10 DEF ChainOK
<1> QED
  BY <1>11 DEF GenesisInv, initFromGenesisState

\* An export starts from a chain in order, and leaves a file in order that holds
\* what it exported.
LEMMA ExportKeeps ==
  ASSUME GenesisInv, NEW forZeroHeight \in BOOLEAN, NEW whiteList \in SUBSET Validators,
         ExportAppStateAndValidators(forZeroHeight, whiteList)
  PROVE  GenesisInv'
<1> DEFINE S == DOMAIN chain.accounts
           n == Cardinality(S)
<1>1. ChainOK(chain) /\ UNCHANGED chain /\ exported' = chain.accounts
  BY DEF GenesisInv, ExportAppStateAndValidators
<1>2. /\ S \in SUBSET Addresses /\ chain.staking \in StakingStates
      /\ chain.fees \in Coins /\ chain.minted \in Coins
      /\ \A a \in S : chain.accounts[a] \in ChainAccounts /\ Sound(chain.accounts[a])
  BY <1>1 DEF ChainOK, ChainsOf
<1>3. PICK order \in IteratedOrders(S) :
        file' = [accounts |-> [i \in DOMAIN order |->
                                 NewGenesisAccountI(order[i], chain.accounts[order[i]])],
                 staking  |-> IF forZeroHeight THEN ZeroHeights(chain.staking)
                              ELSE chain.staking,
                 fees     |-> chain.fees,
                 minted   |-> chain.minted,
                 fresh    |-> forZeroHeight]
  BY DEF ExportAppStateAndValidators
<1>4. /\ n \in Nat /\ order \in [1..n -> S]
      /\ \A i, j \in 1..n : order[i] = order[j] => i = j
      /\ \A a \in S : \E i \in 1..n : order[i] = a
  BY <1>2, OrderVisitsAll
<1> DEFINE entries == [i \in 1..n |-> NewGenesisAccountI(order[i], chain.accounts[order[i]])]
<1>5. /\ file'.accounts = entries /\ file'.fresh = forZeroHeight
      /\ file'.staking = IF forZeroHeight THEN ZeroHeights(chain.staking) ELSE chain.staking
      /\ file'.fees = chain.fees /\ file'.minted = chain.minted
      /\ file' = [accounts |-> file'.accounts, staking |-> file'.staking, fees |-> file'.fees,
                  minted |-> file'.minted, fresh |-> file'.fresh]
  BY <1>3, <1>4
<1>6. ASSUME NEW i \in 1..n
      PROVE  /\ order[i] \in S /\ entries[i] = NewGenesisAccountI(order[i], chain.accounts[order[i]])
             /\ entries[i] \in FileAccounts /\ entries[i].address = order[i]
             /\ KindOf(entries[i]) # "panic"
  <2>1. /\ order[i] \in S /\ order[i] \in Addresses
        /\ entries[i] = NewGenesisAccountI(order[i], chain.accounts[order[i]])
    BY <1>2, <1>4
  <2>2. entries[i] \in FileAccounts /\ KindOf(entries[i]) # "panic"
    BY <1>2, <2>1, FileAccountType, RoundTrip
  <2>3. entries[i].address = order[i]
    BY <2>1 DEF NewGenesisAccountI
  <2> QED
    BY <2>1, <2>2, <2>3
<1>7. entries \in Seq(FileAccounts) /\ DOMAIN entries = 1..n
  <2>1. entries \in [1..n -> FileAccounts]
    BY <1>6
  <2> HIDE DEF entries
  <2> QED
    BY <1>4, <2>1, SeqDef
<1>8. ZeroHeights(chain.staking) \in StakingStates
  <2> DEFINE old == chain.staking.unbonding
             unbonding == [a \in Addresses |-> [old[a] EXCEPT !.creationHeight = 0]]
  <2>1. old \in [Addresses -> [amount : Nat, creationHeight : Nat]]
    BY <1>2 DEF StakingStates
  <2>2. unbonding \in [Addresses -> [amount : Nat, creationHeight : Nat]]
    BY <2>1
  <2>3. ZeroHeights(chain.staking) = [chain.staking EXCEPT !.unbonding = unbonding]
    BY <1>2 DEF ZeroHeights, StakingStates
  <2> HIDE DEF unbonding
  <2> QED
    BY <1>2, <2>2, <2>3 DEF StakingStates
<1>9. \A a \in Addresses : ZeroHeights(chain.staking).unbonding[a].creationHeight = 0
  BY <1>2 DEF ZeroHeights, StakingStates
<1> HIDE DEF entries
<1>10. FileOK(file')
  <2>1. file' \in Files
    BY <1>2, <1>5, <1>7, <1>8 DEF Files
  <2>2. ~Panics(file'.accounts)
    BY <1>5, <1>6, <1>7 DEF Panics
  <2>3. \A i, j \in DOMAIN file'.accounts :
          file'.accounts[i].address = file'.accounts[j].address => i = j
    BY <1>4, <1>5, <1>6, <1>7
  <2> QED
    BY <1>5, <1>9, <2>1, <2>2, <2>3 DEF FileOK
<1>11. Holds(file'.accounts, chain.accounts)
  <2> SUFFICES ASSUME NEW a \in S
               PROVE  \E i \in DOMAIN entries :
                        entries[i] = NewGenesisAccountI(a, chain.accounts[a])
    BY <1>2, <1>5 DEF Holds
  <2>1. PICK i \in 1..n : order[i] = a
    BY <1>4
  <2> QED
    BY <1>6, <1>7, <2>1
<1> QED
  BY <1>1, <1>10, <1>11 DEF GenesisInv

-----------------------------------------------------------------------------
(* A chain at work.                                                         *)

\* A vesting account writes down all that it delegates.
LEMMA TrackDelegationType ==
  ASSUME NEW acc \in ChainAccounts, Sound(acc), NEW amount \in Nat, NEW vesting \in Nat
  PROVE  /\ TrackDelegation(acc, amount, vesting) \in ChainAccounts
         /\ Sound(TrackDelegation(acc, amount, vesting))
         /\ TrackDelegation(acc, amount, vesting).number = acc.number
         /\ TrackDelegation(acc, amount, vesting).coins = acc.coins
         /\ TrackDelegation(acc, amount, vesting).sequence = acc.sequence
         /\ TrackDelegation(acc, amount, vesting).kind = acc.kind
         /\ acc.kind # "base" =>
              BookOf(TrackDelegation(acc, amount, vesting)) = BookOf(acc) + amount
<1> DEFINE ofVesting == IF vesting <= acc.delegatedVesting THEN 0
                        ELSE Least(vesting - acc.delegatedVesting, amount)
<1>1. acc.delegatedVesting \in Nat /\ acc.delegatedFree \in Nat
  BY DEF ChainAccounts
<1>2. ofVesting \in Nat /\ amount - ofVesting \in Nat
  BY <1>1 DEF Least
<1>3. TrackDelegation(acc, amount, vesting) =
        IF acc.kind = "base" THEN acc
        ELSE [acc EXCEPT !.delegatedVesting = @ + ofVesting,
                         !.delegatedFree = @ + (amount - ofVesting)]
  BY DEF TrackDelegation
<1> HIDE DEF ofVesting
<1>4. CASE acc.kind = "base"
  BY <1>3, <1>4
<1>5. CASE acc.kind # "base"
  <2> DEFINE dv == acc.delegatedVesting + ofVesting
             df == acc.delegatedFree + (amount - ofVesting)
  <2>1. dv \in Nat /\ df \in Nat
    BY <1>1, <1>2
  <2>2. TrackDelegation(acc, amount, vesting) =
          [acc EXCEPT !.delegatedVesting = dv, !.delegatedFree = df]
    BY <1>3, <1>5 DEF ChainAccounts
  <2>3. df + dv = (acc.delegatedFree + acc.delegatedVesting) + amount
    BY <1>1, <1>2
  <2> HIDE DEF dv, df
  <2>4. BookOf(TrackDelegation(acc, amount, vesting)) = BookOf(acc) + amount
    BY <2>2, <2>3 DEF BookOf, ChainAccounts
  <2> QED
    BY <1>5, <2>1, <2>2, <2>4 DEF ChainAccounts, Sound
<1> QED
  BY <1>4, <1>5

\* An account strikes out what comes back, as far as it has written it down.
LEMMA TrackUndelegationType ==
  ASSUME NEW acc \in ChainAccounts, Sound(acc), NEW amount \in Nat
  PROVE  /\ TrackUndelegation(acc, amount) \in ChainAccounts
         /\ Sound(TrackUndelegation(acc, amount))
         /\ TrackUndelegation(acc, amount).number = acc.number
         /\ TrackUndelegation(acc, amount).coins = acc.coins
         /\ TrackUndelegation(acc, amount).kind = acc.kind
         /\ amount <= BookOf(acc) => BookOf(TrackUndelegation(acc, amount)) = BookOf(acc) - amount
<1> DEFINE ofFree == Least(acc.delegatedFree, amount)
           ofVesting == Least(acc.delegatedVesting, amount - ofFree)
<1>1. acc.delegatedVesting \in Nat /\ acc.delegatedFree \in Nat
  BY DEF ChainAccounts
<1>2. /\ ofFree \in Nat /\ acc.delegatedFree - ofFree \in Nat
      /\ ofVesting \in Nat /\ acc.delegatedVesting - ofVesting \in Nat
  BY <1>1 DEF Least
<1>3. acc.kind = "base" => acc.delegatedFree - ofFree = 0 /\ acc.delegatedVesting - ofVesting = 0
  <2>1. ASSUME acc.kind = "base" PROVE acc.delegatedFree = 0 /\ acc.delegatedVesting = 0
    BY <2>1 DEF Sound
  <2>2. \A n \in Nat : n >= 0 /\ n - 0 = n
    OBVIOUS
  <2>3. acc.delegatedFree = 0 => ofFree = 0
    BY <2>2 DEF Least
  <2>4. acc.delegatedFree = 0 /\ acc.delegatedVesting = 0 => ofVesting = 0
    <3> HIDE DEF ofFree
    <3> QED
      BY <2>2, <2>3 DEF Least
  <2> HIDE DEF ofFree, ofVesting
  <2> QED
    BY <2>1, <2>3, <2>4
<1> DEFINE dv == acc.delegatedVesting - ofVesting
           df == acc.delegatedFree - ofFree
<1>4. TrackUndelegation(acc, amount) =
        [acc EXCEPT !.delegatedVesting = dv, !.delegatedFree = df]
  BY DEF TrackUndelegation, ChainAccounts
<1>9. amount <= BookOf(acc) => df + dv = BookOf(acc) - amount
  <2> SUFFICES ASSUME amount <= acc.delegatedFree + acc.delegatedVesting
               PROVE  df + dv = (acc.delegatedFree + acc.delegatedVesting) - amount
    BY DEF BookOf
  <2>1. CASE acc.delegatedFree <= amount
    <3>1. ofFree = acc.delegatedFree
      BY <2>1 DEF Least
    <3>2. ~(acc.delegatedVesting <= amount - ofFree) \/ acc.delegatedVesting = amount - ofFree
      BY <1>1, <3>1
    <3>3. ofVesting = amount - ofFree
      BY <3>2 DEF Least
    <3> HIDE DEF ofFree, ofVesting
    <3> QED
      BY <1>1, <3>1, <3>3
  <2>2. CASE ~(acc.delegatedFree <= amount)
    <3>1. ofFree = amount
      BY <2>2 DEF Least
    <3>2. amount - ofFree = 0
      BY <3>1
    <3>3. ofVesting = 0
      <4>1. \A n \in Nat : n <= 0 => n = 0
        OBVIOUS
      <4> HIDE DEF ofFree
      <4> QED
        BY <1>1, <3>2, <4>1 DEF Least
    <3> HIDE DEF ofFree, ofVesting
    <3> QED
      BY <1>1, <3>1, <3>3
  <2> QED
    BY <2>1, <2>2
<1> HIDE DEF ofFree, ofVesting
<1>5. dv \in Nat /\ df \in Nat
  BY <1>2
<1>6. acc.kind = "base" => dv = 0 /\ df = 0
  BY <1>3
<1> HIDE DEF dv, df
<1>10. amount <= BookOf(acc) => BookOf(TrackUndelegation(acc, amount)) = BookOf(acc) - amount
  BY <1>4, <1>9 DEF BookOf, ChainAccounts
<1>7. CASE acc.kind = "base"
  BY <1>4, <1>5, <1>6, <1>7, <1>10 DEF ChainAccounts, Sound
<1>8. CASE acc.kind # "base"
  BY <1>4, <1>5, <1>8, <1>10 DEF ChainAccounts, Sound
<1> QED
  BY <1>7, <1>8

\* Coins that are added or taken away are coins, if there are enough.
LEMMA CoinsAddUp ==
  ASSUME NEW x \in Coins, NEW y \in Coins
  PROVE  /\ Plus(x, y) \in Coins
         /\ Plus(x, y)[BondDenom] = x[BondDenom] + y[BondDenom]
         /\ Covers(x, y) => /\ Minus(x, y) \in Coins
                            /\ Minus(x, y)[BondDenom] = x[BondDenom] - y[BondDenom]
BY DEF Plus, Minus, Covers, Coins

HasCoins(new, acc, coins, sequence) ==
  new = [acc EXCEPT !.coins = coins, !.sequence = sequence]

\* An account stays what it is when its coins and its sequence change.
LEMMA WithCoins ==
  ASSUME NEW acc \in ChainAccounts, Sound(acc), NEW coins \in Coins, NEW sequence \in Nat,
         NEW new, HasCoins(new, acc, coins, sequence)
  PROVE  /\ new \in ChainAccounts /\ Sound(new)
         /\ new.number = acc.number /\ new.kind = acc.kind
         /\ BookOf(new) = BookOf(acc) /\ StakeOf(new) = coins[BondDenom]
BY DEF HasCoins, ChainAccounts, Sound, BookOf, StakeOf

\* The account of an address is sound; a new one has the next number and no stake.
LEMMA AccountOfType ==
  ASSUME NEW c, ChainOK(c), NEW a \in Addresses
  PROVE  /\ AccountOf(c, a) \in ChainAccounts /\ Sound(AccountOf(c, a))
         /\ a \in DOMAIN c.accounts => AccountOf(c, a) = c.accounts[a]
         /\ a \notin DOMAIN c.accounts =>
              /\ AccountOf(c, a).number = c.nextNumber
              /\ AccountOf(c, a).kind = "base" /\ StakeOf(AccountOf(c, a)) = 0
<1>1. CASE a \in DOMAIN c.accounts
  BY <1>1 DEF AccountOf, ChainOK, ChainsOf
<1>2. CASE a \notin DOMAIN c.accounts
  <2>1. BaseAccount(NoCoins) \in ChainAccounts /\ Sound(BaseAccount(NoCoins))
    BY BaseAccountType, NoCoinsType
  <2>2. AccountOf(c, a) = [BaseAccount(NoCoins) EXCEPT !.number = c.nextNumber]
    BY <1>2 DEF AccountOf
  <2>3. BaseAccount(NoCoins).kind = "base" /\ BaseAccount(NoCoins).coins[BondDenom] = 0
    BY DEF BaseAccount, NoCoins
  <2>4. c.nextNumber \in Nat
    BY DEF ChainOK, ChainsOf
  <2> QED
    BY <1>2, <2>1, <2>2, <2>3, <2>4 DEF ChainAccounts, Sound, StakeOf
<1> QED
  BY <1>1, <1>2

\* In n the account of a is acc, and the other accounts and the staking state are
\* those of c.
Sets(c, n, a, acc) ==
  /\ n.accounts \in [DOMAIN c.accounts \cup {a} -> ChainAccounts]
  /\ n.accounts[a] = acc
  /\ \A b \in DOMAIN c.accounts : b # a => n.accounts[b] = c.accounts[b]
  /\ n.staking = c.staking /\ n.height = c.height /\ n.fresh = c.fresh

\* Writing an account gives a new one the next number, and leaves the chain in order.
LEMMA SetAccountKeeps ==
  ASSUME NEW c, ChainOK(c), NEW a \in Addresses, NEW acc \in ChainAccounts, Sound(acc),
         acc.number = AccountOf(c, a).number,
         NEW n, n = SetAccount(c, a, acc)
  PROVE  ChainOK(n) /\ Sets(c, n, a, acc) /\ n.fees = c.fees /\ n.minted = c.minted
<1> DEFINE S == DOMAIN c.accounts
           accounts == [b \in S \cup {a} |-> IF b = a THEN acc ELSE c.accounts[b]]
           next == IF a \in S THEN c.nextNumber ELSE c.nextNumber + 1
<1>1. /\ c.accounts \in [S -> ChainAccounts] /\ S \subseteq Addresses
      /\ \A b \in S : Sound(c.accounts[b]) /\ c.accounts[b].number < c.nextNumber
      /\ \A b, d \in S : c.accounts[b].number = c.accounts[d].number => b = d
      /\ c.nextNumber \in Nat
      /\ c \in ChainsOf(S)
  BY DEF ChainOK, ChainsOf
<1>2. n = [c EXCEPT !.accounts = accounts, !.nextNumber = next]
  BY <1>1 DEF SetAccount, ChainsOf
<1>3. acc.number = IF a \in S THEN c.accounts[a].number ELSE c.nextNumber
  BY AccountOfType
<1>4. /\ accounts \in [S \cup {a} -> ChainAccounts] /\ DOMAIN accounts = S \cup {a}
      /\ accounts[a] = acc
      /\ \A b \in S : b # a => accounts[b] = c.accounts[b]
  BY <1>1
<1>5. next \in Nat /\ c.nextNumber <= next
  BY <1>1
<1> HIDE DEF accounts
<1>6. \A b \in S : c.accounts[b].number \in Nat
  BY <1>1 DEF ChainAccounts
<1>7. \A b \in S \cup {a} : Sound(accounts[b]) /\ accounts[b].number < next
  BY <1>1, <1>3, <1>4, <1>6
<1>8. \A b, d \in S \cup {a} : accounts[b].number = accounts[d].number => b = d
  <2>1. \A b \in S : c.accounts[b].number # c.nextNumber
    BY <1>1, <1>6
  <2> QED
    BY <1>1, <1>3, <1>4, <2>1
<1>9. /\ n.accounts = accounts /\ n.nextNumber = next /\ n.staking = c.staking
      /\ n.fees = c.fees /\ n.minted = c.minted
      /\ n.height = c.height /\ n.fresh = c.fresh
      /\ n \in ChainsOf(S \cup {a})
  <2> HIDE DEF S, next
  <2> QED
    BY <1>1, <1>2, <1>4, <1>5 DEF ChainsOf
<1>10. S \cup {a} \subseteq Addresses
  BY <1>1
<1> HIDE DEF next
<1>11. ChainOK(n)
  BY <1>4, <1>7, <1>8, <1>9, <1>10 DEF ChainOK
<1> QED
  BY <1>4, <1>9, <1>11 DEF Sets

HasFees(n, c, coins) == n = [c EXCEPT !.fees = coins]

\* The collected fees can be written without touching anything else.
LEMMA FeesKeep ==
  ASSUME NEW c, ChainOK(c), NEW coins \in Coins, NEW n, HasFees(n, c, coins)
  PROVE  /\ ChainOK(n) /\ n.fees = coins /\ n.minted = c.minted
         /\ n.accounts = c.accounts /\ n.staking = c.staking
         /\ n.height = c.height /\ n.fresh = c.fresh
<1>1. c \in ChainsOf(DOMAIN c.accounts)
  BY DEF ChainOK
<1>2. /\ n \in ChainsOf(DOMAIN c.accounts) /\ n.fees = coins /\ n.minted = c.minted
      /\ n.accounts = c.accounts /\ n.staking = c.staking
      /\ n.height = c.height /\ n.fresh = c.fresh /\ n.nextNumber = c.nextNumber
  BY <1>1 DEF HasFees, ChainsOf
<1> QED
  BY <1>2 DEF ChainOK

\* So can what the bridge has paid, and the staking state.
LEMMA UpdatesKeep ==
  ASSUME NEW c, ChainOK(c), NEW coins \in Coins, NEW st \in StakingStates
  PROVE  /\ LET n == [c EXCEPT !.minted = coins] IN
              /\ ChainOK(n) /\ n.fees = c.fees /\ n.minted = coins
              /\ n.accounts = c.accounts /\ n.staking = c.staking
              /\ n.height = c.height /\ n.fresh = c.fresh
         /\ LET n == [c EXCEPT !.staking = st] IN
              /\ n.fees = c.fees /\ n.minted = c.minted
              /\ n.accounts = c.accounts /\ n.staking = st
              /\ (c.fresh => \A b \in Addresses : st.unbonding[b].creationHeight <= c.height)
                   => ChainOK(n)
<1> DEFINE S == DOMAIN c.accounts
<1>1. c \in ChainsOf(S)
  BY DEF ChainOK
<1>3. ASSUME NEW n, n = [c EXCEPT !.minted = coins]
      PROVE  /\ ChainOK(n) /\ n.fees = c.fees /\ n.minted = coins
             /\ n.accounts = c.accounts /\ n.staking = c.staking
             /\ n.height = c.height /\ n.fresh = c.fresh
  <2>1. /\ n \in ChainsOf(S) /\ n.fees = c.fees /\ n.minted = coins
        /\ n.accounts = c.accounts /\ n.staking = c.staking
        /\ n.height = c.height /\ n.fresh = c.fresh /\ n.nextNumber = c.nextNumber
    BY <1>1, <1>3 DEF ChainsOf
  <2> QED
    BY <2>1 DEF ChainOK
<1>4. ASSUME NEW n, n = [c EXCEPT !.staking = st]
      PROVE  /\ n.fees = c.fees /\ n.minted = c.minted
             /\ n.accounts = c.accounts /\ n.staking = st
             /\ (c.fresh => \A b \in Addresses : st.unbonding[b].creationHeight <= c.height)
                  => ChainOK(n)
  <2>1. /\ n \in ChainsOf(S) /\ n.fees = c.fees /\ n.minted = c.minted
        /\ n.accounts = c.accounts /\ n.staking = st
        /\ n.height = c.height /\ n.fresh = c.fresh /\ n.nextNumber = c.nextNumber
    BY <1>1, <1>4 DEF ChainsOf
  <2> QED
    BY <2>1 DEF ChainOK
<1> QED
  BY <1>3, <1>4

\* A step that moves coins of an account: its books, and what is staked, stay.
Moves(c, n, a, acc) ==
  /\ ChainOK(n) /\ Sets(c, n, a, acc) /\ acc \in ChainAccounts
  /\ acc.kind = AccountOf(c, a).kind /\ BookOf(acc) = BookOf(AccountOf(c, a))

\* Taking coins from an account.
LEMMA SubtractCoinsMoves ==
  ASSUME NEW c, ChainOK(c), NEW a \in DOMAIN c.accounts, NEW coins \in Coins,
         Covers(c.accounts[a].coins, coins), NEW n, n = SubtractCoins(c, a, coins)
  PROVE  /\ n.fees = c.fees /\ n.minted = c.minted
         /\ \E acc : /\ Moves(c, n, a, acc)
                     /\ StakeOf(acc) = StakeOf(AccountOf(c, a)) - coins[BondDenom]
<1> DEFINE old == AccountOf(c, a)
           left == Minus(old.coins, coins)
           acc == [old EXCEPT !.coins = left]
<1>1. a \in Addresses
  BY DEF ChainOK
<1>2. old \in ChainAccounts /\ Sound(old) /\ old = c.accounts[a]
  BY <1>1, AccountOfType
<1>3. n = SetAccount(c, a, acc)
  BY DEF SubtractCoins
<1> HIDE DEF old
<1>4. old.coins \in Coins /\ old.sequence \in Nat
  BY <1>2 DEF ChainAccounts
<1>5. left \in Coins /\ left[BondDenom] = old.coins[BondDenom] - coins[BondDenom]
  BY <1>2, <1>4, CoinsAddUp
<1> HIDE DEF left
<1>6. HasCoins(acc, old, left, old.sequence)
  BY <1>2 DEF HasCoins, ChainAccounts
<1> HIDE DEF acc
<1>7. /\ acc \in ChainAccounts /\ Sound(acc) /\ acc.number = old.number
      /\ acc.kind = old.kind /\ BookOf(acc) = BookOf(old) /\ StakeOf(acc) = left[BondDenom]
  BY <1>2, <1>4, <1>5, <1>6, WithCoins
<1>8. ChainOK(n) /\ Sets(c, n, a, acc) /\ n.fees = c.fees /\ n.minted = c.minted
  BY <1>1, <1>3, <1>7, SetAccountKeeps DEF old
<1>9. Moves(c, n, a, acc) /\ StakeOf(acc) = StakeOf(old) - coins[BondDenom]
  BY <1>5, <1>7, <1>8 DEF Moves, old, StakeOf
<1> QED
  BY <1>8, <1>9 DEF old

\* Giving coins to an account, or to an address that has none yet.
LEMMA AddCoinsMoves ==
  ASSUME NEW c, ChainOK(c), NEW a \in Addresses, NEW coins \in Coins,
         NEW n, n = AddCoins(c, a, coins)
  PROVE  /\ n.fees = c.fees /\ n.minted = c.minted
         /\ \E acc : /\ Moves(c, n, a, acc)
                     /\ StakeOf(acc) = StakeOf(AccountOf(c, a)) + coins[BondDenom]
<1> DEFINE old == AccountOf(c, a)
           sum == Plus(old.coins, coins)
           acc == [old EXCEPT !.coins = sum]
<1>1. old \in ChainAccounts /\ Sound(old)
  BY AccountOfType
<1>2. n = SetAccount(c, a, acc)
  BY DEF AddCoins
<1> HIDE DEF old
<1>3. old.coins \in Coins /\ old.sequence \in Nat
  BY <1>1 DEF ChainAccounts
<1>4. sum \in Coins /\ sum[BondDenom] = old.coins[BondDenom] + coins[BondDenom]
  BY <1>3, CoinsAddUp
<1> HIDE DEF sum
<1>5. HasCoins(acc, old, sum, old.sequence)
  BY <1>1 DEF HasCoins, ChainAccounts
<1> HIDE DEF acc
<1>6. /\ acc \in ChainAccounts /\ Sound(acc) /\ acc.number = old.number
      /\ acc.kind = old.kind /\ BookOf(acc) = BookOf(old) /\ StakeOf(acc) = sum[BondDenom]
  BY <1>1, <1>3, <1>4, <1>5, WithCoins
<1>7. ChainOK(n) /\ Sets(c, n, a, acc) /\ n.fees = c.fees /\ n.minted = c.minted
  BY <1>2, <1>6, SetAccountKeeps DEF old
<1>8. Moves(c, n, a, acc) /\ StakeOf(acc) = StakeOf(old) + coins[BondDenom]
  BY <1>4, <1>6, <1>7 DEF Moves, old, StakeOf
<1> QED
  BY <1>7, <1>8 DEF old

\* A fee leaves its account for the collected ones.
LEMMA AnteHandlerMoves ==
  ASSUME NEW c, ChainOK(c), NEW a \in DOMAIN c.accounts, NEW fee \in Coins,
         Covers(c.accounts[a].coins, fee), NEW n, n = AnteHandler(c, a, fee)
  PROVE  /\ n.fees[BondDenom] = c.fees[BondDenom] + fee[BondDenom] /\ n.minted = c.minted
         /\ a \in DOMAIN n.accounts
         /\ \E acc : /\ Moves(c, n, a, acc)
                     /\ StakeOf(acc) = StakeOf(AccountOf(c, a)) - fee[BondDenom]
<1> DEFINE old == AccountOf(c, a)
           left == Minus(old.coins, fee)
           next == old.sequence + 1
           acc == [old EXCEPT !.coins = left, !.sequence = next]
           m == SetAccount(c, a, acc)
           fees == Plus(m.fees, fee)
<1>1. a \in Addresses
  BY DEF ChainOK
<1>2. old \in ChainAccounts /\ Sound(old) /\ old = c.accounts[a]
  BY <1>1, AccountOfType
<1>3. SetAccount(c, a, [old EXCEPT !.coins = Minus(@, fee), !.sequence = @ + 1]) = m
  BY <1>2 DEF ChainAccounts
<1>4. n = [m EXCEPT !.fees = Plus(@, fee)]
  BY <1>3 DEF AnteHandler
<1> HIDE DEF old
<1>5. old.coins \in Coins /\ next \in Nat
  BY <1>2 DEF ChainAccounts
<1>6. left \in Coins /\ left[BondDenom] = old.coins[BondDenom] - fee[BondDenom]
  BY <1>2, <1>5, CoinsAddUp
<1>14. HasCoins(acc, old, left, next)
  BY DEF HasCoins
<1> HIDE DEF left, next, acc
<1>7. /\ acc \in ChainAccounts /\ Sound(acc) /\ acc.number = old.number
      /\ acc.kind = old.kind /\ BookOf(acc) = BookOf(old) /\ StakeOf(acc) = left[BondDenom]
  BY <1>2, <1>5, <1>6, <1>14, WithCoins
<1>8. ChainOK(m) /\ Sets(c, m, a, acc) /\ m.fees = c.fees /\ m.minted = c.minted
  BY <1>1, <1>7, SetAccountKeeps DEF old
<1> HIDE DEF m
<1>9. m.fees \in Coins /\ n = [m EXCEPT !.fees = fees]
  BY <1>4, <1>8 DEF ChainOK, ChainsOf
<1>10. fees \in Coins /\ fees[BondDenom] = c.fees[BondDenom] + fee[BondDenom]
  BY <1>8, <1>9, CoinsAddUp
<1> HIDE DEF fees
<1>11. /\ ChainOK(n) /\ n.fees = fees /\ n.minted = c.minted
       /\ n.accounts = m.accounts /\ n.staking = m.staking
       /\ n.height = m.height /\ n.fresh = m.fresh
  <2>1. HasFees(n, m, fees)
    BY <1>9 DEF HasFees
  <2> QED
    BY <1>8, <1>10, <2>1, FeesKeep
<1>12. Sets(c, n, a, acc) /\ a \in DOMAIN n.accounts
  BY <1>8, <1>11 DEF Sets
<1>13. Moves(c, n, a, acc) /\ StakeOf(acc) = StakeOf(old) - fee[BondDenom]
  BY <1>6, <1>7, <1>11, <1>12 DEF Moves, old, StakeOf
<1> QED
  BY <1>10, <1>11, <1>12, <1>13 DEF old

\* A payment of the bridge.
LEMMA MintMoves ==
  ASSUME NEW c, ChainOK(c), NEW b \in Addresses, NEW coins \in Coins, Mint(c, b, coins)
  PROVE  /\ chain'.fees = c.fees
         /\ chain'.minted[BondDenom] = c.minted[BondDenom] + coins[BondDenom]
         /\ \E acc : /\ Moves(c, chain', b, acc)
                     /\ StakeOf(acc) = StakeOf(AccountOf(c, b)) + coins[BondDenom]
<1> DEFINE m == AddCoins(c, b, coins)
           minted == Plus(m.minted, coins)
<1>1. chain' = [m EXCEPT !.minted = Plus(@, coins)]
  BY DEF Mint
<1>2. PICK acc : Moves(c, m, b, acc) /\ StakeOf(acc) = StakeOf(AccountOf(c, b)) + coins[BondDenom]
  BY AddCoinsMoves
<1>3. m.fees = c.fees /\ m.minted = c.minted
  BY AddCoinsMoves
<1> HIDE DEF m
<1>4. ChainOK(m) /\ m.minted \in Coins /\ chain' = [m EXCEPT !.minted = minted]
  BY <1>1, <1>2 DEF Moves, ChainOK, ChainsOf
<1>5. minted \in Coins /\ minted[BondDenom] = c.minted[BondDenom] + coins[BondDenom]
  BY <1>3, <1>4, CoinsAddUp
<1> HIDE DEF minted
<1>6. /\ ChainOK(chain') /\ chain'.fees = m.fees /\ chain'.minted = minted
      /\ chain'.accounts = m.accounts /\ chain'.staking = m.staking
      /\ chain'.height = m.height /\ chain'.fresh = m.fresh
  <2>1. NoStake \in StakingStates
    BY NoStakeType
  <2> QED
    BY <1>4, <1>5, <2>1, UpdatesKeep
<1>7. Moves(c, chain', b, acc)
  BY <1>2, <1>6 DEF Moves, Sets
<1> QED
  BY <1>2, <1>3, <1>5, <1>6, <1>7

\* What a message on stake leaves of a chain.
Works(c, n, a, acc, st) ==
  /\ n.accounts \in [DOMAIN c.accounts -> ChainAccounts]
  /\ n.accounts[a] = acc
  /\ \A b \in DOMAIN c.accounts : b # a => n.accounts[b] = c.accounts[b]
  /\ n.staking = st /\ n.fees = c.fees /\ n.minted = c.minted

\* It keeps the chain in order, if the account it writes is sound and keeps its
\* number, and no height it writes is of the future.
LEMMA WorkKeeps ==
  ASSUME NEW c, ChainOK(c), NEW a \in DOMAIN c.accounts,
         NEW acc \in ChainAccounts, Sound(acc), acc.number = c.accounts[a].number,
         NEW st \in StakingStates, Work(c, a, acc, st)
  PROVE  /\ Works(c, chain', a, acc, st)
         /\ (c.fresh => \A b \in Addresses : st.unbonding[b].creationHeight <= c.height)
              => ChainOK(chain')
<1> DEFINE m == SetAccount(c, a, acc)
<1>1. a \in Addresses /\ DOMAIN c.accounts \cup {a} = DOMAIN c.accounts
  BY DEF ChainOK
<1>2. acc.number = AccountOf(c, a).number
  BY <1>1, AccountOfType
<1>3. ChainOK(m) /\ Sets(c, m, a, acc) /\ m.fees = c.fees /\ m.minted = c.minted
  BY <1>1, <1>2, SetAccountKeeps
<1>4. chain' = [m EXCEPT !.staking = st]
  BY DEF Work
<1> HIDE DEF m
<1>5. /\ chain'.fees = m.fees /\ chain'.minted = m.minted
      /\ chain'.accounts = m.accounts /\ chain'.staking = st
      /\ (m.fresh => \A b \in Addresses : st.unbonding[b].creationHeight <= m.height)
           => ChainOK(chain')
  <2>1. NoCoins \in Coins
    BY NoCoinsType
  <2> QED
    BY <1>3, <1>4, <2>1, UpdatesKeep
<1> QED
  BY <1>1, <1>3, <1>5 DEF Works, Sets

\* What a delegation writes.
Delegates(c, a, v, acc, st, amount) ==
  LET old == c.accounts[a]
      s   == c.staking
  IN /\ Work(c, a, acc, st)
     /\ Sound(acc) /\ acc.number = old.number /\ acc.kind = old.kind
     /\ StakeOf(acc) = StakeOf(old) - amount
     /\ acc.kind # "base" => BookOf(acc) = BookOf(old) + amount
     /\ st.unbonding = s.unbonding
     /\ st.delegations = [s.delegations EXCEPT ![<<a, v>>] = s.delegations[<<a, v>>] + amount]
     /\ st.notBonded = s.notBonded - amount /\ st.bonded = s.bonded + amount

\* A delegation moves an amount from the account to the validator, and a vesting
\* account writes it down.
LEMMA DelegateDelegates ==
  ASSUME NEW c, ChainOK(c), NEW a \in DOMAIN c.accounts, NEW v \in Validators,
         Delegate(c, a, v)
  PROVE  \E acc \in ChainAccounts, st \in StakingStates, amount \in Nat :
           Delegates(c, a, v, acc, st, amount)
<1> DEFINE acc == c.accounts[a]
<1>1. /\ acc \in ChainAccounts /\ Sound(acc) /\ a \in Addresses /\ c.staking \in StakingStates
  BY DEF ChainOK, ChainsOf
<1>2. PICK amount \in 1..acc.coins[BondDenom], vesting \in 0..acc.original[BondDenom] :
        Work(c, a, [TrackDelegation(acc, amount, vesting) EXCEPT !.coins[BondDenom] = @ - amount],
             [c.staking EXCEPT !.notBonded = @ - amount, !.bonded = @ + amount,
                               !.delegations[<<a, v>>] = @ + amount])
  BY DEF Delegate
<1> DEFINE tracked == TrackDelegation(acc, amount, vesting)
           new == [tracked EXCEPT !.coins[BondDenom] = @ - amount]
           st == [c.staking EXCEPT !.notBonded = @ - amount, !.bonded = @ + amount,
                                   !.delegations[<<a, v>>] = @ + amount]
<1>3. /\ acc.coins \in Coins /\ acc.original \in Coins
      /\ acc.coins[BondDenom] \in Nat /\ acc.original[BondDenom] \in Nat
  BY <1>1 DEF ChainAccounts, Coins
<1>4. amount \in Nat /\ vesting \in Nat /\ acc.coins[BondDenom] - amount \in Nat
  BY <1>3
<1>5. /\ tracked \in ChainAccounts /\ Sound(tracked) /\ tracked.number = acc.number
      /\ tracked.coins = acc.coins /\ tracked.kind = acc.kind
      /\ acc.kind # "base" => BookOf(tracked) = BookOf(acc) + amount
  BY <1>1, <1>4, TrackDelegationType
<1>6. /\ [acc.coins EXCEPT ![BondDenom] = @ - amount] \in Coins
      /\ [acc.coins EXCEPT ![BondDenom] = @ - amount][BondDenom] = acc.coins[BondDenom] - amount
  BY <1>3, <1>4 DEF Coins
<1>7. /\ st \in StakingStates /\ st.unbonding = c.staking.unbonding
      /\ st.delegations = [c.staking.delegations EXCEPT
                             ![<<a, v>>] = c.staking.delegations[<<a, v>>] + amount]
      /\ st.notBonded = c.staking.notBonded - amount
      /\ st.bonded = c.staking.bonded + amount
  <2> DEFINE s == c.staking
             delegations == [s.delegations EXCEPT ![<<a, v>>] = s.delegations[<<a, v>>] + amount]
  <2>1. /\ s.notBonded - amount \in Int /\ s.bonded + amount \in Int
        /\ s.delegations \in [Addresses \X Validators -> Nat]
        /\ s.unbonding \in [Addresses -> [amount : Nat, creationHeight : Nat]]
    BY <1>1, <1>4 DEF StakingStates
  <2>2. delegations \in [Addresses \X Validators -> Nat]
    <3>1. <<a, v>> \in Addresses \X Validators
      BY <1>1
    <3>2. s.delegations[<<a, v>>] + amount \in Nat
      BY <1>4, <2>1, <3>1
    <3> HIDE DEF s
    <3> QED
      BY <2>1, <3>1, <3>2
  <2>3. st = [s EXCEPT !.notBonded = s.notBonded - amount, !.bonded = s.bonded + amount,
                       !.delegations = delegations, !.unbonding = s.unbonding]
    BY <1>1 DEF StakingStates
  <2> HIDE DEF s, delegations, st
  <2>4. /\ st \in StakingStates /\ st.unbonding = s.unbonding /\ st.delegations = delegations
        /\ st.notBonded = s.notBonded - amount /\ st.bonded = s.bonded + amount
    BY <1>1, <2>1, <2>2, <2>3 DEF s, StakingStates
  <2> QED
    BY <2>4 DEF s, delegations
<1> HIDE DEF tracked, acc
<1>8. /\ new \in ChainAccounts /\ Sound(new) /\ new.number = acc.number /\ new.kind = acc.kind
      /\ StakeOf(new) = StakeOf(acc) - amount /\ BookOf(new) = BookOf(tracked)
  <2> DEFINE coins == [acc.coins EXCEPT ![BondDenom] = @ - amount]
  <2>1. tracked.sequence \in Nat
    BY <1>5 DEF ChainAccounts
  <2>2. HasCoins(new, tracked, coins, tracked.sequence)
    BY <1>5 DEF HasCoins, ChainAccounts
  <2>3. coins \in Coins /\ coins[BondDenom] = acc.coins[BondDenom] - amount
    BY <1>6
  <2> HIDE DEF new, coins
  <2>4. /\ new \in ChainAccounts /\ Sound(new) /\ new.number = tracked.number
        /\ new.kind = tracked.kind /\ BookOf(new) = BookOf(tracked)
        /\ StakeOf(new) = coins[BondDenom]
    BY <1>5, <2>1, <2>2, <2>3, WithCoins
  <2> QED
    BY <1>5, <2>3, <2>4 DEF StakeOf
<1>9. Work(c, a, new, st)
  BY <1>2 DEF acc, tracked
<1> HIDE DEF new, st
<1>10. Delegates(c, a, v, new, st, amount)
  BY <1>5, <1>7, <1>8, <1>9 DEF Delegates, acc
<1> QED
  BY <1>4, <1>7, <1>8, <1>10

\* A delegation keeps accounts, numbers and heights in order.
LEMMA DelegateKeeps ==
  ASSUME NEW c, ChainOK(c), NEW a \in DOMAIN c.accounts, NEW v \in Validators,
         Delegate(c, a, v)
  PROVE  ChainOK(chain')
<1>1. PICK acc \in ChainAccounts, st \in StakingStates, amount \in Nat :
        Delegates(c, a, v, acc, st, amount)
  BY DelegateDelegates
<1>2. c.fresh => \A b \in Addresses : st.unbonding[b].creationHeight <= c.height
  BY <1>1 DEF Delegates, ChainOK
<1> QED
  BY <1>1, <1>2, WorkKeeps DEF Delegates

\* What the beginning of an unbonding writes.
Undelegates(c, a, v, acc, st, amount) ==
  LET s == c.staking
  IN /\ Work(c, a, acc, st)
     /\ acc = c.accounts[a]
     /\ amount <= s.delegations[<<a, v>>] /\ Unbonding(s, a) = 0
     /\ st.unbonding = [s.unbonding EXCEPT
                          ![a] = [amount |-> amount, creationHeight |-> c.height]]
     /\ st.delegations = [s.delegations EXCEPT ![<<a, v>>] = s.delegations[<<a, v>>] - amount]
     /\ st.notBonded = s.notBonded + amount /\ st.bonded = s.bonded - amount

\* An unbonding moves an amount from the validator to what is on its way back; the
\* account does not notice yet.
LEMMA UndelegateUndelegates ==
  ASSUME NEW c, ChainOK(c), NEW a \in DOMAIN c.accounts, NEW v \in Validators,
         Undelegate(c, a, v)
  PROVE  \E acc \in ChainAccounts, st \in StakingStates, amount \in Nat :
           Undelegates(c, a, v, acc, st, amount)
<1> DEFINE acc == c.accounts[a]
<1>1. /\ acc \in ChainAccounts /\ Sound(acc) /\ a \in Addresses
      /\ c.staking \in StakingStates /\ c.height \in Nat
  BY DEF ChainOK, ChainsOf
<1>2. PICK amount \in 1..c.staking.delegations[<<a, v>>] :
        Work(c, a, acc,
             [c.staking EXCEPT !.notBonded = @ + amount, !.bonded = @ - amount,
                               !.delegations[<<a, v>>] = @ - amount,
                               !.unbonding[a] = [amount |-> amount,
                                                 creationHeight |-> c.height]])
  BY DEF Undelegate
<1> DEFINE entry == [amount |-> amount, creationHeight |-> c.height]
           st == [c.staking EXCEPT !.notBonded = @ + amount, !.bonded = @ - amount,
                                   !.delegations[<<a, v>>] = @ - amount,
                                   !.unbonding[a] = entry]
           s == c.staking
<1>3. /\ s.delegations \in [Addresses \X Validators -> Nat]
      /\ s.unbonding \in [Addresses -> [amount : Nat, creationHeight : Nat]]
      /\ s.notBonded \in Int /\ s.bonded \in Int
  BY <1>1 DEF StakingStates
<1>4. /\ <<a, v>> \in Addresses \X Validators /\ s.delegations[<<a, v>>] \in Nat
      /\ amount \in Nat /\ s.delegations[<<a, v>>] - amount \in Nat
  <2>1. <<a, v>> \in Addresses \X Validators
    BY <1>1
  <2>2. s.delegations[<<a, v>>] \in Nat
    BY <1>3, <2>1
  <2> QED
    BY <2>1, <2>2
<1>5. entry \in [amount : Nat, creationHeight : Nat] /\ entry.creationHeight = c.height
  BY <1>1, <1>4
<1> HIDE DEF entry
<1>6. /\ st \in StakingStates
      /\ st.unbonding = [s.unbonding EXCEPT ![a] = entry]
      /\ st.delegations = [s.delegations EXCEPT ![<<a, v>>] = s.delegations[<<a, v>>] - amount]
      /\ st.notBonded = s.notBonded + amount /\ st.bonded = s.bonded - amount
  <2> DEFINE delegations == [s.delegations EXCEPT
                               ![<<a, v>>] = s.delegations[<<a, v>>] - amount]
             unbonding == [s.unbonding EXCEPT ![a] = entry]
  <2>1. s.notBonded + amount \in Int /\ s.bonded - amount \in Int
    BY <1>3, <1>4
  <2>2. unbonding \in [Addresses -> [amount : Nat, creationHeight : Nat]]
    BY <1>3, <1>5
  <2>3. delegations \in [Addresses \X Validators -> Nat]
    <3> HIDE DEF s
    <3> QED
      BY <1>3, <1>4
  <2>4. st = [s EXCEPT !.notBonded = s.notBonded + amount, !.bonded = s.bonded - amount,
                       !.delegations = delegations, !.unbonding = unbonding]
    BY <1>1 DEF StakingStates
  <2> HIDE DEF s, delegations, unbonding, st
  <2>5. /\ st \in StakingStates /\ st.unbonding = unbonding /\ st.delegations = delegations
        /\ st.notBonded = s.notBonded + amount /\ st.bonded = s.bonded - amount
    BY <1>1, <2>1, <2>2, <2>3, <2>4 DEF s, StakingStates
  <2> QED
    BY <2>5 DEF unbonding, delegations
<1>7. Unbonding(s, a) = 0 /\ amount <= s.delegations[<<a, v>>]
  <2>1. s.unbonding[a] = NotUnbonding
    BY DEF Undelegate
  <2> HIDE DEF s
  <2>2. Unbonding(s, a) = 0
    BY <2>1 DEF Unbonding, NotUnbonding
  <2> QED
    BY <1>4, <2>2 DEF s
<1>8. Work(c, a, acc, st)
  BY <1>2 DEF entry
<1> HIDE DEF st
<1>9. Undelegates(c, a, v, acc, st, amount)
  BY <1>6, <1>7, <1>8 DEF Undelegates, entry
<1> QED
  BY <1>1, <1>4, <1>6, <1>9

\* The beginning of an unbonding keeps accounts, numbers and heights in order.
LEMMA UndelegateKeeps ==
  ASSUME NEW c, ChainOK(c), NEW a \in DOMAIN c.accounts, NEW v \in Validators,
         Undelegate(c, a, v)
  PROVE  ChainOK(chain')
<1>1. PICK acc \in ChainAccounts, st \in StakingStates, amount \in Nat :
        Undelegates(c, a, v, acc, st, amount)
  BY UndelegateUndelegates
<1>2. c.height \in Nat /\ a \in Addresses /\ Sound(c.accounts[a])
  BY DEF ChainOK, ChainsOf
<1>3. c.fresh => \A b \in Addresses : st.unbonding[b].creationHeight <= c.height
  <2> DEFINE old == c.staking.unbonding
             entry == [amount |-> amount, creationHeight |-> c.height]
  <2>1. /\ old \in [Addresses -> [amount : Nat, creationHeight : Nat]]
        /\ st.unbonding = [old EXCEPT ![a] = entry]
    BY <1>1, <1>2 DEF Undelegates, ChainOK, ChainsOf, StakingStates
  <2>2. \A b \in Addresses : st.unbonding[b] = IF b = a THEN entry ELSE old[b]
    BY <1>2, <2>1
  <2>3. c.fresh => \A b \in Addresses : old[b].creationHeight <= c.height
    BY <1>2 DEF ChainOK
  <2>4. entry.creationHeight <= c.height
    BY <1>2
  <2> HIDE DEF old, entry
  <2> QED
    BY <2>2, <2>3, <2>4
<1> QED
  BY <1>1, <1>2, <1>3, WorkKeeps DEF Undelegates

\* What the end of an unbonding writes.
Completes(c, a, acc, st, amount) ==
  LET old == c.accounts[a]
      s   == c.staking
  IN /\ Work(c, a, acc, st)
     /\ Sound(acc) /\ acc.number = old.number /\ acc.kind = old.kind
     /\ StakeOf(acc) = StakeOf(old) + amount
     /\ amount <= BookOf(old) => BookOf(acc) = BookOf(old) - amount
     /\ amount = Unbonding(s, a)
     /\ st.unbonding = [s.unbonding EXCEPT ![a] = NotUnbonding]
     /\ st.delegations = s.delegations
     /\ st.notBonded = s.notBonded /\ st.bonded = s.bonded

\* The end of an unbonding gives the amount back, and a vesting account strikes it out.
LEMMA CompleteCompletes ==
  ASSUME ChainOK(chain), NEW a \in DOMAIN chain.accounts, CompleteUnbonding(a)
  PROVE  \E acc \in ChainAccounts, st \in StakingStates, amount \in Nat :
           Completes(chain, a, acc, st, amount)
<1> DEFINE acc == chain.accounts[a]
           amount == chain.staking.unbonding[a].amount
           tracked == TrackUndelegation(acc, amount)
           new == [tracked EXCEPT !.coins[BondDenom] = @ + amount]
           st == [chain.staking EXCEPT !.unbonding[a] = NotUnbonding]
<1>1. /\ acc \in ChainAccounts /\ Sound(acc) /\ a \in Addresses
      /\ chain.staking \in StakingStates
  BY DEF ChainOK, ChainsOf
<1>2. amount \in Nat
  BY <1>1 DEF StakingStates
<1>3. /\ tracked \in ChainAccounts /\ Sound(tracked) /\ tracked.number = acc.number
      /\ tracked.coins = acc.coins /\ tracked.kind = acc.kind
      /\ amount <= BookOf(acc) => BookOf(tracked) = BookOf(acc) - amount
  BY <1>1, <1>2, TrackUndelegationType
<1>4. /\ [acc.coins EXCEPT ![BondDenom] = @ + amount] \in Coins
      /\ [acc.coins EXCEPT ![BondDenom] = @ + amount][BondDenom] = acc.coins[BondDenom] + amount
  <2>1. acc.coins \in Coins
    BY <1>1 DEF ChainAccounts
  <2> QED
    BY <1>2, <2>1 DEF Coins
<1>5. /\ st \in StakingStates
      /\ st.unbonding = [chain.staking.unbonding EXCEPT ![a] = NotUnbonding]
      /\ st.delegations = chain.staking.delegations
      /\ st.notBonded = chain.staking.notBonded /\ st.bonded = chain.staking.bonded
  BY <1>1 DEF StakingStates, NotUnbonding
<1>6. Work(chain, a, new, st)
  BY <1>1 DEF CompleteUnbonding
<1>7. amount = Unbonding(chain.staking, a)
  BY DEF Unbonding
<1> HIDE DEF tracked, acc, amount
<1>8. /\ new \in ChainAccounts /\ Sound(new) /\ new.number = acc.number /\ new.kind = acc.kind
      /\ StakeOf(new) = StakeOf(acc) + amount /\ BookOf(new) = BookOf(tracked)
  <2> DEFINE coins == [acc.coins EXCEPT ![BondDenom] = @ + amount]
  <2>1. tracked.sequence \in Nat
    BY <1>3 DEF ChainAccounts
  <2>2. HasCoins(new, tracked, coins, tracked.sequence)
    BY <1>3 DEF HasCoins, ChainAccounts
  <2>3. coins \in Coins /\ coins[BondDenom] = acc.coins[BondDenom] + amount
    BY <1>4
  <2> HIDE DEF new, coins
  <2>4. /\ new \in ChainAccounts /\ Sound(new) /\ new.number = tracked.number
        /\ new.kind = tracked.kind /\ BookOf(new) = BookOf(tracked)
        /\ StakeOf(new) = coins[BondDenom]
    BY <1>3, <2>1, <2>2, <2>3, WithCoins
  <2> QED
    BY <1>3, <2>3, <2>4 DEF StakeOf
<1> HIDE DEF new, st
<1>9. Completes(chain, a, new, st, amount)
  BY <1>3, <1>5, <1>6, <1>7, <1>8 DEF Completes, acc
<1> QED
  BY <1>2, <1>5, <1>8, <1>9

\* The end of an unbonding keeps accounts, numbers and heights in order.
LEMMA CompleteUnbondingKeeps ==
  ASSUME ChainOK(chain), NEW a \in DOMAIN chain.accounts, CompleteUnbonding(a)
  PROVE  ChainOK(chain')
<1>1. PICK acc \in ChainAccounts, st \in StakingStates, amount \in Nat :
        Completes(chain, a, acc, st, amount)
  BY CompleteCompletes
<1>2. chain.staking \in StakingStates /\ a \in Addresses /\ chain.height \in Nat
  BY DEF ChainOK, ChainsOf
<1>3. chain.fresh => \A b \in Addresses : st.unbonding[b].creationHeight <= chain.height
  BY <1>1, <1>2 DEF Completes, ChainOK, StakingStates, NotUnbonding
<1> QED
  BY <1>1, <1>3, WorkKeeps DEF Completes

\* Coins sent leave one account for another, which may be new or the same.
LEMMA SendMoves ==
  ASSUME NEW c, ChainOK(c), NEW a \in DOMAIN c.accounts, NEW b \in Addresses,
         NEW coins \in Coins, Send(c, a, b, coins)
  PROVE  LET m == SubtractCoins(c, a, coins) IN
         /\ m.fees = c.fees /\ m.minted = c.minted
         /\ chain'.fees = c.fees /\ chain'.minted = c.minted
         /\ \E acc : /\ Moves(c, m, a, acc)
                     /\ StakeOf(acc) = StakeOf(AccountOf(c, a)) - coins[BondDenom]
         /\ \E acc : /\ Moves(m, chain', b, acc)
                     /\ StakeOf(acc) = StakeOf(AccountOf(m, b)) + coins[BondDenom]
<1> DEFINE m == SubtractCoins(c, a, coins)
<1>1. Covers(c.accounts[a].coins, coins) /\ chain' = AddCoins(m, b, coins)
  BY DEF Send
<1>2. /\ m.fees = c.fees /\ m.minted = c.minted
      /\ \E acc : /\ Moves(c, m, a, acc)
                  /\ StakeOf(acc) = StakeOf(AccountOf(c, a)) - coins[BondDenom]
  BY <1>1, SubtractCoinsMoves
<1> HIDE DEF m
<1>3. ChainOK(m)
  BY <1>2 DEF Moves
<1>4. /\ chain'.fees = m.fees /\ chain'.minted = m.minted
      /\ \E acc : /\ Moves(m, chain', b, acc)
                  /\ StakeOf(acc) = StakeOf(AccountOf(m, b)) + coins[BondDenom]
  BY <1>1, <1>3, AddCoinsMoves
<1> QED
  BY <1>2, <1>4 DEF m

\* The steps of a transaction, one after the other.
LEMMA TransactionSteps ==
  ASSUME ChainOK(chain), NEW a \in DOMAIN chain.accounts, NEW fee \in Fees, Transaction(a, fee),
         NEW c, c = AnteHandler(chain, a, fee)
  PROVE  /\ ChainOK(c) /\ a \in DOMAIN c.accounts
         /\ fee \in Coins /\ Covers(chain.accounts[a].coins, fee)
         /\ \/ chain' = c
            \/ \E v \in Validators : Delegate(c, a, v) \/ Undelegate(c, a, v)
            \/ \E b \in Addresses, coins \in Coins : Send(c, a, b, coins) \/ Mint(c, b, coins)
<1>1. fee \in Coins /\ Covers(chain.accounts[a].coins, fee)
  BY PaymentsAssumption DEF Transaction
<1>2. ChainOK(c) /\ a \in DOMAIN c.accounts
  BY <1>1, AnteHandlerMoves DEF Moves
<1>3. \/ chain' = c
      \/ \E v \in Validators : Delegate(c, a, v) \/ Undelegate(c, a, v)
      \/ \E b \in Addresses, coins \in Payments : Send(c, a, b, coins) \/ Mint(c, b, coins)
  BY DEF Transaction
<1> QED
  BY <1>1, <1>2, <1>3, PaymentsAssumption

\* A transaction keeps accounts, numbers and heights in order.
LEMMA TransactionKeeps ==
  ASSUME ChainOK(chain), NEW a \in DOMAIN chain.accounts, NEW fee \in Fees, Transaction(a, fee)
  PROVE  ChainOK(chain')
<1> DEFINE c == AnteHandler(chain, a, fee)
<1>1. /\ ChainOK(c) /\ a \in DOMAIN c.accounts
      /\ \/ chain' = c
         \/ \E v \in Validators : Delegate(c, a, v) \/ Undelegate(c, a, v)
         \/ \E b \in Addresses, coins \in Coins : Send(c, a, b, coins) \/ Mint(c, b, coins)
  BY TransactionSteps
<1> HIDE DEF c
<1>2. CASE chain' = c
  BY <1>1, <1>2
<1>3. ASSUME NEW v \in Validators, Delegate(c, a, v) PROVE ChainOK(chain')
  BY <1>1, <1>3, DelegateKeeps
<1>4. ASSUME NEW v \in Validators, Undelegate(c, a, v) PROVE ChainOK(chain')
  BY <1>1, <1>4, UndelegateKeeps
<1>5. ASSUME NEW b \in Addresses, NEW coins \in Coins, Send(c, a, b, coins) PROVE ChainOK(chain')
  BY <1>1, <1>5, SendMoves DEF Moves
<1>6. ASSUME NEW b \in Addresses, NEW coins \in Coins, Mint(c, b, coins) PROVE ChainOK(chain')
  BY <1>1, <1>6, MintMoves DEF Moves
<1> QED
  BY <1>1, <1>2, <1>3, <1>4, <1>5, <1>6

\* A block makes the chain higher, so that heights stay in the past.
LEMMA CommitBlockKeeps ==
  ASSUME ChainOK(chain), CommitBlock
  PROVE  ChainOK(chain')
<1>1. chain' = [chain EXCEPT !.height = @ + 1]
  BY DEF CommitBlock
<1>2. /\ chain'.accounts = chain.accounts /\ chain'.nextNumber = chain.nextNumber
      /\ chain'.staking = chain.staking /\ chain'.height = chain.height + 1
      /\ chain'.fresh = chain.fresh
      /\ chain' \in ChainsOf(DOMAIN chain.accounts)
  BY <1>1 DEF ChainOK, ChainsOf
<1>3. chain.fresh =>
        \A a \in Addresses : chain.staking.unbonding[a].creationHeight <= chain.height + 1
  <2>1. chain.height \in Nat /\ chain.staking \in StakingStates
    BY <1>1 DEF ChainOK, ChainsOf
  <2>2. \A a \in Addresses : chain.staking.unbonding[a].creationHeight \in Nat
    BY <2>1 DEF StakingStates
  <2> QED
    BY <1>1, <2>1, <2>2 DEF ChainOK
<1> QED
  BY <1>1, <1>2, <1>3 DEF ChainOK

\* So does every step of a chain at work.
LEMMA RunChainKeeps ==
  ASSUME GenesisInv, RunChain
  PROVE  GenesisInv'
<1>1. ChainOK(chain) /\ UNCHANGED <<file, exported>>
  BY DEF GenesisInv, RunChain
<1>2. ChainOK(chain')
  BY <1>1, TransactionKeeps, CompleteUnbondingKeeps, CommitBlockKeeps DEF RunChain
<1> QED
  BY <1>1, <1>2 DEF GenesisInv

-----------------------------------------------------------------------------
(* Stake.  What the pool holds and what the accounts keep book of are sums  *)
(* over accounts and delegations; a step moves a term or two of them.       *)

HeldStake(accounts) == SumFunction([x \in DOMAIN accounts |-> StakeOf(accounts[x])])

UnbondingStake(st) == SumFunction([a \in Addresses |-> Unbonding(st, a)])

Owed(st, a) == Delegated(st, a) + Unbonding(st, a)

Tracked(st, a, acc) == BookOf(acc) = Owed(st, a)

\* The pool is balanced when it is told of a further amount k: coins in the middle of
\* a transfer belong to nobody for a moment, and then k is what they are short of zero.
BalancedBy(state, k) ==
  LET s == state.staking
  IN /\ s.notBonded + state.minted[BondDenom] + k =
          HeldStake(state.accounts) + UnbondingStake(s) + state.fees[BondDenom]
     /\ s.bonded = SumFunction(s.delegations)

\* In a file and in a chain the pool is balanced, vesting accounts keep book of what
\* they have delegated, and nobody without an account has delegated anything.
FileStakeOK(f) ==
  /\ BalancedBy(f, 0)
  /\ \A i \in DOMAIN f.accounts :
       KindOf(f.accounts[i]) # "base" =>
         Tracked(f.staking, f.accounts[i].address, f.accounts[i])
  /\ \A a \in Addresses \ AddressesOf(f.accounts) : Owed(f.staking, a) = 0

ChainStakeOK(c, k) ==
  /\ BalancedBy(c, k)
  /\ \A a \in DOMAIN c.accounts :
       c.accounts[a].kind # "base" => Tracked(c.staking, a, c.accounts[a])
  /\ \A a \in Addresses \ DOMAIN c.accounts : Owed(c.staking, a) = 0

StakeInv ==
  /\ file # None => FileStakeOK(file)
  /\ chain # None => ChainStakeOK(chain, 0)

\* Accounts have natural amounts of stake.
LEMMA StakeOfNatural ==
  /\ \A c \in ChainAccounts : StakeOf(c) \in Nat
  /\ \A g \in FileAccounts : StakeOf(g) \in Nat
BY DEF StakeOf, ChainAccounts, FileAccounts, Coins

\* What the sums add up are natural numbers, and so are the sums.
LEMMA StakeTypes ==
  ASSUME NEW st \in StakingStates
  PROVE  /\ \A p \in Addresses \X Validators : st.delegations[p] \in Nat
         /\ st.notBonded \in Int /\ st.bonded \in Int
         /\ DOMAIN st.delegations = Addresses \X Validators
         /\ IsFiniteSet(Addresses \X Validators)
         /\ SumFunction(st.delegations) \in Nat /\ UnbondingStake(st) \in Nat
         /\ \A a \in Addresses : /\ Unbonding(st, a) \in Nat /\ Delegated(st, a) \in Nat
                                 /\ Owed(st, a) \in Nat
<1>1. /\ st.delegations \in [Addresses \X Validators -> Nat]
      /\ st.unbonding \in [Addresses -> [amount : Nat, creationHeight : Nat]]
      /\ st.notBonded \in Int /\ st.bonded \in Int
  BY DEF StakingStates
<1>2. IsFiniteSet(Addresses) /\ IsFiniteSet(Validators)
  BY AddressesAssumption, ValidatorsAssumption
<1>3. IsFiniteSet(Addresses \X Validators)
  BY <1>2, FS_Product
<1>4. SumFunction(st.delegations) \in Nat
  BY <1>1, <1>3, SumIsNatural DEF SumFunction
<1>5. \A a \in Addresses : Unbonding(st, a) \in Nat
  BY <1>1 DEF Unbonding
<1>6. UnbondingStake(st) \in Nat
  <2> DEFINE f == [a \in Addresses |-> Unbonding(st, a)]
  <2>1. DOMAIN f = Addresses /\ \A a \in Addresses : f[a] \in Nat
    BY <1>5
  <2> HIDE DEF f
  <2>2. SumFunctionOnSet(f, DOMAIN f) \in Nat
    BY <1>2, <2>1, SumIsNatural
  <2> QED
    BY <2>2 DEF f, UnbondingStake, SumFunction
<1>7. ASSUME NEW a \in Addresses PROVE Delegated(st, a) \in Nat
  <2> DEFINE f == [v \in Validators |-> st.delegations[<<a, v>>]]
  <2>1. \A v \in Validators : f[v] \in Nat
    BY <1>1
  <2> HIDE DEF f
  <2>2. SumFunctionOnSet(f, Validators) \in Nat
    BY <1>2, <2>1, SumIsNatural
  <2> QED
    BY <2>2 DEF f, Delegated
<1>8. \A a \in Addresses : Owed(st, a) \in Nat
  BY <1>5, <1>7 DEF Owed
<1> QED
  BY <1>1, <1>3, <1>4, <1>5, <1>6, <1>7, <1>8

\* The stake held is a natural number.
LEMMA HeldIsNatural ==
  ASSUME NEW S, IsFiniteSet(S), NEW f \in [S -> ChainAccounts]
  PROVE  HeldStake(f) \in Nat
<1> DEFINE g == [x \in DOMAIN f |-> StakeOf(f[x])]
<1>1. DOMAIN g = S /\ \A x \in S : g[x] \in Nat
  BY StakeOfNatural
<1> HIDE DEF g
<1>2. SumFunctionOnSet(g, DOMAIN g) \in Nat
  BY <1>1, SumIsNatural
<1> QED
  BY <1>2 DEF g, HeldStake, SumFunction

\* An account that changes moves the stake held by as much as its own.
LEMMA HeldMoves ==
  ASSUME NEW S, IsFiniteSet(S), NEW old \in [S -> ChainAccounts], NEW a \in S,
         NEW new \in [S -> ChainAccounts], \A b \in S : b # a => new[b] = old[b]
  PROVE  HeldStake(new) + StakeOf(old[a]) = HeldStake(old) + StakeOf(new[a])
<1> DEFINE f == [x \in DOMAIN old |-> StakeOf(old[x])]
           g == [x \in DOMAIN new |-> StakeOf(new[x])]
<1>1. /\ DOMAIN old = S /\ DOMAIN new = S
      /\ \A x \in S : f[x] = StakeOf(old[x]) /\ f[x] \in Nat
      /\ \A x \in S : g[x] = StakeOf(new[x]) /\ g[x] \in Nat
      /\ \A x \in S : x # a => g[x] = f[x]
  BY StakeOfNatural
<1>2. HeldStake(old) = SumFunctionOnSet(f, S) /\ HeldStake(new) = SumFunctionOnSet(g, S)
  BY <1>1 DEF HeldStake, SumFunction
<1> HIDE DEF f, g
<1>3. SumFunctionOnSet(g, S) + f[a] = SumFunctionOnSet(f, S) + g[a]
  BY <1>1, SumMovesOne
<1> QED
  BY <1>1, <1>2, <1>3

\* The stake held when one more account comes in.
LEMMA HeldGrows ==
  ASSUME NEW S, IsFiniteSet(S), NEW x, x \notin S,
         NEW f, NEW g, DOMAIN f = S, DOMAIN g = S \cup {x}, StakeOf(g[x]) \in Nat,
         \A y \in S : StakeOf(f[y]) \in Nat /\ StakeOf(g[y]) = StakeOf(f[y])
  PROVE  HeldStake(f) \in Nat /\ HeldStake(g) = HeldStake(f) + StakeOf(g[x])
<1> DEFINE F == [y \in DOMAIN f |-> StakeOf(f[y])]
           G == [y \in DOMAIN g |-> StakeOf(g[y])]
<1>1. /\ \A y \in S : F[y] \in Nat /\ G[y] = F[y]
      /\ \A y \in S \cup {x} : G[y] \in Nat
      /\ G[x] = StakeOf(g[x])
  OBVIOUS
<1>2. HeldStake(f) = SumFunctionOnSet(F, S) /\ HeldStake(g) = SumFunctionOnSet(G, S \cup {x})
  BY DEF HeldStake, SumFunction
<1> HIDE DEF F, G
<1>3. SumFunctionOnSet(F, S) \in Nat /\ SumFunctionOnSet(G, S) = SumFunctionOnSet(F, S)
  BY <1>1, SumIsNatural, SumSameValues
<1>4. SumFunctionOnSet(G, S \cup {x}) = SumFunctionOnSet(G, S) + G[x]
  BY <1>1, SumAddsOne
<1> QED
  BY <1>1, <1>2, <1>3, <1>4

\* The stake held when accounts come under other names.
LEMMA HeldRenamed ==
  ASSUME NEW S, IsFiniteSet(S), NEW T, NEW h \in Bijection(S, T),
         NEW f, NEW g, DOMAIN f = S, DOMAIN g = T,
         \A x \in S : StakeOf(f[x]) \in Nat /\ StakeOf(g[h[x]]) = StakeOf(f[x])
  PROVE  HeldStake(f) = HeldStake(g)
<1> DEFINE F == [x \in DOMAIN f |-> StakeOf(f[x])]
           G == [y \in DOMAIN g |-> StakeOf(g[y])]
<1>1. \A x \in S : h[x] \in T
  BY DEF Bijection, Injection
<1>2. \A x \in S : F[x] \in Nat /\ G[h[x]] = F[x]
  BY <1>1
<1>3. HeldStake(f) = SumFunctionOnSet(F, S) /\ HeldStake(g) = SumFunctionOnSet(G, T)
  BY DEF HeldStake, SumFunction
<1> HIDE DEF F, G
<1> QED
  BY <1>2, <1>3, SumRenamed

\* So does an entry of the unbonding stake.
LEMMA UnbondingMoves ==
  ASSUME NEW s \in StakingStates, NEW st \in StakingStates, NEW a \in Addresses,
         \A b \in Addresses : b # a => st.unbonding[b] = s.unbonding[b]
  PROVE  /\ UnbondingStake(st) + Unbonding(s, a) = UnbondingStake(s) + Unbonding(st, a)
         /\ \A b \in Addresses : b # a => Unbonding(st, b) = Unbonding(s, b)
<1> DEFINE f == [b \in Addresses |-> Unbonding(s, b)]
           g == [b \in Addresses |-> Unbonding(st, b)]
<1>1. \A b \in Addresses : f[b] \in Nat /\ g[b] \in Nat
  BY StakeTypes
<1>2. \A b \in Addresses : b # a => Unbonding(st, b) = Unbonding(s, b)
  BY DEF Unbonding
<1>3. \A b \in Addresses : b # a => g[b] = f[b]
  BY <1>2
<1>4. /\ UnbondingStake(s) = SumFunctionOnSet(f, Addresses)
      /\ UnbondingStake(st) = SumFunctionOnSet(g, Addresses)
      /\ f[a] = Unbonding(s, a) /\ g[a] = Unbonding(st, a)
  BY DEF UnbondingStake, SumFunction
<1> HIDE DEF f, g
<1>5. SumFunctionOnSet(g, Addresses) + f[a] = SumFunctionOnSet(f, Addresses) + g[a]
  <2>1. IsFiniteSet(Addresses)
    BY AddressesAssumption
  <2> QED
    BY <1>1, <1>3, <2>1, SumMovesOne
<1> QED
  BY <1>2, <1>4, <1>5

\* And a delegation moves all the bonded stake and that of its delegator.
LEMMA DelegationMoves ==
  ASSUME NEW s \in StakingStates, NEW st \in StakingStates,
         NEW a \in Addresses, NEW v \in Validators, NEW n \in Nat, NEW d \in Int,
         n = s.delegations[<<a, v>>] + d,
         st.delegations = [s.delegations EXCEPT ![<<a, v>>] = n]
  PROVE  /\ SumFunction(st.delegations) = SumFunction(s.delegations) + d
         /\ Delegated(st, a) = Delegated(s, a) + d
         /\ \A b \in Addresses : b # a => Delegated(st, b) = Delegated(s, b)
<1> DEFINE D == Addresses \X Validators
           old == s.delegations
           new == st.delegations
<1>1. /\ old \in [D -> Nat] /\ new \in [D -> Nat] /\ <<a, v>> \in D /\ IsFiniteSet(D)
      /\ DOMAIN old = D /\ DOMAIN new = D
  BY StakeTypes DEF StakingStates
<1>2. /\ \A p \in D : old[p] \in Nat /\ new[p] \in Nat
      /\ \A p \in D : p # <<a, v>> => new[p] = old[p]
      /\ new[<<a, v>>] = n
  BY <1>1
<1>3. SumFunctionOnSet(new, D) + old[<<a, v>>] = SumFunctionOnSet(old, D) + new[<<a, v>>]
  <2> HIDE DEF D, old, new
  <2> QED
    BY <1>1, <1>2, SumMovesOne
<1>4. SumFunction(new) + old[<<a, v>>] = SumFunction(old) + n
  BY <1>1, <1>2, <1>3 DEF SumFunction
<1>5. Delegated(st, a) + old[<<a, v>>] = Delegated(s, a) + n
  <2> DEFINE f == [w \in Validators |-> old[<<a, w>>]]
             g == [w \in Validators |-> new[<<a, w>>]]
  <2>1. \A w \in Validators : <<a, w>> \in D /\ (w # v => <<a, w>> # <<a, v>>)
    OBVIOUS
  <2>2. /\ \A w \in Validators : f[w] \in Nat /\ g[w] \in Nat
        /\ \A w \in Validators : w # v => g[w] = f[w]
    <3> HIDE DEF D, old, new
    <3> QED
      BY <1>2, <2>1
  <2>3. f[v] = old[<<a, v>>] /\ g[v] = n
    BY <1>2
  <2>4. Delegated(s, a) = SumFunctionOnSet(f, Validators)
        /\ Delegated(st, a) = SumFunctionOnSet(g, Validators)
    BY DEF Delegated
  <2> HIDE DEF f, g
  <2>5. SumFunctionOnSet(g, Validators) + f[v] = SumFunctionOnSet(f, Validators) + g[v]
    BY <2>2, SumMovesOne, ValidatorsAssumption
  <2> QED
    BY <2>3, <2>4, <2>5
<1>6. ASSUME NEW b \in Addresses, b # a PROVE Delegated(st, b) = Delegated(s, b)
  <2> DEFINE f == [w \in Validators |-> old[<<b, w>>]]
             g == [w \in Validators |-> new[<<b, w>>]]
  <2>1. \A w \in Validators : <<b, w>> \in D /\ <<b, w>> # <<a, v>>
    BY <1>6
  <2>2. \A w \in Validators : new[<<b, w>>] = old[<<b, w>>]
    <3> HIDE DEF D, old, new
    <3> QED
      BY <1>2, <2>1
  <2>3. f = g
    BY <2>2
  <2> QED
    BY <2>3 DEF Delegated
<1>7. ASSUME NEW p \in Int, NEW q \in Int, q + old[<<a, v>>] = p + n PROVE q = p + d
  <2> DEFINE x == old[<<a, v>>]
  <2>1. x \in Int
    BY <1>1
  <2>2. q + x = p + n /\ n = x + d
    BY <1>7
  <2> HIDE DEF x
  <2> QED
    BY <2>1, <2>2
<1>8. /\ SumFunction(old) \in Int /\ SumFunction(new) \in Int
      /\ Delegated(s, a) \in Int /\ Delegated(st, a) \in Int
  BY StakeTypes
<1> HIDE DEF old, new
<1>9. SumFunction(new) = SumFunction(old) + d /\ Delegated(st, a) = Delegated(s, a) + d
  BY <1>4, <1>5, <1>7, <1>8
<1> QED
  BY <1>6, <1>9 DEF old, new

\* What is owed depends on the amounts, not on the heights and not on the pool.
LEMMA OwedSame ==
  ASSUME NEW s, NEW st, st.delegations = s.delegations,
         \A a \in Addresses : st.unbonding[a].amount = s.unbonding[a].amount
  PROVE  /\ UnbondingStake(st) = UnbondingStake(s)
         /\ \A a \in Addresses : Owed(st, a) = Owed(s, a)
<1>1. \A a \in Addresses : Unbonding(st, a) = Unbonding(s, a)
  BY DEF Unbonding
<1>2. [a \in Addresses |-> Unbonding(st, a)] = [a \in Addresses |-> Unbonding(s, a)]
  BY <1>1
<1>3. \A a \in Addresses : Delegated(st, a) = Delegated(s, a)
  BY DEF Delegated
<1> QED
  BY <1>1, <1>2, <1>3 DEF UnbondingStake, Owed

\* The amounts of a chain are numbers.
LEMMA ChainNumbers ==
  ASSUME NEW c, ChainOK(c)
  PROVE  /\ c.accounts \in [DOMAIN c.accounts -> ChainAccounts]
         /\ DOMAIN c.accounts \subseteq Addresses /\ IsFiniteSet(DOMAIN c.accounts)
         /\ c.staking \in StakingStates /\ c.staking.notBonded \in Int
         /\ c.fees[BondDenom] \in Nat /\ c.minted[BondDenom] \in Nat
         /\ HeldStake(c.accounts) \in Nat /\ UnbondingStake(c.staking) \in Nat
<1>1. /\ c.accounts \in [DOMAIN c.accounts -> ChainAccounts]
      /\ DOMAIN c.accounts \subseteq Addresses /\ c.staking \in StakingStates
      /\ c.fees \in Coins /\ c.minted \in Coins
  BY DEF ChainOK, ChainsOf
<1>2. IsFiniteSet(DOMAIN c.accounts)
  BY <1>1, AddressesAssumption, FS_Subset
<1>3. c.fees[BondDenom] \in Nat /\ c.minted[BondDenom] \in Nat
  BY <1>1 DEF Coins
<1> QED
  BY <1>1, <1>2, <1>3, HeldIsNatural, StakeTypes

\* The property about the pool, in terms of the sums.
LEMMA BalancedSums ==
  ASSUME NEW state, state.staking.notBonded \in Int, state.minted[BondDenom] \in Int
  PROVE  BalancedBy(state, 0) <=> Balanced(state)
<1> DEFINE p == state.staking.notBonded
           q == state.minted[BondDenom]
<1>1. p + q + 0 = p + q
  <2>1. p \in Int /\ q \in Int
    OBVIOUS
  <2> HIDE DEF p, q
  <2> QED
    BY <2>1
<1> QED
  BY <1>1 DEF BalancedBy, Balanced, HeldStake, UnbondingStake, StakeOf

\* Coins that come into an account or leave it, while the collected fees, what the
\* bridge has paid, or what is in the middle of a transfer changes by as much.
LEMMA CoinsMoveStake ==
  ASSUME NEW c, ChainOK(c), NEW k \in Int, ChainStakeOK(c, k),
         NEW a \in Addresses, NEW acc, NEW n, Moves(c, n, a, acc), NEW m \in Int,
         n.minted[BondDenom] + m + StakeOf(AccountOf(c, a)) + c.fees[BondDenom]
           = c.minted[BondDenom] + k + StakeOf(acc) + n.fees[BondDenom]
  PROVE  ChainStakeOK(n, m)
<1> DEFINE S == DOMAIN c.accounts
           s == c.staking
           old == AccountOf(c, a)
<1>1. /\ n.accounts \in [S \cup {a} -> ChainAccounts] /\ n.accounts[a] = acc
      /\ \A b \in S : b # a => n.accounts[b] = c.accounts[b]
      /\ n.staking = s /\ ChainOK(n) /\ acc \in ChainAccounts
      /\ acc.kind = old.kind /\ BookOf(acc) = BookOf(old)
  BY DEF Moves, Sets
<1>2. /\ a \in S => old = c.accounts[a]
      /\ a \notin S => old.kind = "base" /\ StakeOf(old) = 0
      /\ old \in ChainAccounts
  BY AccountOfType
<1>3. /\ c.accounts \in [S -> ChainAccounts] /\ IsFiniteSet(S)
      /\ s.notBonded \in Int /\ c.fees[BondDenom] \in Nat /\ c.minted[BondDenom] \in Nat
      /\ HeldStake(c.accounts) \in Nat /\ UnbondingStake(s) \in Nat
  BY ChainNumbers
<1>4. /\ n.fees[BondDenom] \in Nat /\ n.minted[BondDenom] \in Nat
      /\ HeldStake(n.accounts) \in Nat
  BY <1>1, ChainNumbers
<1>5. StakeOf(old) \in Nat /\ StakeOf(acc) \in Nat
  BY <1>1, <1>2, StakeOfNatural
<1> HIDE DEF S, s, old
<1>6. HeldStake(n.accounts) + StakeOf(old) = HeldStake(c.accounts) + StakeOf(acc)
  <2>1. CASE a \in S
    <3>1. S \cup {a} = S
      BY <2>1
    <3>2. n.accounts \in [S -> ChainAccounts]
      BY <1>1, <3>1
    <3> QED
      BY <1>1, <1>2, <1>3, <2>1, <3>2, HeldMoves
  <2>2. CASE a \notin S
    <3>1. /\ DOMAIN c.accounts = S /\ DOMAIN n.accounts = S \cup {a}
          /\ StakeOf(n.accounts[a]) \in Nat
      BY <1>1, <1>5 DEF S
    <3>2. \A b \in S : /\ StakeOf(c.accounts[b]) \in Nat
                       /\ StakeOf(n.accounts[b]) = StakeOf(c.accounts[b])
      BY <1>1, <1>3, <2>2, StakeOfNatural
    <3>3. HeldStake(n.accounts) = HeldStake(c.accounts) + StakeOf(n.accounts[a])
      <4> DEFINE f == c.accounts
                 g == n.accounts
      <4>1. /\ DOMAIN f = S /\ DOMAIN g = S \cup {a} /\ StakeOf(g[a]) \in Nat
            /\ \A b \in S : StakeOf(f[b]) \in Nat /\ StakeOf(g[b]) = StakeOf(f[b])
            /\ IsFiniteSet(S)
        BY <1>3, <3>1, <3>2
      <4> HIDE DEF f, g
      <4>2. HeldStake(g) = HeldStake(f) + StakeOf(g[a])
        BY <2>2, <4>1, HeldGrows
      <4> QED
        BY <4>2 DEF f, g
    <3> QED
      BY <1>1, <1>2, <1>3, <1>5, <2>2, <3>3
  <2> QED
    BY <2>1, <2>2
<1>7. BalancedBy(n, m)
  <2>1. /\ s.notBonded + c.minted[BondDenom] + k =
             HeldStake(c.accounts) + UnbondingStake(s) + c.fees[BondDenom]
        /\ s.bonded = SumFunction(s.delegations)
    BY DEF ChainStakeOK, BalancedBy, s
  <2>2. n.minted[BondDenom] + m + StakeOf(old) + c.fees[BondDenom]
          = c.minted[BondDenom] + k + StakeOf(acc) + n.fees[BondDenom]
    BY DEF old
  <2> DEFINE nb == s.notBonded
             cm == c.minted[BondDenom]
             cf == c.fees[BondDenom]
             nm == n.minted[BondDenom]
             nf == n.fees[BondDenom]
             h == HeldStake(c.accounts)
             g == HeldStake(n.accounts)
             u == UnbondingStake(s)
             x == StakeOf(old)
             y == StakeOf(acc)
  <2>3. /\ nb \in Int /\ cm \in Int /\ cf \in Int /\ nm \in Int /\ nf \in Int
        /\ h \in Int /\ g \in Int /\ u \in Int /\ x \in Int /\ y \in Int
    BY <1>3, <1>4, <1>5
  <2>4. /\ nb + cm + k = h + u + cf /\ nm + m + x + cf = cm + k + y + nf
        /\ g + x = h + y
    BY <1>6, <2>1, <2>2
  <2> HIDE DEF nb, cm, cf, nm, nf, h, g, u, x, y
  <2>5. nb + nm + m = g + u + nf
    BY <2>3, <2>4
  <2> QED
    BY <1>1, <2>1, <2>5 DEF BalancedBy, nb, nm, nf, g, u
<1>8. ASSUME NEW b \in S \cup {a}, n.accounts[b].kind # "base"
      PROVE  Tracked(s, b, n.accounts[b])
  <2>1. CASE b # a
    <3>1. b \in S /\ n.accounts[b] = c.accounts[b]
      BY <1>1, <1>8, <2>1
    <3> QED
      BY <1>8, <3>1 DEF ChainStakeOK, S, s
  <2>2. CASE b = a
    <3>1. /\ a \in S /\ old = c.accounts[a] /\ old.kind # "base"
          /\ BookOf(n.accounts[b]) = BookOf(old)
      BY <1>1, <1>2, <1>8, <2>2
    <3>2. Tracked(s, a, c.accounts[a])
      BY <3>1 DEF ChainStakeOK, S, s
    <3> QED
      BY <2>2, <3>1, <3>2 DEF Tracked
  <2> QED
    BY <2>1, <2>2
<1>9. \A b \in Addresses \ (S \cup {a}) : Owed(s, b) = 0
  BY DEF ChainStakeOK, S, s
<1>10. DOMAIN n.accounts = S \cup {a}
  BY <1>1
<1> QED
  BY <1>1, <1>7, <1>8, <1>9, <1>10 DEF ChainStakeOK

-----------------------------------------------------------------------------
(* Commands, restarts and exports keep the stake in order.                  *)

\* A new file has no account, and nothing is owed to anybody.
LEMMA InitCmdKeepsStake ==
  ASSUME StakeInv, NEW overwrite \in BOOLEAN, InitCmd(overwrite)
  PROVE  StakeInv'
<1>1. /\ file'.accounts = << >> /\ file'.staking = NoStake
      /\ file'.fees[BondDenom] = 0 /\ file'.minted[BondDenom] = 0
      /\ UNCHANGED chain
  BY DEF InitCmd, NoCoins
<1>2. HeldStake(<< >>) = 0
  <2> DEFINE F == [x \in DOMAIN << >> |-> StakeOf(<< >>[x])]
  <2>1. DOMAIN F = {}
    OBVIOUS
  <2> HIDE DEF F
  <2>2. SumFunctionOnSet(F, DOMAIN F) = 0
    BY <2>1, SumOfNone
  <2> QED
    BY <2>2 DEF F, HeldStake, SumFunction
<1>3. \A a \in Addresses : Unbonding(NoStake, a) = 0
  BY DEF NoStake, NotUnbonding, Unbonding
<1>4. UnbondingStake(NoStake) = 0
  <2> DEFINE F == [a \in Addresses |-> Unbonding(NoStake, a)]
  <2>1. DOMAIN F = Addresses /\ \A a \in Addresses : F[a] = 0
    BY <1>3
  <2> HIDE DEF F
  <2>2. SumFunctionOnSet(F, DOMAIN F) = 0
    BY <2>1, SumOfZeros, AddressesAssumption
  <2> QED
    BY <2>2 DEF F, UnbondingStake, SumFunction
<1>5. SumFunction(NoStake.delegations) = 0
  <2> DEFINE D == Addresses \X Validators
             F == NoStake.delegations
  <2>1. DOMAIN F = D /\ \A p \in D : F[p] = 0
    BY DEF NoStake
  <2>2. IsFiniteSet(D)
    BY AddressesAssumption, ValidatorsAssumption, FS_Product
  <2> HIDE DEF F, D
  <2>3. SumFunctionOnSet(F, DOMAIN F) = 0
    BY <2>1, <2>2, SumOfZeros
  <2> QED
    BY <2>3 DEF F, SumFunction
<1>6. ASSUME NEW a \in Addresses PROVE Delegated(NoStake, a) = 0
  <2> DEFINE F == [v \in Validators |-> NoStake.delegations[<<a, v>>]]
  <2>1. \A v \in Validators : F[v] = 0
    BY DEF NoStake
  <2> HIDE DEF F
  <2>2. SumFunctionOnSet(F, Validators) = 0
    BY <2>1, SumOfZeros, ValidatorsAssumption
  <2> QED
    BY <2>2 DEF F, Delegated
<1>7. \A a \in Addresses : Owed(NoStake, a) = 0
  BY <1>3, <1>6 DEF Owed
<1>8. BalancedBy(file', 0)
  <2>1. NoStake.notBonded = 0 /\ NoStake.bonded = 0
    BY DEF NoStake
  <2> QED
    BY <1>1, <1>2, <1>4, <1>5, <2>1 DEF BalancedBy
<1>9. FileStakeOK(file')
  <2>1. DOMAIN << >> = {}
    OBVIOUS
  <2> QED
    BY <1>1, <1>7, <1>8, <2>1 DEF FileStakeOK
<1> QED
  BY <1>1, <1>9 DEF StakeInv

\* An added account brings its stake into the pool, and has delegated nothing.
LEMMA AddGenesisAccountKeepsStake ==
  ASSUME GenesisInv, StakeInv, NEW x \in Additions, AddGenesisAccountCmd(x)
  PROVE  StakeInv'
<1>1. /\ file \in Files /\ FileStakeOK(file) /\ file # None
      /\ ~addGenesisAccount(file, x).failed /\ file' = addGenesisAccount(file, x).state
      /\ UNCHANGED chain
  BY DEF GenesisInv, FileOK, AddGenesisAccountCmd, StakeInv
<1>2. x.address \in Addresses \ AddressesOf(file.accounts)
  BY <1>1, AddedAccount
<1>3. PICK g \in FileAccounts : Adds(file, x, g, file')
  BY <1>1, AddedAccount
<1> DEFINE old == file.accounts
           new == file'.accounts
           s == file.staking
           st == file'.staking
           n == Len(old)
<1>4. /\ n \in Nat /\ DOMAIN old = 1..n /\ DOMAIN new = 1..n + 1
      /\ new[n + 1] = g
      /\ \A i \in 1..n : new[i] = old[i]
      /\ x.coins[BondDenom] \in Nat
      /\ st.notBonded = s.notBonded + x.coins[BondDenom]
      /\ st.bonded = s.bonded
      /\ st.delegations = s.delegations
      /\ st.unbonding = s.unbonding
      /\ file'.fees = file.fees /\ file'.minted = file.minted
  BY <1>1, <1>3, AddsOneEntry
<1>5. /\ g.address = x.address /\ BookOf(g) = 0 /\ StakeOf(g) = x.coins[BondDenom]
  BY <1>3 DEF Adds, StakeOf
<1>6. old \in Seq(FileAccounts) /\ s \in StakingStates
  BY <1>1 DEF Files
<1>7. \A i \in 1..n : old[i] \in FileAccounts /\ StakeOf(old[i]) \in Nat
  BY <1>4, <1>6, StakeOfNatural
<1>8. UnbondingStake(st) = UnbondingStake(s) /\ \A a \in Addresses : Owed(st, a) = Owed(s, a)
  <2> HIDE DEF s, st
  <2> QED
    BY <1>4, OwedSame
<1> HIDE DEF n, old, new, s, st
<1>9. 1..n + 1 = (1..n) \cup {n + 1} /\ n + 1 \notin 1..n /\ IsFiniteSet(1..n)
  <2>1. n \in Int /\ 1 \in Int
    BY <1>4
  <2>2. IsFiniteSet(1..n)
    BY <2>1, FS_Interval
  <2> QED
    BY <1>4, <2>2
<1>10. HeldStake(old) \in Nat /\ HeldStake(new) = HeldStake(old) + StakeOf(new[n + 1])
  <2>1. StakeOf(new[n + 1]) \in Nat
    BY <1>4, <1>5
  <2>2. \A i \in 1..n : StakeOf(old[i]) \in Nat /\ StakeOf(new[i]) = StakeOf(old[i])
    BY <1>4, <1>7
  <2>3. DOMAIN new = (1..n) \cup {n + 1}
    BY <1>4, <1>9
  <2> DEFINE k == n + 1
             T == 1..n
  <2>4. IsFiniteSet(T) /\ k \notin T /\ DOMAIN old = T /\ DOMAIN new = T \cup {k}
    BY <1>4, <1>9, <2>3
  <2>5. /\ StakeOf(new[k]) \in Nat
        /\ \A i \in T : StakeOf(old[i]) \in Nat /\ StakeOf(new[i]) = StakeOf(old[i])
    BY <2>1, <2>2
  <2> HIDE DEF k, T
  <2>6. HeldStake(old) \in Nat /\ HeldStake(new) = HeldStake(old) + StakeOf(new[k])
    BY <2>4, <2>5, HeldGrows
  <2> QED
    BY <2>6 DEF k
<1>11. BalancedBy(file', 0)
  <2>1. /\ s.notBonded + file.minted[BondDenom] + 0 =
             HeldStake(old) + UnbondingStake(s) + file.fees[BondDenom]
        /\ s.bonded = SumFunction(s.delegations)
    BY <1>1 DEF FileStakeOK, BalancedBy, s, old
  <2>2. /\ UnbondingStake(s) \in Nat /\ s.notBonded \in Int
        /\ file.fees[BondDenom] \in Nat /\ file.minted[BondDenom] \in Nat
    BY <1>1, <1>6, StakeTypes DEF Files, Coins
  <2>3. st.notBonded + file.minted[BondDenom] + 0 =
          HeldStake(new) + UnbondingStake(st) + file.fees[BondDenom]
    <3> DEFINE c == x.coins[BondDenom]
               p == HeldStake(old)
               q == UnbondingStake(s)
               m == s.notBonded
               i == file.minted[BondDenom]
               f == file.fees[BondDenom]
    <3>1. c \in Int /\ p \in Int /\ q \in Int /\ m \in Int /\ i \in Int /\ f \in Int
      BY <1>4, <1>10, <2>2
    <3>2. /\ m + i + 0 = p + q + f
          /\ st.notBonded = m + c /\ HeldStake(new) = p + c /\ UnbondingStake(st) = q
      BY <1>4, <1>5, <1>8, <1>10, <2>1
    <3> HIDE DEF c, p, q, m, i, f
    <3>3. (m + c) + i + 0 = (p + c) + q + f
      BY <3>1, <3>2
    <3> QED
      BY <3>2, <3>3 DEF i, f
  <2> QED
    BY <1>4, <2>1, <2>3 DEF BalancedBy, st, new
<1>12. ASSUME NEW i \in DOMAIN new, KindOf(new[i]) # "base"
       PROVE  Tracked(st, new[i].address, new[i])
  <2>1. CASE i = n + 1
    <3>1. Owed(s, x.address) = 0
      BY <1>1, <1>2 DEF FileStakeOK, s
    <3> QED
      BY <1>2, <1>4, <1>5, <1>8, <2>1, <3>1 DEF Tracked
  <2>2. CASE i \in 1..n
    <3>1. new[i] = old[i] /\ old[i].address \in Addresses
      BY <1>4, <1>7, <2>2 DEF FileAccounts
    <3>2. Tracked(s, old[i].address, old[i])
      BY <1>1, <1>4, <1>12, <2>2, <3>1 DEF FileStakeOK, s, old
    <3> QED
      BY <1>8, <3>1, <3>2 DEF Tracked
  <2> QED
    BY <1>4, <1>9, <2>1, <2>2
<1>13. ASSUME NEW a \in Addresses \ AddressesOf(new) PROVE Owed(st, a) = 0
  <2>1. a \notin AddressesOf(old)
    <3>1. \A i \in DOMAIN old : i \in DOMAIN new /\ new[i] = old[i]
      BY <1>4, <1>9
    <3> QED
      BY <3>1 DEF AddressesOf
  <2> QED
    BY <1>1, <1>8, <2>1 DEF FileStakeOK, s, old
<1>14. FileStakeOK(file')
  BY <1>11, <1>12, <1>13 DEF FileStakeOK, st, new
<1> QED
  BY <1>1, <1>14 DEF StakeInv

\* An account comes out of its file with its stake and its books.
LEMMA LoadedParts ==
  ASSUME NEW accounts \in Seq(FileAccounts), ~Panics(accounts),
         \A i, j \in DOMAIN accounts : accounts[i].address = accounts[j].address => i = j,
         NEW i \in DOMAIN accounts, NEW a, a = accounts[i].address
  PROVE  /\ a \in AddressesOf(accounts)
         /\ StakeOf(Loaded(accounts)[a]) = StakeOf(accounts[i])
         /\ Loaded(accounts)[a].kind = KindOf(accounts[i])
         /\ KindOf(accounts[i]) # "base" => BookOf(Loaded(accounts)[a]) = BookOf(accounts[i])
<1>1. a \in AddressesOf(accounts)
  BY DEF AddressesOf
<1>2. PICK j \in DOMAIN accounts :
        /\ accounts[j].address = a
        /\ Loaded(accounts)[a] = [ToAccount(accounts[j]) EXCEPT !.number = j - 1]
  BY <1>1, LoadedType
<1>3. j = i
  BY <1>2
<1> DEFINE g == accounts[i]
           acc == ToAccount(g)
<1>4. Loaded(accounts)[a] = [acc EXCEPT !.number = i - 1]
  BY <1>2, <1>3
<1>5. g \in FileAccounts /\ KindOf(g) # "panic"
  BY DEF Panics
<1>6. acc \in ChainAccounts
  BY <1>5, ToAccountType
<1>7. /\ acc.coins = g.coins /\ acc.kind = KindOf(g)
      /\ KindOf(g) # "base" => BookOf(acc) = BookOf(g)
  BY <1>5, ToAccountParts
<1> HIDE DEF acc, g
<1>8. /\ Loaded(accounts)[a].coins = acc.coins /\ Loaded(accounts)[a].kind = acc.kind
      /\ BookOf(Loaded(accounts)[a]) = BookOf(acc)
  BY <1>4, <1>6 DEF ChainAccounts, BookOf
<1> QED
  BY <1>1, <1>7, <1>8 DEF StakeOf, g

\* A chain takes over the stake of its file, account by account.
LEMMA InitChainerKeepsStake ==
  ASSUME GenesisInv, StakeInv, initFromGenesisState
  PROVE  StakeInv'
<1> DEFINE accounts == file.accounts
           S == AddressesOf(accounts)
           D == DOMAIN accounts
           s == file.staking
           h == [i \in D |-> accounts[i].address]
<1>1. /\ FileOK(file) /\ FileStakeOK(file) /\ ~Panics(accounts)
      /\ chain'.accounts = Loaded(accounts) /\ chain'.staking = s
      /\ chain'.fees = file.fees /\ chain'.minted = file.minted
      /\ UNCHANGED file
  BY DEF GenesisInv, StakeInv, initFromGenesisState
<1>2. /\ accounts \in Seq(FileAccounts)
      /\ \A i, j \in D : accounts[i].address = accounts[j].address => i = j
  BY <1>1 DEF FileOK, Files
<1>3. DOMAIN Loaded(accounts) = S
  BY DEF Loaded
<1>4. /\ IsFiniteSet(D) /\ \A i \in D : accounts[i] \in FileAccounts
  <2>1. Len(accounts) \in Int /\ 1 \in Int /\ D = 1..Len(accounts)
    BY <1>2
  <2> QED
    BY <1>2, <2>1, FS_Interval
<1>5. h \in Bijection(D, S)
  <2>1. h \in [D -> S] /\ \A a \in S : \E i \in D : h[i] = a
    BY DEF AddressesOf
  <2>2. \A i, j \in D : h[i] = h[j] => i = j
    BY <1>2
  <2> HIDE DEF h, D, S
  <2> QED
    BY <2>1, <2>2 DEF Bijection, Injection, Surjection, IsInjective
<1>6. \A i \in D : h[i] = accounts[i].address
  OBVIOUS
<1>7. ASSUME NEW i \in D
      PROVE  /\ StakeOf(Loaded(accounts)[h[i]]) = StakeOf(accounts[i])
             /\ Loaded(accounts)[h[i]].kind = KindOf(accounts[i])
             /\ KindOf(accounts[i]) # "base" =>
                  BookOf(Loaded(accounts)[h[i]]) = BookOf(accounts[i])
  <2> HIDE DEF h, accounts
  <2> QED
    BY <1>1, <1>2, <1>6, LoadedParts
<1> HIDE DEF h, D, S, s
<1>8. HeldStake(Loaded(accounts)) = HeldStake(accounts)
  <2>1. DOMAIN accounts = D
    BY DEF D
  <2>2. \A i \in D : StakeOf(accounts[i]) \in Nat
    BY <1>4, StakeOfNatural
  <2> HIDE DEF accounts
  <2>3. HeldStake(accounts) = HeldStake(Loaded(accounts))
    BY <1>3, <1>4, <1>5, <1>7, <2>1, <2>2, HeldRenamed
  <2> QED
    BY <2>3
<1>9. BalancedBy(chain', 0)
  BY <1>1, <1>8 DEF FileStakeOK, BalancedBy, s
<1>10. ASSUME NEW a \in S, Loaded(accounts)[a].kind # "base"
       PROVE  Tracked(s, a, Loaded(accounts)[a])
  <2>1. PICK i \in D : h[i] = a
    BY <1>5 DEF Bijection, Surjection
  <2>2. Tracked(s, accounts[i].address, accounts[i])
    BY <1>1, <1>7, <1>10, <2>1 DEF FileStakeOK, s, D
  <2> QED
    BY <1>6, <1>7, <1>10, <2>1, <2>2 DEF Tracked
<1>11. \A a \in Addresses \ S : Owed(s, a) = 0
  BY <1>1 DEF FileStakeOK, S, s
<1>12. ChainStakeOK(chain', 0)
  BY <1>1, <1>3, <1>9, <1>10, <1>11 DEF ChainStakeOK
<1> QED
  BY <1>1, <1>12 DEF StakeInv

\* An export writes the stake of the chain into the file, account by account; a
\* height set to zero leaves the amounts.
LEMMA ExportKeepsStake ==
  ASSUME GenesisInv, StakeInv, NEW forZeroHeight \in BOOLEAN,
         NEW whiteList \in SUBSET Validators,
         ExportAppStateAndValidators(forZeroHeight, whiteList)
  PROVE  StakeInv'
<1> DEFINE S == DOMAIN chain.accounts
           n == Cardinality(S)
           s == chain.staking
           st == file'.staking
<1>1. ChainOK(chain) /\ ChainStakeOK(chain, 0) /\ UNCHANGED chain
  BY DEF GenesisInv, StakeInv, ExportAppStateAndValidators
<1>2. /\ S \in SUBSET Addresses /\ s \in StakingStates
      /\ \A a \in S : chain.accounts[a] \in ChainAccounts /\ Sound(chain.accounts[a])
  BY <1>1 DEF ChainOK, ChainsOf
<1>3. PICK order \in IteratedOrders(S) :
        file' = [accounts |-> [i \in DOMAIN order |->
                                 NewGenesisAccountI(order[i], chain.accounts[order[i]])],
                 staking  |-> IF forZeroHeight THEN ZeroHeights(chain.staking)
                              ELSE chain.staking,
                 fees     |-> chain.fees,
                 minted   |-> chain.minted,
                 fresh    |-> forZeroHeight]
  BY DEF ExportAppStateAndValidators
<1>4. /\ n \in Nat /\ order \in [1..n -> S]
      /\ \A i, j \in 1..n : order[i] = order[j] => i = j
      /\ \A a \in S : \E i \in 1..n : order[i] = a
  BY <1>2, OrderVisitsAll
<1> DEFINE D == 1..n
           entries == [i \in D |-> NewGenesisAccountI(order[i], chain.accounts[order[i]])]
<1>5. /\ file'.accounts = entries /\ DOMAIN entries = D
      /\ st = IF forZeroHeight THEN ZeroHeights(s) ELSE s
      /\ file'.fees = chain.fees /\ file'.minted = chain.minted
  BY <1>3, <1>4
<1>6. /\ st.delegations = s.delegations /\ st.notBonded = s.notBonded
      /\ st.bonded = s.bonded
      /\ \A a \in Addresses : st.unbonding[a].amount = s.unbonding[a].amount
  <2>1. /\ ZeroHeights(s).delegations = s.delegations
        /\ ZeroHeights(s).notBonded = s.notBonded /\ ZeroHeights(s).bonded = s.bonded
        /\ \A a \in Addresses : ZeroHeights(s).unbonding[a].amount = s.unbonding[a].amount
    BY <1>2 DEF ZeroHeights, StakingStates
  <2> HIDE DEF s, st
  <2> QED
    BY <1>5, <2>1
<1>7. UnbondingStake(st) = UnbondingStake(s) /\ \A a \in Addresses : Owed(st, a) = Owed(s, a)
  <2> HIDE DEF s, st
  <2> QED
    BY <1>6, OwedSame
<1>8. ASSUME NEW i \in D
      PROVE  /\ order[i] \in S /\ order[i] \in Addresses
             /\ entries[i].address = order[i]
             /\ StakeOf(entries[i]) = StakeOf(chain.accounts[order[i]])
             /\ StakeOf(entries[i]) \in Nat
             /\ BookOf(entries[i]) = BookOf(chain.accounts[order[i]])
             /\ KindOf(entries[i]) = chain.accounts[order[i]].kind
  <2> DEFINE acc == chain.accounts[order[i]]
             g == entries[i]
  <2>1. order[i] \in S /\ acc \in ChainAccounts /\ Sound(acc) /\ order[i] \in Addresses
    BY <1>2, <1>4
  <2>2. g = NewGenesisAccountI(order[i], acc)
    OBVIOUS
  <2> HIDE DEF acc, g
  <2>3. /\ g.address = order[i] /\ StakeOf(g) = StakeOf(acc) /\ BookOf(g) = BookOf(acc)
    BY <2>2 DEF NewGenesisAccountI, StakeOf, BookOf
  <2>4. KindOf(g) = acc.kind
    <3>1. g \in FileAccounts /\ ToAccount(g) = acc
      BY <2>1, <2>2, FileAccountType, RoundTrip
    <3> QED
      BY <3>1, ToAccountParts
  <2>5. StakeOf(acc) \in Nat
    BY <2>1, StakeOfNatural
  <2> QED
    BY <2>1, <2>3, <2>4, <2>5 DEF acc, g
<1>9. IsFiniteSet(D)
  <2>1. n \in Int /\ 1 \in Int
    BY <1>4
  <2> QED
    BY <2>1, FS_Interval
<1>10. order \in Bijection(D, S)
  BY <1>4 DEF Bijection, Injection, Surjection, IsInjective
<1> HIDE DEF D, entries, s, st
<1>11. HeldStake(entries) = HeldStake(chain.accounts)
  <2>1. \A i \in D : StakeOf(entries[i]) \in Nat
                     /\ StakeOf(chain.accounts[order[i]]) = StakeOf(entries[i])
    BY <1>8
  <2>2. DOMAIN chain.accounts = S
    OBVIOUS
  <2> HIDE DEF S
  <2> QED
    BY <1>5, <1>9, <1>10, <2>1, <2>2, HeldRenamed
<1>12. BalancedBy(file', 0)
  <2>1. /\ s.notBonded + chain.minted[BondDenom] + 0 =
             HeldStake(chain.accounts) + UnbondingStake(s) + chain.fees[BondDenom]
        /\ s.bonded = SumFunction(s.delegations)
    BY <1>1 DEF ChainStakeOK, BalancedBy, s
  <2> QED
    BY <1>5, <1>6, <1>7, <1>11, <2>1 DEF BalancedBy, st
<1>13. ASSUME NEW i \in D, KindOf(entries[i]) # "base"
       PROVE  Tracked(st, entries[i].address, entries[i])
  <2>1. Tracked(s, order[i], chain.accounts[order[i]])
    BY <1>1, <1>8, <1>13 DEF ChainStakeOK, s
  <2> QED
    BY <1>7, <1>8, <2>1 DEF Tracked
<1>14. ASSUME NEW a \in Addresses \ AddressesOf(entries) PROVE Owed(st, a) = 0
  <2>1. a \notin S
    <3> SUFFICES ASSUME a \in S PROVE FALSE
      OBVIOUS
    <3>1. PICK i \in D : order[i] = a
      BY <1>4 DEF D
    <3> QED
      BY <1>5, <1>8, <3>1 DEF AddressesOf
  <2> QED
    BY <1>1, <1>7, <2>1 DEF ChainStakeOK, s
<1>15. FileStakeOK(file')
  BY <1>5, <1>12, <1>13, <1>14 DEF FileStakeOK, st
<1> QED
  BY <1>1, <1>15 DEF StakeInv

-----------------------------------------------------------------------------
(* So does a chain at work.                                                 *)

\* A message that moves stake between what an account holds, what it has delegated
\* and what is on its way back, and keeps book of it, leaves the stake in order.
LEMMA WorkKeepsStake ==
  ASSUME NEW c, ChainOK(c), ChainStakeOK(c, 0),
         NEW a \in DOMAIN c.accounts, NEW acc \in ChainAccounts,
         NEW st \in StakingStates, NEW d \in Int, NEW n, Works(c, n, a, acc, st),
         \A b \in Addresses : b # a => st.unbonding[b] = c.staking.unbonding[b],
         SumFunction(st.delegations) = SumFunction(c.staking.delegations) + d,
         Delegated(st, a) = Delegated(c.staking, a) + d,
         \A b \in Addresses : b # a => Delegated(st, b) = Delegated(c.staking, b),
         st.bonded = c.staking.bonded + d,
         st.notBonded + StakeOf(c.accounts[a]) + Unbonding(c.staking, a)
           = c.staking.notBonded + StakeOf(acc) + Unbonding(st, a),
         acc.kind = c.accounts[a].kind,
         acc.kind # "base" =>
           BookOf(acc) + Unbonding(c.staking, a)
             = BookOf(c.accounts[a]) + d + Unbonding(st, a)
  PROVE  ChainStakeOK(n, 0)
<1> DEFINE S == DOMAIN c.accounts
           s == c.staking
           old == c.accounts[a]
           new == n.accounts
<1>1. /\ c.accounts \in [S -> ChainAccounts] /\ S \subseteq Addresses /\ IsFiniteSet(S)
      /\ s \in StakingStates /\ old \in ChainAccounts /\ a \in Addresses
      /\ c.fees[BondDenom] \in Nat /\ c.minted[BondDenom] \in Nat
  BY ChainNumbers
<1>2. /\ new \in [S -> ChainAccounts] /\ new[a] = acc
      /\ \A b \in S : b # a => new[b] = c.accounts[b]
      /\ n.staking = st /\ n.fees = c.fees /\ n.minted = c.minted
  BY DEF Works
<1>4. HeldStake(new) + StakeOf(old) = HeldStake(c.accounts) + StakeOf(acc)
  <2>1. HeldStake(new) + StakeOf(c.accounts[a]) = HeldStake(c.accounts) + StakeOf(new[a])
    <3> HIDE DEF S, new
    <3> QED
      BY <1>1, <1>2, HeldMoves DEF S
  <2> QED
    BY <1>2, <2>1
<1>5. /\ UnbondingStake(st) + Unbonding(s, a) = UnbondingStake(s) + Unbonding(st, a)
      /\ \A b \in Addresses : b # a => Unbonding(st, b) = Unbonding(s, b)
  BY <1>1, UnbondingMoves
<1>6. /\ s.notBonded + c.minted[BondDenom] + 0 =
           HeldStake(c.accounts) + UnbondingStake(s) + c.fees[BondDenom]
      /\ s.bonded = SumFunction(s.delegations)
  BY DEF ChainStakeOK, BalancedBy
<1>7. \A x \in ChainAccounts : BookOf(x) \in Nat
  BY DEF BookOf, ChainAccounts
<1>8. /\ StakeOf(old) \in Int /\ StakeOf(acc) \in Int
      /\ Unbonding(s, a) \in Int /\ Unbonding(st, a) \in Int
      /\ UnbondingStake(s) \in Int /\ UnbondingStake(st) \in Int
      /\ s.notBonded \in Int /\ st.notBonded \in Int
      /\ Delegated(s, a) \in Int /\ Delegated(st, a) \in Int
      /\ BookOf(old) \in Int /\ BookOf(acc) \in Int
  BY <1>1, <1>7, StakeOfNatural, StakeTypes
<1>9. HeldStake(c.accounts) \in Int /\ HeldStake(new) \in Int
  BY <1>1, <1>2, HeldIsNatural
<1>10. BalancedBy(n, 0)
  <2>1. st.notBonded + c.minted[BondDenom] + 0 =
          HeldStake(new) + UnbondingStake(st) + c.fees[BondDenom]
    <3>1. st.notBonded + StakeOf(old) + Unbonding(s, a)
            = s.notBonded + StakeOf(acc) + Unbonding(st, a)
      OBVIOUS
    <3> DEFINE e == st.notBonded
               m == s.notBonded
               h == HeldStake(new)
               k == HeldStake(c.accounts)
               p == UnbondingStake(s)
               q == UnbondingStake(st)
               x == StakeOf(old)
               y == StakeOf(acc)
               u == Unbonding(s, a)
               w == Unbonding(st, a)
               i == c.minted[BondDenom]
               f == c.fees[BondDenom]
    <3>2. /\ e \in Int /\ m \in Int /\ h \in Int /\ k \in Int /\ p \in Int /\ q \in Int
          /\ x \in Int /\ y \in Int /\ u \in Int /\ w \in Int /\ i \in Int /\ f \in Int
      BY <1>1, <1>8, <1>9
    <3>3. /\ e + x + u = m + y + w /\ h + x = k + y /\ q + u = p + w
          /\ m + i + 0 = k + p + f
      BY <1>4, <1>5, <1>6, <3>1
    <3> HIDE DEF e, m, h, k, p, q, x, y, u, w, i, f
    <3>4. e + i + 0 = h + q + f
      BY <3>2, <3>3
    <3> QED
      BY <3>4 DEF e, i, h, q, f
  <2>2. st.bonded = SumFunction(st.delegations)
    BY <1>6
  <2> QED
    BY <1>2, <2>1, <2>2 DEF BalancedBy
<1>11. \A b \in Addresses : b # a => Owed(st, b) = Owed(s, b)
  BY <1>5 DEF Owed
<1>12. ASSUME NEW b \in S, new[b].kind # "base" PROVE Tracked(st, b, new[b])
  <2>1. CASE b # a
    <3>1. new[b] = c.accounts[b] /\ b \in Addresses
      BY <1>1, <1>2, <2>1
    <3>2. Tracked(s, b, c.accounts[b])
      BY <1>12, <3>1 DEF ChainStakeOK
    <3> HIDE DEF new, s
    <3> QED
      BY <1>11, <2>1, <3>1, <3>2 DEF Tracked
  <2>2. CASE b = a
    <3>1. new[b] = acc /\ acc.kind # "base" /\ old.kind # "base"
      BY <1>2, <1>12, <2>2
    <3>2. BookOf(old) = Delegated(s, a) + Unbonding(s, a)
      BY <3>1 DEF ChainStakeOK, Tracked, Owed
    <3>3. BookOf(acc) + Unbonding(s, a) = BookOf(old) + d + Unbonding(st, a)
      BY <3>1
    <3>4. Delegated(st, a) = Delegated(s, a) + d
      OBVIOUS
    <3>5. BookOf(acc) = Delegated(st, a) + Unbonding(st, a)
      <4> DEFINE k == BookOf(old)
                 l == BookOf(acc)
                 p == Delegated(s, a)
                 q == Delegated(st, a)
                 u == Unbonding(s, a)
                 w == Unbonding(st, a)
      <4>1. /\ k \in Int /\ l \in Int /\ p \in Int /\ q \in Int /\ u \in Int /\ w \in Int
            /\ d \in Int
        BY <1>8
      <4>2. k = p + u /\ l + u = k + d + w /\ q = p + d
        BY <3>2, <3>3, <3>4
      <4> HIDE DEF k, l, p, q, u, w
      <4>3. l = q + w
        BY <4>1, <4>2
      <4> QED
        BY <4>3 DEF l, q, w
    <3> HIDE DEF new
    <3> QED
      BY <2>2, <3>1, <3>5 DEF Tracked, Owed
  <2> QED
    BY <2>1, <2>2
<1>13. \A b \in Addresses \ S : Owed(st, b) = 0
  BY <1>1, <1>11 DEF ChainStakeOK
<1>14. DOMAIN new = S
  BY <1>2
<1> HIDE DEF S, s, old
<1> QED
  BY <1>2, <1>10, <1>12, <1>13, <1>14 DEF ChainStakeOK

\* What a message on stake needs to know of the chain it works on.
LEMMA WorkNumbers ==
  ASSUME NEW c, ChainOK(c), NEW a \in DOMAIN c.accounts
  PROVE  /\ c.staking \in StakingStates /\ a \in Addresses
         /\ c.accounts[a] \in ChainAccounts /\ Sound(c.accounts[a])
         /\ StakeOf(c.accounts[a]) \in Int /\ BookOf(c.accounts[a]) \in Int
         /\ \A v \in Validators : /\ <<a, v>> \in Addresses \X Validators
                                  /\ c.staking.delegations[<<a, v>>] \in Nat
         /\ c.staking.notBonded \in Int /\ c.staking.bonded \in Int
         /\ SumFunction(c.staking.delegations) \in Int
         /\ Unbonding(c.staking, a) \in Int /\ Delegated(c.staking, a) \in Nat
<1>1. /\ c.staking \in StakingStates /\ a \in Addresses
      /\ c.accounts[a] \in ChainAccounts /\ Sound(c.accounts[a])
  BY DEF ChainOK, ChainsOf
<1>2. \A x \in ChainAccounts : StakeOf(x) \in Nat /\ BookOf(x) \in Nat
  BY DEF StakeOf, BookOf, ChainAccounts, Coins
<1>3. \A v \in Validators : <<a, v>> \in Addresses \X Validators
  BY <1>1
<1> QED
  BY <1>1, <1>2, <1>3, StakeTypes

\* A delegation leaves the not bonded part of the pool and enters the bonded one.
LEMMA DelegateKeepsStake ==
  ASSUME NEW c, ChainOK(c), ChainStakeOK(c, 0), NEW a \in DOMAIN c.accounts,
         NEW v \in Validators, Delegate(c, a, v)
  PROVE  ChainStakeOK(chain', 0)
<1>1. PICK acc \in ChainAccounts, st \in StakingStates, amount \in Nat :
        Delegates(c, a, v, acc, st, amount)
  BY DelegateDelegates
<1> DEFINE s == c.staking
           old == c.accounts[a]
<1>2. /\ s \in StakingStates /\ a \in Addresses /\ StakeOf(old) \in Int /\ BookOf(old) \in Int
      /\ s.delegations[<<a, v>>] \in Nat /\ s.notBonded \in Int /\ s.bonded \in Int
      /\ Unbonding(s, a) \in Int
  BY WorkNumbers
<1>3. Works(c, chain', a, acc, st)
  BY <1>1, WorkKeeps DEF Delegates
<1> DEFINE n == s.delegations[<<a, v>>] + amount
<1>4. n \in Nat /\ st.delegations = [s.delegations EXCEPT ![<<a, v>>] = n]
  BY <1>1, <1>2 DEF Delegates
<1>5. /\ SumFunction(st.delegations) = SumFunction(s.delegations) + amount
      /\ Delegated(st, a) = Delegated(s, a) + amount
      /\ \A b \in Addresses : b # a => Delegated(st, b) = Delegated(s, b)
  <2>1. n = s.delegations[<<a, v>>] + amount /\ amount \in Int
    OBVIOUS
  <2> HIDE DEF n, s
  <2> QED
    BY <1>2, <1>4, <2>1, DelegationMoves
<1>7. /\ st.unbonding = s.unbonding /\ Unbonding(st, a) = Unbonding(s, a)
      /\ st.bonded = s.bonded + amount
      /\ acc.kind = old.kind
  BY <1>1 DEF Delegates, Unbonding
<1>8. st.notBonded + StakeOf(old) + Unbonding(s, a)
        = s.notBonded + StakeOf(acc) + Unbonding(st, a)
  <2>1. st.notBonded = s.notBonded - amount /\ StakeOf(acc) = StakeOf(old) - amount
    BY <1>1 DEF Delegates
  <2> HIDE DEF s, old
  <2> QED
    BY <1>2, <1>7, <2>1
<1>9. acc.kind # "base" => BookOf(acc) + Unbonding(s, a) = BookOf(old) + amount + Unbonding(st, a)
  <2>1. acc.kind # "base" => BookOf(acc) = BookOf(old) + amount
    BY <1>1 DEF Delegates
  <2> HIDE DEF s, old
  <2> QED
    BY <1>2, <1>7, <2>1
<1>10. amount \in Int /\ \A b \in Addresses : b # a => st.unbonding[b] = s.unbonding[b]
  BY <1>7
<1> QED
  BY <1>3, <1>5, <1>7, <1>8, <1>9, <1>10, WorkKeepsStake

\* An unbonding goes the other way and is owed to the account in another form.
LEMMA UndelegateKeepsStake ==
  ASSUME NEW c, ChainOK(c), ChainStakeOK(c, 0), NEW a \in DOMAIN c.accounts,
         NEW v \in Validators, Undelegate(c, a, v)
  PROVE  ChainStakeOK(chain', 0)
<1>1. PICK acc \in ChainAccounts, st \in StakingStates, amount \in Nat :
        Undelegates(c, a, v, acc, st, amount)
  BY UndelegateUndelegates
<1> DEFINE s == c.staking
           old == c.accounts[a]
<1>2. /\ s \in StakingStates /\ a \in Addresses /\ Sound(old)
      /\ StakeOf(old) \in Int /\ BookOf(old) \in Int
      /\ s.delegations[<<a, v>>] \in Nat /\ s.notBonded \in Int /\ s.bonded \in Int
  BY WorkNumbers
<1>3. Works(c, chain', a, acc, st)
  BY <1>1, <1>2, WorkKeeps DEF Undelegates
<1> DEFINE n == s.delegations[<<a, v>>] - amount
           d == -amount
<1>4. n \in Nat /\ st.delegations = [s.delegations EXCEPT ![<<a, v>>] = n]
  <2>1. amount <= s.delegations[<<a, v>>]
    BY <1>1 DEF Undelegates
  <2>2. n \in Nat
    BY <1>2, <2>1
  <2>3. st.delegations = [s.delegations EXCEPT ![<<a, v>>] = n]
    BY <1>1 DEF Undelegates
  <2> QED
    BY <2>2, <2>3
<1>5. /\ SumFunction(st.delegations) = SumFunction(s.delegations) + d
      /\ Delegated(st, a) = Delegated(s, a) + d
      /\ \A b \in Addresses : b # a => Delegated(st, b) = Delegated(s, b)
  <2>1. n = s.delegations[<<a, v>>] + d /\ d \in Int
    <3> HIDE DEF s
    <3> QED
      BY <1>2
  <2> HIDE DEF n, s, d
  <2> QED
    BY <1>2, <1>4, <2>1, DelegationMoves
<1>6. d \in Int
  OBVIOUS
<1>7. /\ Unbonding(s, a) = 0 /\ Unbonding(st, a) = amount
      /\ \A b \in Addresses : b # a => st.unbonding[b] = s.unbonding[b]
  BY <1>1, <1>2 DEF Undelegates, Unbonding, StakingStates
<1>8. acc.kind = old.kind
  BY <1>1 DEF Undelegates
<1>9. st.bonded = s.bonded + d
  <2>1. st.bonded = s.bonded - amount
    BY <1>1 DEF Undelegates
  <2> HIDE DEF s
  <2> QED
    BY <1>2, <2>1
<1>10. st.notBonded + StakeOf(old) + Unbonding(s, a)
         = s.notBonded + StakeOf(acc) + Unbonding(st, a)
  <2>1. st.notBonded = s.notBonded + amount /\ StakeOf(acc) = StakeOf(old)
    BY <1>1 DEF Undelegates
  <2> HIDE DEF s, old
  <2> QED
    BY <1>2, <1>7, <2>1
<1>11. BookOf(acc) + Unbonding(s, a) = BookOf(old) + d + Unbonding(st, a)
  <2>1. BookOf(acc) = BookOf(old)
    BY <1>1 DEF Undelegates
  <2> HIDE DEF s, old
  <2> QED
    BY <1>2, <1>7, <2>1
<1> HIDE DEF d
<1> QED
  BY <1>3, <1>5, <1>6, <1>7, <1>8, <1>9, <1>10, <1>11, WorkKeepsStake

\* What is given back was owed: the account has written down at least as much.
LEMMA CompleteUnbondingKeepsStake ==
  ASSUME ChainOK(chain), ChainStakeOK(chain, 0), NEW a \in DOMAIN chain.accounts,
         CompleteUnbonding(a)
  PROVE  ChainStakeOK(chain', 0)
<1>1. PICK acc \in ChainAccounts, st \in StakingStates, amount \in Nat :
        Completes(chain, a, acc, st, amount)
  BY CompleteCompletes
<1> DEFINE s == chain.staking
           old == chain.accounts[a]
           d == 0
<1>2. /\ s \in StakingStates /\ a \in Addresses
      /\ StakeOf(old) \in Int /\ BookOf(old) \in Int
      /\ s.notBonded \in Int /\ s.bonded \in Int
      /\ SumFunction(s.delegations) \in Int
      /\ Delegated(s, a) \in Nat
  BY WorkNumbers
<1>3. Works(chain, chain', a, acc, st)
  BY <1>1, WorkKeeps DEF Completes
<1>4. /\ st.delegations = s.delegations /\ st.bonded = s.bonded /\ acc.kind = old.kind
  BY <1>1 DEF Completes
<1>5. \A b \in Addresses : Delegated(st, b) = Delegated(s, b)
  BY <1>4 DEF Delegated
<1>6. /\ SumFunction(st.delegations) = SumFunction(s.delegations) + d
      /\ Delegated(st, a) = Delegated(s, a) + d
      /\ st.bonded = s.bonded + d /\ d \in Int
  <2> HIDE DEF s
  <2> QED
    BY <1>2, <1>4, <1>5
<1>7. /\ Unbonding(s, a) = amount /\ Unbonding(st, a) = 0
      /\ \A b \in Addresses : b # a => st.unbonding[b] = s.unbonding[b]
  BY <1>1, <1>2 DEF Completes, Unbonding, StakingStates, NotUnbonding
<1>8. st.notBonded + StakeOf(old) + Unbonding(s, a)
        = s.notBonded + StakeOf(acc) + Unbonding(st, a)
  <2>1. st.notBonded = s.notBonded /\ StakeOf(acc) = StakeOf(old) + amount
    BY <1>1 DEF Completes
  <2> HIDE DEF s, old
  <2> QED
    BY <1>2, <1>7, <2>1
<1>9. acc.kind # "base" => BookOf(acc) + Unbonding(s, a) = BookOf(old) + d + Unbonding(st, a)
  <2> SUFFICES ASSUME acc.kind # "base"
               PROVE  BookOf(acc) + Unbonding(s, a) = BookOf(old) + d + Unbonding(st, a)
    OBVIOUS
  <2>1. BookOf(old) = Delegated(s, a) + Unbonding(s, a)
    BY <1>4 DEF ChainStakeOK, Tracked, Owed
  <2>2. amount <= BookOf(old) => BookOf(acc) = BookOf(old) - amount
    BY <1>1 DEF Completes
  <2> HIDE DEF s, old
  <2>3. amount <= BookOf(old)
    BY <1>2, <1>7, <2>1
  <2> QED
    BY <1>2, <1>7, <2>2, <2>3
<1>10. \A b \in Addresses : b # a => Delegated(st, b) = Delegated(s, b)
  BY <1>5
<1> DEFINE n == chain'
<1>11. Works(chain, n, a, acc, st) /\ acc.kind = old.kind
  BY <1>3, <1>4
<1> HIDE DEF d, n
<1>12. ChainStakeOK(n, 0)
  BY <1>6, <1>7, <1>8, <1>9, <1>10, <1>11, WorkKeepsStake
<1> QED
  BY <1>12 DEF n

\* A fee is counted where it is collected.
LEMMA AnteHandlerKeepsStake ==
  ASSUME NEW c, ChainOK(c), ChainStakeOK(c, 0), NEW a \in DOMAIN c.accounts,
         NEW fee \in Coins, Covers(c.accounts[a].coins, fee),
         NEW n, n = AnteHandler(c, a, fee)
  PROVE  ChainStakeOK(n, 0)
<1>1. n.fees[BondDenom] = c.fees[BondDenom] + fee[BondDenom] /\ n.minted = c.minted
  BY AnteHandlerMoves
<1>2. PICK acc : /\ Moves(c, n, a, acc)
                 /\ StakeOf(acc) = StakeOf(AccountOf(c, a)) - fee[BondDenom]
  BY AnteHandlerMoves
<1>3. /\ a \in Addresses /\ c.fees[BondDenom] \in Nat /\ c.minted[BondDenom] \in Nat
      /\ fee[BondDenom] \in Nat /\ StakeOf(AccountOf(c, a)) \in Nat
  BY ChainNumbers, AccountOfType, StakeOfNatural DEF Coins
<1>4. n.minted[BondDenom] + 0 + StakeOf(AccountOf(c, a)) + c.fees[BondDenom]
        = c.minted[BondDenom] + 0 + StakeOf(acc) + n.fees[BondDenom]
  <2> DEFINE i == c.minted[BondDenom]
             x == StakeOf(AccountOf(c, a))
             f == c.fees[BondDenom]
             e == fee[BondDenom]
  <2>1. i \in Int /\ x \in Int /\ f \in Int /\ e \in Int
    BY <1>3
  <2>2. n.minted[BondDenom] = i /\ StakeOf(acc) = x - e /\ n.fees[BondDenom] = f + e
    BY <1>1, <1>2
  <2> HIDE DEF i, x, f, e
  <2>3. i + 0 + x + f = i + 0 + (x - e) + (f + e)
    BY <2>1
  <2> QED
    BY <2>2, <2>3 DEF i, x, f
<1> DEFINE k == 0
<1>5. /\ k \in Int /\ ChainStakeOK(c, k)
      /\ n.minted[BondDenom] + k + StakeOf(AccountOf(c, a)) + c.fees[BondDenom]
           = c.minted[BondDenom] + k + StakeOf(acc) + n.fees[BondDenom]
  BY <1>4
<1> HIDE DEF k
<1>6. ChainStakeOK(n, k)
  BY <1>2, <1>3, <1>5, CoinsMoveStake
<1> QED
  BY <1>6 DEF k

\* A payment of the bridge is counted as one.
LEMMA MintKeepsStake ==
  ASSUME NEW c, ChainOK(c), ChainStakeOK(c, 0), NEW b \in Addresses,
         NEW coins \in Coins, Mint(c, b, coins)
  PROVE  ChainStakeOK(chain', 0)
<1>1. /\ chain'.fees = c.fees
      /\ chain'.minted[BondDenom] = c.minted[BondDenom] + coins[BondDenom]
  BY MintMoves
<1>2. PICK acc : /\ Moves(c, chain', b, acc)
                 /\ StakeOf(acc) = StakeOf(AccountOf(c, b)) + coins[BondDenom]
  BY MintMoves
<1>3. /\ c.fees[BondDenom] \in Nat /\ c.minted[BondDenom] \in Nat
      /\ coins[BondDenom] \in Nat /\ StakeOf(AccountOf(c, b)) \in Nat
  BY ChainNumbers, AccountOfType, StakeOfNatural DEF Coins
<1> DEFINE k == 0
<1>4. /\ k \in Int /\ ChainStakeOK(c, k)
      /\ chain'.minted[BondDenom] + k + StakeOf(AccountOf(c, b)) + c.fees[BondDenom]
           = c.minted[BondDenom] + k + StakeOf(acc) + chain'.fees[BondDenom]
  <2> DEFINE i == c.minted[BondDenom]
             x == StakeOf(AccountOf(c, b))
             f == c.fees[BondDenom]
             e == coins[BondDenom]
  <2>1. i \in Int /\ x \in Int /\ f \in Int /\ e \in Int
    BY <1>3
  <2>2. chain'.minted[BondDenom] = i + e /\ StakeOf(acc) = x + e /\ chain'.fees[BondDenom] = f
    BY <1>1, <1>2
  <2> HIDE DEF i, x, f, e
  <2>3. (i + e) + k + x + f = i + k + (x + e) + f
    BY <2>1
  <2> QED
    BY <2>2, <2>3 DEF i, x, f
<1> HIDE DEF k
<1> DEFINE n == chain'
<1>5. /\ Moves(c, n, b, acc)
      /\ n.minted[BondDenom] + k + StakeOf(AccountOf(c, b)) + c.fees[BondDenom]
           = c.minted[BondDenom] + k + StakeOf(acc) + n.fees[BondDenom]
  BY <1>2, <1>4
<1> HIDE DEF n
<1>6. ChainStakeOK(n, k)
  BY <1>4, <1>5, CoinsMoveStake
<1> QED
  BY <1>6 DEF n, k

\* Coins sent are missing until they arrive.
LEMMA SendKeepsStake ==
  ASSUME NEW c, ChainOK(c), ChainStakeOK(c, 0), NEW a \in DOMAIN c.accounts,
         NEW b \in Addresses, NEW coins \in Coins, Send(c, a, b, coins)
  PROVE  ChainStakeOK(chain', 0)
<1> DEFINE m == SubtractCoins(c, a, coins)
           e == coins[BondDenom]
           k == 0
           l == -e
<1>1. /\ m.fees = c.fees /\ m.minted = c.minted
      /\ chain'.fees = c.fees /\ chain'.minted = c.minted
      /\ \E acc : Moves(c, m, a, acc) /\ StakeOf(acc) = StakeOf(AccountOf(c, a)) - e
      /\ \E acc : Moves(m, chain', b, acc) /\ StakeOf(acc) = StakeOf(AccountOf(m, b)) + e
  BY SendMoves
<1> HIDE DEF m
<1>2. PICK acc : Moves(c, m, a, acc) /\ StakeOf(acc) = StakeOf(AccountOf(c, a)) - e
  BY <1>1
<1>3. PICK paid : Moves(m, chain', b, paid) /\ StakeOf(paid) = StakeOf(AccountOf(m, b)) + e
  BY <1>1
<1>4. ChainOK(m) /\ a \in Addresses
  BY <1>2, ChainNumbers DEF Moves
<1>5. /\ c.fees[BondDenom] \in Int /\ c.minted[BondDenom] \in Int /\ e \in Int
      /\ StakeOf(AccountOf(c, a)) \in Int /\ StakeOf(AccountOf(m, b)) \in Int
  BY <1>4, ChainNumbers, AccountOfType, StakeOfNatural DEF Coins
<1> HIDE DEF e
<1>6. k \in Int /\ l \in Int /\ ChainStakeOK(c, k) /\ k = 0 /\ l = -e
  BY <1>5
<1> HIDE DEF k, l
<1>7. ChainStakeOK(m, l)
  <2>1. m.minted[BondDenom] + l + StakeOf(AccountOf(c, a)) + c.fees[BondDenom]
          = c.minted[BondDenom] + k + StakeOf(acc) + m.fees[BondDenom]
    <3> DEFINE i == c.minted[BondDenom]
               x == StakeOf(AccountOf(c, a))
               f == c.fees[BondDenom]
    <3>1. i \in Int /\ x \in Int /\ f \in Int
      BY <1>5
    <3>2. m.minted[BondDenom] = i /\ StakeOf(acc) = x - e /\ m.fees[BondDenom] = f
      BY <1>1, <1>2
    <3> HIDE DEF i, x, f
    <3>3. i + l + x + f = i + k + (x - e) + f
      BY <1>5, <1>6, <3>1
    <3> QED
      BY <3>2, <3>3 DEF i, x, f
  <2> QED
    BY <1>2, <1>4, <1>6, <2>1, CoinsMoveStake
<1>8. ChainStakeOK(chain', k)
  <2>1. chain'.minted[BondDenom] + k + StakeOf(AccountOf(m, b)) + m.fees[BondDenom]
          = m.minted[BondDenom] + l + StakeOf(paid) + chain'.fees[BondDenom]
    <3> DEFINE i == c.minted[BondDenom]
               x == StakeOf(AccountOf(m, b))
               f == c.fees[BondDenom]
    <3>1. i \in Int /\ x \in Int /\ f \in Int
      BY <1>5
    <3>2. /\ chain'.minted[BondDenom] = i /\ StakeOf(paid) = x + e
          /\ chain'.fees[BondDenom] = f
          /\ m.minted[BondDenom] = i /\ m.fees[BondDenom] = f
      BY <1>1, <1>3
    <3> HIDE DEF i, x, f
    <3>3. i + k + x + f = i + l + (x + e) + f
      BY <1>5, <1>6, <3>1
    <3> QED
      BY <3>2, <3>3 DEF i, x, f
  <2> DEFINE n == chain'
  <2>2. /\ Moves(m, n, b, paid)
        /\ n.minted[BondDenom] + k + StakeOf(AccountOf(m, b)) + m.fees[BondDenom]
             = m.minted[BondDenom] + l + StakeOf(paid) + n.fees[BondDenom]
    BY <1>3, <2>1
  <2> HIDE DEF n
  <2>3. ChainStakeOK(n, k)
    BY <1>4, <1>6, <1>7, <2>2, CoinsMoveStake
  <2> QED
    BY <2>3 DEF n
<1> QED
  BY <1>6, <1>8

\* A transaction leaves the stake in order, whatever it carries and also if it fails.
LEMMA TransactionKeepsStake ==
  ASSUME ChainOK(chain), ChainStakeOK(chain, 0), NEW a \in DOMAIN chain.accounts,
         NEW fee \in Fees, Transaction(a, fee)
  PROVE  ChainStakeOK(chain', 0)
<1> DEFINE c == AnteHandler(chain, a, fee)
<1>1. /\ ChainOK(c) /\ a \in DOMAIN c.accounts
      /\ fee \in Coins /\ Covers(chain.accounts[a].coins, fee)
      /\ \/ chain' = c
         \/ \E v \in Validators : Delegate(c, a, v) \/ Undelegate(c, a, v)
         \/ \E b \in Addresses, coins \in Coins : Send(c, a, b, coins) \/ Mint(c, b, coins)
  BY TransactionSteps
<1>2. ChainStakeOK(c, 0)
  BY <1>1, AnteHandlerKeepsStake
<1> HIDE DEF c
<1>3. CASE chain' = c
  BY <1>2, <1>3
<1>4. ASSUME NEW v \in Validators, Delegate(c, a, v) PROVE ChainStakeOK(chain', 0)
  BY <1>1, <1>2, <1>4, DelegateKeepsStake
<1>5. ASSUME NEW v \in Validators, Undelegate(c, a, v) PROVE ChainStakeOK(chain', 0)
  BY <1>1, <1>2, <1>5, UndelegateKeepsStake
<1>6. ASSUME NEW b \in Addresses, NEW coins \in Coins, Send(c, a, b, coins)
      PROVE  ChainStakeOK(chain', 0)
  BY <1>1, <1>2, <1>6, SendKeepsStake
<1>7. ASSUME NEW b \in Addresses, NEW coins \in Coins, Mint(c, b, coins)
      PROVE  ChainStakeOK(chain', 0)
  BY <1>1, <1>2, <1>7, MintKeepsStake
<1> QED
  BY <1>1, <1>3, <1>4, <1>5, <1>6, <1>7

\* A block moves no stake.
LEMMA CommitBlockKeepsStake ==
  ASSUME ChainOK(chain), ChainStakeOK(chain, 0), CommitBlock
  PROVE  ChainStakeOK(chain', 0)
<1>1. /\ chain'.accounts = chain.accounts /\ chain'.staking = chain.staking
      /\ chain'.fees = chain.fees /\ chain'.minted = chain.minted
  BY DEF ChainOK, ChainsOf, CommitBlock
<1> QED
  BY <1>1 DEF ChainStakeOK, BalancedBy

\* So does every step of a chain at work.
LEMMA RunChainKeepsStake ==
  ASSUME GenesisInv, StakeInv, RunChain
  PROVE  StakeInv'
<1>1. ChainOK(chain) /\ ChainStakeOK(chain, 0) /\ UNCHANGED file
  BY DEF GenesisInv, StakeInv, RunChain
<1>2. ChainStakeOK(chain', 0)
  BY <1>1, TransactionKeepsStake, CompleteUnbondingKeepsStake, CommitBlockKeepsStake DEF RunChain
<1> QED
  BY <1>1, <1>2 DEF StakeInv

-----------------------------------------------------------------------------
(* The theorems.                                                            *)

\* Every command, restart, export and step of a chain keeps the first invariant.
LEMMA GenesisInvStep == GenesisInv /\ [Next]_vars => GenesisInv'
<1> SUFFICES ASSUME GenesisInv, [Next]_vars
             PROVE  GenesisInv'
  OBVIOUS
<1>1. CASE \E overwrite \in BOOLEAN : InitCmd(overwrite)
  BY <1>1, InitCmdKeeps
<1>2. CASE \E x \in Additions : AddGenesisAccountCmd(x)
  BY <1>2, AddGenesisAccountKeeps
<1>3. CASE initFromGenesisState
  BY <1>3, InitChainerKeeps
<1>4. CASE \E forZeroHeight \in BOOLEAN, whiteList \in SUBSET Validators :
             ExportAppStateAndValidators(forZeroHeight, whiteList)
  BY <1>4, ExportKeeps
<1>5. CASE RunChain
  BY <1>5, RunChainKeeps
<1>6. CASE UNCHANGED vars
  BY <1>6 DEF vars, GenesisInv
<1> QED
  BY <1>1, <1>2, <1>3, <1>4, <1>5, <1>6 DEF Next

\* So it always holds.
LEMMA GenesisInvariance == Spec => []GenesisInv
BY GenesisInvInit, GenesisInvStep, PTL DEF Spec

\* Before the first command there is no stake.
LEMMA StakeInvInit == Init => StakeInv
BY DEF Init, StakeInv

\* Given the first invariant, every step keeps the stake in order.
LEMMA StakeInvStep == GenesisInv /\ StakeInv /\ [Next]_vars => StakeInv'
<1> SUFFICES ASSUME GenesisInv, StakeInv, [Next]_vars
             PROVE  StakeInv'
  OBVIOUS
<1>1. CASE \E overwrite \in BOOLEAN : InitCmd(overwrite)
  BY <1>1, InitCmdKeepsStake
<1>2. CASE \E x \in Additions : AddGenesisAccountCmd(x)
  BY <1>2, AddGenesisAccountKeepsStake
<1>3. CASE initFromGenesisState
  BY <1>3, InitChainerKeepsStake
<1>4. CASE \E forZeroHeight \in BOOLEAN, whiteList \in SUBSET Validators :
             ExportAppStateAndValidators(forZeroHeight, whiteList)
  BY <1>4, ExportKeepsStake
<1>5. CASE RunChain
  BY <1>5, RunChainKeepsStake
<1>6. CASE UNCHANGED vars
  BY <1>6 DEF vars, StakeInv
<1> QED
  BY <1>1, <1>2, <1>3, <1>4, <1>5, <1>6 DEF Next

\* So the stake is always in order.
LEMMA StakeInvariance == Spec => []StakeInv
BY GenesisInvariance, StakeInvInit, StakeInvStep, PTL DEF Spec

\* Files and chains are well typed, and every account of a chain is of a kind that
\* a file tells (genesis.go:36-69, 92-110).
THEOREM GenesisTypeCorrect == Spec => []GenesisTypeOK
<1>1. GenesisInv => GenesisTypeOK
  BY DEF GenesisInv, FileOK, ChainOK, ChainsOf, Files, GenesisTypeOK
<1> QED
  BY <1>1, GenesisInvariance, PTL

\* No file of the commands or of an export keeps a chain from starting
\* (genesis.go:63, main.go:274-278, 296).
THEOREM EveryFileStarts == Spec => []FilesStart
<1>1. GenesisInv => FilesStart
  BY DEF GenesisInv, FileOK, FilesStart
<1> QED
  BY <1>1, GenesisInvariance, PTL

\* No two accounts of a chain share the number they sign with (app.go:159-162).
THEOREM NumbersAlwaysIdentify == Spec => []NumbersIdentify
<1>1. GenesisInv => NumbersIdentify
  BY DEF GenesisInv, ChainOK, NumbersIdentify
<1> QED
  BY <1>1, GenesisInvariance, PTL

\* A chain started from a file for height zero has no height of the future in it
\* (export.go:76-95).
THEOREM HeightsAlwaysPast == Spec => []HeightsArePast
<1>1. GenesisInv => HeightsArePast
  BY DEF GenesisInv, ChainOK, HeightsArePast
<1> QED
  BY <1>1, GenesisInvariance, PTL

\* In every file and every chain, what the pool has not bonded and what the bridge has
\* paid in stake make up what accounts hold, are waiting for and have paid as fees,
\* and what it has bonded is what they have delegated: nothing but a payment of the
\* bridge makes stake the pool does not know of (main.go:282, 217-227,
\* export.go:28-42, app.go:90, 170, handler.go:52-63).
THEOREM PoolAlwaysBalanced == Spec => []PoolCountsStake
<1>1. GenesisInv /\ StakeInv => PoolCountsStake
  <2> SUFFICES ASSUME GenesisInv, StakeInv PROVE PoolCountsStake
    OBVIOUS
  <2>1. ASSUME file # None PROVE Balanced(file)
    <3>1. BalancedBy(file, 0) /\ file \in Files
      BY <2>1 DEF GenesisInv, StakeInv, FileOK, FileStakeOK
    <3>2. file.staking.notBonded \in Int /\ file.minted[BondDenom] \in Int
      BY <3>1 DEF Files, StakingStates, Coins
    <3> QED
      BY <3>1, <3>2, BalancedSums
  <2>2. ASSUME chain # None PROVE Balanced(chain)
    <3>1. BalancedBy(chain, 0) /\ ChainOK(chain)
      BY <2>2 DEF GenesisInv, StakeInv, ChainStakeOK
    <3> QED
      BY <3>1, ChainNumbers, BalancedSums
  <2> QED
    BY <2>1, <2>2 DEF PoolCountsStake
<1> QED
  BY <1>1, GenesisInvariance, StakeInvariance, PTL

\* A vesting account keeps book of exactly what it has delegated and what is on its
\* way back, across exports and restarts (genesis.go:90-110, export.go:37-42).
THEOREM DelegationsAlwaysTracked == Spec => []DelegationsAreTracked
<1>1. StakeInv => DelegationsAreTracked
  <2> SUFFICES ASSUME StakeInv, chain # None, NEW a \in DOMAIN chain.accounts,
                      chain.accounts[a].kind # "base"
               PROVE  chain.accounts[a].delegatedFree + chain.accounts[a].delegatedVesting =
                        Delegated(chain.staking, a) + Unbonding(chain.staking, a)
    BY DEF DelegationsAreTracked
  <2>1. Tracked(chain.staking, a, chain.accounts[a])
    BY DEF StakeInv, ChainStakeOK
  <2> QED
    BY <2>1 DEF Tracked, BookOf, Owed
<1> QED
  BY <1>1, StakeInvariance, PTL

\* A restart from an export has every account of the exported chain, as it was but
\* for its number (genesis.go:36-110).
THEOREM RestartsKeepAccounts == Spec => RestartKeepsAccounts
<1> DEFINE Kept ==
      \A a \in DOMAIN exported :
        /\ a \in DOMAIN chain'.accounts
        /\ chain'.accounts[a] = [exported[a] EXCEPT !.number = chain'.accounts[a].number]
<1>1. GenesisInv /\ [Next]_vars => [initFromGenesisState => Kept]_vars
  <2> SUFFICES ASSUME GenesisInv, initFromGenesisState, NEW a \in DOMAIN exported
               PROVE  /\ a \in DOMAIN chain'.accounts
                      /\ chain'.accounts[a] =
                           [exported[a] EXCEPT !.number = chain'.accounts[a].number]
    OBVIOUS
  <2> DEFINE accounts == file.accounts
             acc == exported[a]
  <2>1. FileOK(file) /\ Holds(accounts, exported) /\ ~Panics(accounts)
        /\ chain'.accounts = Loaded(accounts)
    BY DEF GenesisInv, initFromGenesisState
  <2>2. accounts \in Seq(FileAccounts)
    BY <2>1 DEF FileOK, Files
  <2>3. acc \in ChainAccounts /\ Sound(acc)
    BY <2>1 DEF Holds
  <2>4. PICK i \in DOMAIN accounts : accounts[i] = NewGenesisAccountI(a, acc)
    BY <2>1 DEF Holds
  <2>5. accounts[i].address = a /\ ToAccount(accounts[i]) = acc
    BY <2>3, <2>4, RoundTrip DEF NewGenesisAccountI
  <2>6. a \in AddressesOf(accounts)
    BY <2>5 DEF AddressesOf
  <2>7. \A k, j \in DOMAIN accounts : accounts[k].address = accounts[j].address => k = j
    BY <2>1 DEF FileOK
  <2> HIDE DEF acc, accounts
  <2>8. PICK j \in DOMAIN accounts :
          /\ accounts[j].address = a
          /\ Loaded(accounts)[a] = [ToAccount(accounts[j]) EXCEPT !.number = j - 1]
    BY <2>1, <2>2, <2>6, LoadedType
  <2>9. j = i
    BY <2>5, <2>7, <2>8
  <2>10. Loaded(accounts)[a] = [acc EXCEPT !.number = j - 1]
    BY <2>5, <2>8, <2>9
  <2>11. Loaded(accounts)[a] = [acc EXCEPT !.number = Loaded(accounts)[a].number]
    BY <2>3, <2>10 DEF ChainAccounts
  <2>12. a \in DOMAIN Loaded(accounts)
    BY <2>6 DEF Loaded
  <2> QED
    BY <2>1, <2>11, <2>12 DEF acc
<1> QED
  BY <1>1, GenesisInvariance, PTL DEF Spec, RestartKeepsAccounts
=============================================================================
