------------------------------- MODULE Genesis ------------------------------
(***************************************************************************)
(* How the accounts and the stake of the bridge zone get into a genesis    *)
(* file, from there into a chain, and back into a file: the commands of    *)
(* cmd/ebd, genesis.go, export.go and the init chainer of app.go.  While a *)
(* chain runs, its transactions pay fees, delegate, send coins and make    *)
(* the bridge pay, as the SDK does it; each carries one message here.      *)
(***************************************************************************)
EXTENDS Integers, Sequences, FiniteSets, Functions

CONSTANTS
  Addresses,     \* account addresses, numbers in the order of their bytes
  Validators,    \* validators one can delegate to, all of them bonded
  None,          \* no file, no chain
  Additions,     \* arguments of add-genesis-account: see AdditionsAssumption
  Fees,          \* what transactions may offer as fees
  Payments,      \* what a claim or a user may ask to be paid
  MaxMint,       \* bound on the coins of a denomination the bridge pays
  MaxSequence,   \* bound on the transactions an account sends
  MaxHeight      \* bound on the height of a chain

BondDenom   == "stake"
BridgeDenom == "ethereum"
Coins       == [{BondDenom, BridgeDenom} -> Nat]
NoCoins     == [d \in {BondDenom, BridgeDenom} |-> 0]

ASSUME AddressesAssumption == IsFiniteSet(Addresses) /\ Addresses \subseteq Nat
ASSUME ValidatorsAssumption == IsFiniteSet(Validators)
ASSUME BoundsAssumption == MaxMint \in Nat /\ MaxSequence \in Nat /\ MaxHeight \in Nat
ASSUME AdditionsAssumption ==
  Additions \subseteq [address : Addresses, coins : Coins, vestingAmt : Coins,
                       vestingStart : Nat, vestingEnd : Nat]
ASSUME PaymentsAssumption == Fees \subseteq Coins /\ Payments \subseteq Coins

VARIABLES
  file,       \* genesis.json: [accounts : Seq, staking, fees, minted, fresh], or None
  chain,      \* [accounts : address -> account, nextNumber, staking, fees, minted,
              \* height, fresh], or None
  exported    \* ghost: the accounts of the chain the file was exported from

vars == <<file, chain, exported>>

(* A staking state is what the pool holds, who has delegated how much, and  *)
(* what is on its way back: one entry per account here, with the height it  *)
(* was made at; redelegations carry a height in the same way.  "fees" is    *)
(* what the FeeCollectionKeeper has and nobody is given.  Two ghosts:       *)
(* "minted" is what the bridge has paid out so far, and "fresh" says that   *)
(* the heights in a file start from zero.                                   *)

NoAccounts == [a \in {} |-> None]

NotUnbonding == [amount |-> 0, creationHeight |-> 0]

NoStake ==
  [notBonded |-> 0, bonded |-> 0, delegations |-> [d \in Addresses \X Validators |-> 0],
   unbonding |-> [a \in Addresses |-> NotUnbonding]]

-----------------------------------------------------------------------------
(* Accounts, in a chain and in a file.                                      *)

BaseAccount(coins) ==
  [kind |-> "base", coins |-> coins, sequence |-> 0, number |-> 0, original |-> NoCoins,
   delegatedFree |-> 0, delegatedVesting |-> 0, start |-> 0, end |-> 0]

\* A bug that forgets what had been delegated of the free coins.
NewGenesisAccountI_NoFree(a, acc) ==
  [address |-> a, coins |-> acc.coins, sequence |-> acc.sequence, number |-> acc.number,
   original |-> acc.original, delegatedFree |-> 0,
   delegatedVesting |-> acc.delegatedVesting, start |-> acc.start, end |-> acc.end]

\* The kind of account is not written down.
NewGenesisAccountI(a, acc) ==
  [address |-> a, coins |-> acc.coins, sequence |-> acc.sequence, number |-> acc.number,
   original |-> acc.original, delegatedFree |-> acc.delegatedFree,
   delegatedVesting |-> acc.delegatedVesting, start |-> acc.start, end |-> acc.end]

\* A bug that takes every vesting account for a continuous one.
KindOf_AlwaysContinuous(gacc) ==
  IF gacc.original = NoCoins THEN "base" ELSE IF gacc.end # 0 THEN "continuous" ELSE "panic"

\* ToAccount reads the kind off the times.
KindOf(gacc) ==
  IF gacc.original = NoCoins THEN "base"
  ELSE IF gacc.end = 0 THEN "panic"
  ELSE IF gacc.start # 0 THEN "continuous" ELSE "delayed"

\* A bug that starts the sequence of an account again.
BaseOf_NewSequence(gacc) == [BaseAccount(gacc.coins) EXCEPT !.number = gacc.number]

BaseOf(gacc) ==
  [BaseAccount(gacc.coins) EXCEPT !.sequence = gacc.sequence, !.number = gacc.number]

ToAccount(gacc) ==
  IF KindOf(gacc) = "base" THEN BaseOf(gacc)
  ELSE [BaseOf(gacc) EXCEPT !.kind = KindOf(gacc), !.original = gacc.original,
                            !.delegatedFree = gacc.delegatedFree,
                            !.delegatedVesting = gacc.delegatedVesting,
                            !.start = gacc.start, !.end = gacc.end]

AddressesOf(accounts) == {accounts[i].address : i \in DOMAIN accounts}

-----------------------------------------------------------------------------
(* The commands that make a file.                                           *)

\* init refuses to touch an existing file unless it is told to overwrite it.
InitCmd(overwrite) ==
  /\ file = None \/ overwrite
  /\ file' = [accounts |-> << >>, staking |-> NoStake, fees |-> NoCoins,
               minted |-> NoCoins, fresh |-> TRUE]
  /\ exported' = NoAccounts
  /\ UNCHANGED chain

\* Coins.IsAllGT of the SDK: a difference, and in no denomination a negative one.
IsAllGT(coins, than) ==
  LET different == {d \in DOMAIN coins : coins[d] # than[d]}
  IN different # {} /\ \A d \in different : coins[d] > than[d]

\* A bug that forgets to compare the two times.
VestingRefused_AnyTimes(x) == IsAllGT(x.vestingAmt, x.coins)

VestingRefused(x) == IsAllGT(x.vestingAmt, x.coins) \/ x.vestingStart >= x.vestingEnd

\* addGenesisAccount returns a state and whether there was an error; the pool has
\* been raised by then, except for an address that is there already.
addGenesisAccount(state, x) ==
  LET raised == [state EXCEPT !.staking.notBonded = @ + x.coins[BondDenom]]
      base   == BaseAccount(x.coins)
      vested == [base EXCEPT !.kind = IF x.vestingStart # 0 THEN "continuous" ELSE "delayed",
                             !.original = x.vestingAmt,
                             !.start = x.vestingStart, !.end = x.vestingEnd]
      With(acc) == [raised EXCEPT !.accounts = Append(@, NewGenesisAccountI(x.address, acc))]
  IN IF x.address \in AddressesOf(state.accounts) THEN [state |-> state, failed |-> TRUE]
     ELSE IF x.vestingAmt = NoCoins THEN [state |-> With(base), failed |-> FALSE]
     ELSE IF VestingRefused(x) THEN [state |-> raised, failed |-> TRUE]
     ELSE [state |-> With(vested), failed |-> FALSE]

\* A bug that writes the returned state without looking at the error.
AddGenesisAccountCmd_SavesAnyway(x) ==
  /\ file # None
  /\ file' = addGenesisAccount(file, x).state
  /\ UNCHANGED <<chain, exported>>

AddGenesisAccountCmd(x) ==
  /\ file # None
  /\ ~addGenesisAccount(file, x).failed
  /\ file' = addGenesisAccount(file, x).state
  /\ UNCHANGED <<chain, exported>>

-----------------------------------------------------------------------------
(* From a file to a chain.                                                  *)

\* A bug that keeps the number of the file.
Loaded_NumberOfFile(accounts) ==
  [a \in AddressesOf(accounts) |->
     ToAccount(accounts[CHOOSE i \in DOMAIN accounts : accounts[i].address = a])]

\* NewAccount gives out the numbers anew, in the order of the file.
Loaded(accounts) ==
  [a \in AddressesOf(accounts) |->
     LET i == CHOOSE i \in DOMAIN accounts : accounts[i].address = a
     IN [ToAccount(accounts[i]) EXCEPT !.number = i - 1]]

Panics(accounts) == \E i \in DOMAIN accounts : KindOf(accounts[i]) = "panic"

\* initChainer: the network starts a chain from the file, in place of the one
\* it had, if any.
initFromGenesisState ==
  /\ file # None
  /\ ~Panics(file.accounts)
  /\ chain' = [accounts |-> Loaded(file.accounts), nextNumber |-> Len(file.accounts),
               staking |-> file.staking, fees |-> file.fees, minted |-> file.minted,
               height |-> 0, fresh |-> file.fresh]
  /\ UNCHANGED <<file, exported>>

-----------------------------------------------------------------------------
(* From a chain to a file.                                                  *)

\* A bug that resets the heights of nothing.
ZeroHeights_None(staking) == staking

ZeroHeights(staking) ==
  [staking EXCEPT !.unbonding = [a \in Addresses |-> [@[a] EXCEPT !.creationHeight = 0]]]

\* Who is not on a list that is not empty has its record jailed, but stays in the
\* power index, where ApplyAndReturnValidatorSetUpdates panics on a jailed one.
WhiteListPanics(whiteList) ==
  whiteList # {} /\ \E v \in Validators \ whiteList, a \in Addresses :
                      chain.staking.delegations[<<a, v>>] > 0

\* IterateAccounts walks the accounts in the order of their addresses.
IteratedOrders(S) ==
  {order \in [1..Cardinality(S) -> S] :
     \A i, j \in 1..Cardinality(S) : i < j => order[i] < order[j]}

ExportAppStateAndValidators(forZeroHeight, whiteList) ==
  /\ chain # None
  /\ ~(forZeroHeight /\ WhiteListPanics(whiteList))
  /\ \E order \in IteratedOrders(DOMAIN chain.accounts) :
       file' = [accounts |-> [i \in DOMAIN order |->
                                NewGenesisAccountI(order[i], chain.accounts[order[i]])],
                staking  |-> IF forZeroHeight THEN ZeroHeights(chain.staking) ELSE chain.staking,
                fees     |-> chain.fees,
                minted   |-> chain.minted,
                fresh    |-> forZeroHeight]
  /\ exported' = chain.accounts
  /\ UNCHANGED chain

-----------------------------------------------------------------------------
(* A chain at work.  Coins move between accounts, which are made when they  *)
(* first get some.  How much of its coins a vesting account may spend is a  *)
(* matter of time; here it is anything it holds.                            *)

Plus(x, y)   == [d \in DOMAIN x |-> x[d] + y[d]]
Minus(x, y)  == [d \in DOMAIN x |-> x[d] - y[d]]
Covers(x, y) == \A d \in DOMAIN x : x[d] >= y[d]

\* The account of an address, with the next number if it is new.
AccountOf(c, a) ==
  IF a \in DOMAIN c.accounts THEN c.accounts[a]
  ELSE [BaseAccount(NoCoins) EXCEPT !.number = c.nextNumber]

SetAccount(c, a, acc) ==
  [c EXCEPT !.accounts = [b \in DOMAIN @ \cup {a} |-> IF b = a THEN acc ELSE @[b]],
            !.nextNumber = IF a \in DOMAIN c.accounts THEN @ ELSE @ + 1]

SubtractCoins(c, a, coins) ==
  SetAccount(c, a, [AccountOf(c, a) EXCEPT !.coins = Minus(@, coins)])

AddCoins(c, a, coins) ==
  SetAccount(c, a, [AccountOf(c, a) EXCEPT !.coins = Plus(@, coins)])

\* The signer pays the fee, which the FeeCollectionKeeper keeps.
AnteHandler(c, a, fee) ==
  [SetAccount(c, a, [AccountOf(c, a) EXCEPT !.coins = Minus(@, fee), !.sequence = @ + 1])
     EXCEPT !.fees = Plus(@, fee)]

\* A message that writes an account and the staking state.
Work(c, a, acc, staking) == chain' = [SetAccount(c, a, acc) EXCEPT !.staking = staking]

Least(x, y) == IF x <= y THEN x ELSE y

\* A vesting account keeps book of how much of what it has delegated is free and
\* how much vesting, by what vests at the time.
TrackDelegation(acc, amount, vesting) ==
  LET ofVesting == IF vesting <= acc.delegatedVesting THEN 0
                   ELSE Least(vesting - acc.delegatedVesting, amount)
  IN IF acc.kind = "base" THEN acc
     ELSE [acc EXCEPT !.delegatedVesting = @ + ofVesting,
                      !.delegatedFree = @ + (amount - ofVesting)]

TrackUndelegation(acc, amount) ==
  LET ofFree == Least(acc.delegatedFree, amount)
  IN [acc EXCEPT !.delegatedFree = @ - ofFree,
                 !.delegatedVesting = @ - Least(@, amount - ofFree)]

\* The pool panics, and the transaction fails, if less is not bonded than is bonded now.
Delegate(c, a, v) ==
  LET acc == c.accounts[a] IN
  \E amount \in 1..acc.coins[BondDenom], vesting \in 0..acc.original[BondDenom] :
    /\ amount <= c.staking.notBonded
    /\ Work(c, a,
            [TrackDelegation(acc, amount, vesting) EXCEPT !.coins[BondDenom] = @ - amount],
            [c.staking EXCEPT !.notBonded = @ - amount, !.bonded = @ + amount,
                              !.delegations[<<a, v>>] = @ + amount])

Undelegate(c, a, v) ==
  /\ c.staking.unbonding[a] = NotUnbonding
  /\ \E amount \in 1..c.staking.delegations[<<a, v>>] :
       Work(c, a, c.accounts[a],
            [c.staking EXCEPT !.notBonded = @ + amount, !.bonded = @ - amount,
                              !.delegations[<<a, v>>] = @ - amount,
                              !.unbonding[a] = [amount |-> amount,
                                                creationHeight |-> c.height]])

Send(c, a, b, coins) ==
  /\ Covers(c.accounts[a].coins, coins)
  /\ chain' = AddCoins(SubtractCoins(c, a, coins), b, coins)

\* A claim decides its prophecy, and the bridge pays what the final claim says, in
\* whatever denominations it says.  The staking state is not told.
Mint(c, b, coins) ==
  /\ \A d \in DOMAIN coins : c.minted[d] + coins[d] <= MaxMint
  /\ chain' = [AddCoins(c, b, coins) EXCEPT !.minted = Plus(@, coins)]

\* What the ante handler does stays, also if the message fails.
Transaction(a, fee) ==
  LET c == AnteHandler(chain, a, fee) IN
  /\ chain.accounts[a].sequence < MaxSequence
  /\ Covers(chain.accounts[a].coins, fee)
  /\ \/ chain' = c
     \/ \E v \in Validators : Delegate(c, a, v) \/ Undelegate(c, a, v)
     \/ \E b \in Addresses, coins \in Payments : Send(c, a, b, coins) \/ Mint(c, b, coins)

\* The unbonding time is over.
CompleteUnbonding(a) ==
  LET acc    == chain.accounts[a]
      amount == chain.staking.unbonding[a].amount
  IN /\ amount > 0
     /\ Work(chain, a, [TrackUndelegation(acc, amount) EXCEPT !.coins[BondDenom] = @ + amount],
             [chain.staking EXCEPT !.unbonding[a] = NotUnbonding])

CommitBlock ==
  /\ chain.height < MaxHeight
  /\ chain' = [chain EXCEPT !.height = @ + 1]

RunChain ==
  /\ chain # None
  /\ \/ \E a \in DOMAIN chain.accounts, fee \in Fees : Transaction(a, fee)
     \/ \E a \in DOMAIN chain.accounts : CompleteUnbonding(a)
     \/ CommitBlock
  /\ UNCHANGED <<file, exported>>

-----------------------------------------------------------------------------
Init == file = None /\ chain = None /\ exported = NoAccounts

Next ==
  \/ \E overwrite \in BOOLEAN : InitCmd(overwrite)
  \/ \E x \in Additions : AddGenesisAccountCmd(x)
  \/ initFromGenesisState
  \/ \E forZeroHeight \in BOOLEAN, whiteList \in SUBSET Validators :
       ExportAppStateAndValidators(forZeroHeight, whiteList)
  \/ RunChain

Spec == Init /\ [][Next]_vars

-----------------------------------------------------------------------------
(* Properties.                                                              *)

ChainAccounts ==
  [kind : {"base", "continuous", "delayed"}, coins : Coins, sequence : Nat, number : Nat,
   original : Coins, delegatedFree : Nat, delegatedVesting : Nat, start : Nat, end : Nat]

FileAccounts ==
  [address : Addresses, coins : Coins, sequence : Nat, number : Nat, original : Coins,
   delegatedFree : Nat, delegatedVesting : Nat, start : Nat, end : Nat]

StakingStates ==
  [notBonded : Int, bonded : Int, delegations : [Addresses \X Validators -> Nat],
   unbonding : [Addresses -> [amount : Nat, creationHeight : Nat]]]

\* The kind of an account and its books tell the same story.
Sound(acc) ==
  IF acc.kind = "base"
  THEN /\ acc.original = NoCoins /\ acc.start = 0 /\ acc.end = 0
       /\ acc.delegatedFree = 0 /\ acc.delegatedVesting = 0
  ELSE acc.original # NoCoins /\ acc.end # 0 /\ (acc.kind = "continuous" <=> acc.start # 0)

\* Books never go below zero, and a chain has only accounts whose kind can be read
\* off their books, so that an export loses nothing by not writing it down
\* (genesis.go:36-69, 92-110).
GenesisTypeOK ==
  /\ file # None =>
       file \in [accounts : Seq(FileAccounts), staking : StakingStates, fees : Coins,
                 minted : Coins, fresh : BOOLEAN]
  /\ chain # None =>
       /\ DOMAIN chain.accounts \subseteq Addresses
       /\ chain \in [accounts : [DOMAIN chain.accounts -> ChainAccounts], nextNumber : Nat,
                     staking : StakingStates, fees : Coins, minted : Coins, height : Nat,
                     fresh : BOOLEAN]
       /\ \A a \in DOMAIN chain.accounts : Sound(chain.accounts[a])

Unbonding(staking, a) == staking.unbonding[a].amount
Delegated(staking, a) ==
  SumFunctionOnSet([v \in Validators |-> staking.delegations[<<a, v>>]], Validators)

Balanced(state) ==
  LET accounts == state.accounts
      staking  == state.staking
  IN /\ staking.notBonded + state.minted[BondDenom] =
          SumFunction([x \in DOMAIN accounts |-> accounts[x].coins[BondDenom]])
            + SumFunction([a \in Addresses |-> Unbonding(staking, a)])
            + state.fees[BondDenom]
     /\ staking.bonded = SumFunction(staking.delegations)

\* The stake there is, held, on its way back or collected as fees, is what the pool
\* has not bonded and what the bridge has paid beside the pool, and what is bonded
\* has been delegated: in every file and every chain, so that commands and messages
\* that fail, fees, exports and restarts neither lose stake nor make it, and only
\* a payment of the bridge does (main.go:282, 217-227, export.go:28-42, app.go:90,
\* 170, handler.go:52-63).
PoolCountsStake ==
  /\ file # None => Balanced(file)
  /\ chain # None => Balanced(chain)

\* Every file the commands and exports make starts a chain, with every account of
\* the file in it (genesis.go:63, main.go:274-278, 296).
FilesStart ==
  file # None =>
    /\ ~Panics(file.accounts)
    /\ \A i, j \in DOMAIN file.accounts :
         file.accounts[i].address = file.accounts[j].address => i = j

\* The account and the staking part of the state agree about what a vesting
\* account has delegated, although a restart carries them over separately
\* (genesis.go:90-110, export.go:37-42).
DelegationsAreTracked ==
  chain # None =>
    \A a \in DOMAIN chain.accounts :
      LET acc == chain.accounts[a] IN
      acc.kind # "base" =>
        acc.delegatedFree + acc.delegatedVesting =
          Delegated(chain.staking, a) + Unbonding(chain.staking, a)

\* The number in what an account signs is its own: no two accounts have the same
\* one, whether they come from a command, an export or a payment of the bridge
\* (app.go:159-162).
NumbersIdentify ==
  chain # None =>
    \A a, b \in DOMAIN chain.accounts :
      chain.accounts[a].number = chain.accounts[b].number => a = b

\* No stake on its way back is dated later than the chain it is in, if the file was
\* made for height zero (export.go:76-95).
HeightsArePast ==
  chain # None /\ chain.fresh =>
    \A a \in Addresses : chain.staking.unbonding[a].creationHeight <= chain.height

\* A chain started from an export has the accounts of the chain that was exported,
\* of the same kind and with the same coins and books; only their numbers may
\* change, and accounts may have been added (genesis.go:36-110).
RestartKeepsAccounts ==
  [][initFromGenesisState =>
       \A a \in DOMAIN exported :
         /\ a \in DOMAIN chain'.accounts
         /\ chain'.accounts[a] = [exported[a] EXCEPT !.number = chain'.accounts[a].number]]_vars
=============================================================================
