---------------------------- MODULE OracleKeeper ----------------------------
(***************************************************************************)
(* The oracle of the bridge zone: x/oracle/keeper/keeper.go, run against   *)
(* the staking module of the SDK.                                          *)
(*                                                                         *)
(* The keeper reads two different pictures of the stake.  The tally uses   *)
(* the power index, which a delegation or an undelegation changes in the   *)
(* middle of a block; the denominator and the bonded status are those the  *)
(* last EndBlock wrote.  power and lastPower are those two pictures.       *)
(***************************************************************************)
EXTENDS Prophecy

CONSTANTS
  Ids,             \* the non-empty prophecy identifiers
  NeededNum,       \* consensusNeeded = NeededNum / NeededDen
  NeededDen,
  InitialPowers    \* stakes the chain may start with

ASSUME IdsAssumption == EmptyString \notin Ids
\* NewKeeper refuses any other proportion.
ASSUME NeededAssumption ==
  NeededNum \in Nat /\ NeededDen \in Nat /\ 0 < NeededNum /\ NeededNum <= NeededDen
\* Tendermint does not start, or go on, with an empty validator set.
ASSUME InitialPowersAssumption ==
  InitialPowers \subseteq {p \in Powers : StakeOf(p, Validators) > 0}

VARIABLES
  power,      \* [Validators -> 0..MaxPower]: the power index, always current
  lastPower,  \* the same as of the last EndBlock; positive means bonded
  store       \* the oracle store, a function on the ids it has

vars == <<power, lastPower, store>>

-----------------------------------------------------------------------------
(* What the keeper asks of the staking module.                              *)

Bonded(v) == lastPower[v] > 0

\* GetBondedValidatorsByPower skips validators that are not bonded, and a
\* validator missing from its answer has power 0 in FindHighestClaim.
BondedPower == [v \in Validators |-> IF Bonded(v) THEN power[v] ELSE 0]

LastTotalPower == StakeOf(lastPower, Validators)

checkActiveValidator(v) == Bonded(v)

-----------------------------------------------------------------------------
(* ProcessClaim, as an operator on the store so that callers can chain it.  *)

IsFinal(p) == p.statusText \in {SuccessStatusText, FailedStatusText}

GetProphecy(st, id) == IF id \in DOMAIN st THEN st[id] ELSE NewProphecy

saveProphecy(st, id, p) ==
  [i \in DOMAIN st \cup {id} |-> IF i = id THEN p ELSE st[i]]

\* Bugs that drop one of the checks.
AcceptsClaim_NoDuplicateCheck(st, id, v, c) ==
  /\ checkActiveValidator(v)
  /\ c # EmptyString
  /\ id # EmptyString
  /\ id \in DOMAIN st => ~IsFinal(st[id])

AcceptsClaim_EmptyClaim(st, id, v, c) ==
  /\ checkActiveValidator(v)
  /\ id # EmptyString
  /\ id \in DOMAIN st => ~IsFinal(st[id]) /\ st[id].validatorClaims[v] = EmptyString

AcceptsClaim_EmptyIdentifier(st, id, v, c) ==
  /\ checkActiveValidator(v)
  /\ c # EmptyString
  /\ id \in DOMAIN st => ~IsFinal(st[id]) /\ st[id].validatorClaims[v] = EmptyString

AcceptsClaim_FailedIsOpen(st, id, v, c) ==
  /\ checkActiveValidator(v)
  /\ c # EmptyString
  /\ id # EmptyString
  /\ id \in DOMAIN st =>
       /\ st[id].statusText # SuccessStatusText
       /\ st[id].validatorClaims[v] = EmptyString

\* The early returns of ProcessClaim and of the GetProphecy it calls: none of
\* them is taken.
AcceptsClaim(st, id, v, c) ==
  /\ checkActiveValidator(v)
  /\ c # EmptyString
  /\ id # EmptyString
  /\ id \in DOMAIN st => ~IsFinal(st[id]) /\ st[id].validatorClaims[v] = EmptyString

\* amount / total >= consensusNeeded, and its counterpart <=.  The float64
\* quotients compare like the rationals (the README says why).
AtLeastNeeded(amount, total) == amount * NeededDen >= NeededNum * total
AtMostNeeded(amount, total)  == amount * NeededDen <= NeededNum * total

\* The power the highest claim would have if every vote not yet cast joined it.
\* It is below highestClaimPower when live stake has outgrown the denominator.
HighestPossible(p, highestClaim) ==
  ClaimPower(p, BondedPower, highestClaim)
    + (LastTotalPower - TotalClaimsPower(p, BondedPower))

\* A bug that forgets the votes not yet cast.
Complete_IgnoresRemaining(p, highestClaim) ==
  IF AtLeastNeeded(ClaimPower(p, BondedPower, highestClaim), LastTotalPower)
  THEN [p EXCEPT !.statusText = SuccessStatusText, !.finalClaim = highestClaim]
  ELSE IF AtMostNeeded(ClaimPower(p, BondedPower, highestClaim), LastTotalPower)
  THEN [p EXCEPT !.statusText = FailedStatusText]
  ELSE p

\* A bug that never declares a deadlocked vote failed.
Complete_NeverFails(p, highestClaim) ==
  IF AtLeastNeeded(ClaimPower(p, BondedPower, highestClaim), LastTotalPower)
  THEN [p EXCEPT !.statusText = SuccessStatusText, !.finalClaim = highestClaim]
  ELSE p

Complete(p, highestClaim) ==
  IF AtLeastNeeded(ClaimPower(p, BondedPower, highestClaim), LastTotalPower)
  THEN [p EXCEPT !.statusText = SuccessStatusText, !.finalClaim = highestClaim]
  ELSE IF AtMostNeeded(HighestPossible(p, highestClaim), LastTotalPower)
  THEN [p EXCEPT !.statusText = FailedStatusText]
  ELSE p

processCompletion(p) ==
  {Complete(p, highestClaim) : highestClaim \in FindHighestClaim(p, BondedPower)}

\* The prophecies an accepted claim may leave in the store.
ClaimResults(st, id, v, c) == processCompletion(AddClaim(GetProphecy(st, id), v, c))

-----------------------------------------------------------------------------
(* Actions.                                                                 *)

ProcessClaim(id, v, c) ==
  /\ AcceptsClaim(store, id, v, c)
  /\ \E p \in ClaimResults(store, id, v, c) : store' = saveProphecy(store, id, p)
  /\ UNCHANGED <<power, lastPower>>

\* Any transaction that changes the stake behind v: delegate, undelegate,
\* redelegate, create a validator, or jail it (a jailed validator leaves the
\* power index).  The staking module is the SDK's.
Restake(v, n) ==
  /\ power[v] # n
  /\ power' = [power EXCEPT ![v] = n]
  /\ UNCHANGED <<lastPower, store>>

\* staking.EndBlocker, called from app.go: the power index becomes the
\* validator set of the next block.
EndBlock ==
  /\ lastPower # power
  /\ StakeOf(power, Validators) > 0
  /\ lastPower' = power
  /\ UNCHANGED <<power, store>>

Init ==
  /\ power \in InitialPowers
  /\ lastPower = power
  /\ store = [id \in {} |-> NewProphecy]

MakeClaim ==
  \E id \in Ids \cup {EmptyString}, v \in Validators, c \in ClaimStrings :
    ProcessClaim(id, v, c)

Next ==
  \/ MakeClaim
  \/ \E v \in Validators, n \in 0..MaxPower : Restake(v, n)
  \/ EndBlock

Spec == Init /\ [][Next]_vars

\* The chain between two changes of stake: every prophecy is decided by one
\* picture of the validator set.
SteadySpec == Init /\ [][MakeClaim /\ UNCHANGED <<power, lastPower>>]_vars

-----------------------------------------------------------------------------
(* Properties.                                                              *)

\* Every variable holds what its Go type and the staking module allow, no
\* prophecy is stored under the empty id (keeper.go:46), and the total power
\* processCompletion divides by is not zero (keeper.go:128).
TypeOK ==
  /\ power \in Powers
  /\ lastPower \in Powers
  /\ LastTotalPower > 0
  /\ DOMAIN store \subseteq Ids
  /\ store \in [DOMAIN store -> Prophecies]

\* In every prophecy the two indexes record the same votes (IndexesAgree,
\* Prophecy.tla): no history of claims makes a vote count twice.
LedgersAgree == \A id \in DOMAIN store : IndexesAgree(store[id])

\* A prophecy that succeeded or failed is never touched again, whatever the
\* stake does later, and no prophecy is lost (keeper.go:92-94).
Finality ==
  [][\A id \in DOMAIN store :
       /\ id \in DOMAIN store'
       /\ IsFinal(store[id]) => store'[id] = store[id]]_vars

\* This step makes the prophecy of id successful.
BecomesSuccess(id) ==
  /\ id \in DOMAIN store'
  /\ store'[id].statusText = SuccessStatusText
  /\ id \notin DOMAIN store \/ store[id].statusText # SuccessStatusText

\* Whenever a prophecy becomes successful, the validators that back its final
\* claim hold, each counted once, the needed share of the last block's total
\* power, and no other claim is backed by more (keeper.go:126-135).
SuccessIsBacked ==
  [][\A id \in Ids : BecomesSuccess(id) =>
       LET p     == store'[id]
           stake == [c \in Claims |-> StakeOf(BondedPower, Supporters(p, c))]
       IN /\ AtLeastNeeded(stake[p.finalClaim], LastTotalPower)
          /\ \A c \in Claims : stake[c] <= stake[p.finalClaim]]_vars

\* Below unanimity a prophecy fails only if two validators disagreed about it:
\* one claim alone, however small its stake and however the stake has moved,
\* never closes a prophecy (keeper.go:130-138).
FailedMeansDisagreement ==
  NeededNum < NeededDen =>
    \A id \in DOMAIN store :
      store[id].statusText = FailedStatusText =>
        \E c, d \in ClaimsMade(store[id]) : c # d

\* The three verdicts as functions of the votes, each voter counted once.
Tally(p, c) == StakeOf(BondedPower, Supporters(p, c))
Uncast(p)   == StakeOf(BondedPower, Supporters(p, EmptyString))

\* Between changes of stake the status in the store is the verdict of the
\* votes: success exactly when a claim has the needed share, failure exactly
\* when none has it and none could exceed it with every vote still missing
\* (keeper.go:133-138).
StatusIsVerdict ==
  \A id \in DOMAIN store :
    LET p       == store[id]
        reached == \E c \in Claims : AtLeastNeeded(Tally(p, c), LastTotalPower)
        open    == \E c \in Claims : ~AtMostNeeded(Tally(p, c) + Uncast(p), LastTotalPower)
    IN /\ (p.statusText = SuccessStatusText) <=> reached
       /\ (p.statusText = FailedStatusText) <=> ~reached /\ ~open

\* Between changes of stake no prophecy hangs once every bonded validator has
\* spoken (keeper.go:130-138).
AllVotedMeansFinal ==
  \A id \in DOMAIN store :
    (\A v \in Validators : Bonded(v) => store[id].validatorClaims[v] # EmptyString)
      => IsFinal(store[id])

\* Relayers claim what they have seen on Ethereum, in any order and at any time.
\* Between changes of stake, if a claim c has been seen by more than the needed
\* share (at most those who have claimed c and those who have not spoken), the
\* order of arrival cannot change the result: the prophecy has not failed, is
\* successful once all have spoken, and not with another claim if the needed
\* share is at least a half (keeper.go:126-140).
OrderCannotMatter ==
  \A id \in DOMAIN store : \A c \in Claims :
    LET p == store[id] IN
      ~AtMostNeeded(Tally(p, c) + Uncast(p), LastTotalPower) =>
        /\ p.statusText # FailedStatusText
        /\ Uncast(p) = 0 => p.statusText = SuccessStatusText
        /\ p.statusText = SuccessStatusText /\ 2 * NeededNum >= NeededDen
             => p.finalClaim = c

\* README.md:49: success needs "a threshold of stake of the active Tendermint
\* validator set".  The set of the last block and the set as it stands now are
\* both candidates; a success has the threshold in one of them.
SuccessHasThreshold ==
  [][\A id \in Ids : BecomesSuccess(id) =>
       LET S == Supporters(store'[id], store'[id].finalClaim)
       IN \/ AtLeastNeeded(StakeOf(lastPower, S), LastTotalPower)
          \/ AtLeastNeeded(StakeOf(BondedPower, S), StakeOf(BondedPower, Validators))]_vars

\* README.md:49: "Once a threshold of stake ... is claiming the same thing, the
\* claim is updated to be successful": at the start of a block, no pending
\* claim has the threshold.
PendingBelowThreshold ==
  \A id \in DOMAIN store :
    power = lastPower /\ store[id].statusText = PendingStatusText =>
      \A c \in Claims : ~AtLeastNeeded(Tally(store[id], c), LastTotalPower)
=============================================================================
