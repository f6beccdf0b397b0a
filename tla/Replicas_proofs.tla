--------------------------- MODULE Replicas_proofs --------------------------
(***************************************************************************)
(* The zone while the stake stands still, at any consensus proportion.     *)
(*                                                                         *)
(* Two nodes never store different outcomes: no claim reaches the          *)
(* threshold unnoticed, so when one does, the random order of the map      *)
(* cannot pick another.  And the statuses they store are what the votes    *)
(* say, in whatever order they came: every unit of stake is counted once,  *)
(* behind one claim or among the votes still missing.                      *)
(***************************************************************************)
EXTENDS Replicas, OracleKeeper_proofs

\* A vote for one claim leaves the tally of every other claim alone.
LEMMA OtherTalliesUnchanged ==
  ASSUME NEW p \in Prophecies, NEW v \in Validators, NEW c \in Claims,
         NEW d \in ClaimStrings, d # c, NEW pow
  PROVE  ClaimPower(AddClaim(p, v, c), pow, d) = ClaimPower(p, pow, d)
<1> DEFINE q == AddClaim(p, v, c)
           E == {e \in Entries(p) : e[1] = d}
           F == {e \in Entries(q) : e[1] = d}
<1>1. q.claimValidators[d] = p.claimValidators[d]
  BY DEF AddClaim, Prophecies, ClaimStrings
<1>2. E = {<<d, i>> : i \in DOMAIN p.claimValidators[d]}
  BY DEF Entries
<1>3. F = {<<d, i>> : i \in DOMAIN q.claimValidators[d]}
  BY DEF Entries
<1>4. E = F
  BY <1>1, <1>2, <1>3
<1>5. \A e \in E : Voter(p, e) = Voter(q, e)
  BY <1>1, <1>2 DEF Voter
<1>6. UnitsOf(p, pow, E) = UnitsOf(q, pow, F)
  BY <1>4, <1>5 DEF UnitsOf
<1> QED
  BY <1>6 DEF ClaimPower

-----------------------------------------------------------------------------
(* The keeper between two changes of stake.                                 *)

\* Every claim of a pending prophecy is short of the threshold, by the tally
\* that decided the prophecy last.
Undecided(p) ==
  p.statusText = PendingStatusText =>
    \A c \in ClaimStrings : ~AtLeastNeeded(ClaimPower(p, BondedPower, c), LastTotalPower)

PendingMeansUndecided == \A id \in DOMAIN store : Undecided(store[id])

\* A new prophecy is undecided.
LEMMA NewProphecyUndecided ==
  ASSUME TypeOK PROVE Undecided(NewProphecy)
<1> SUFFICES ASSUME NEW c \in ClaimStrings
             PROVE  ~AtLeastNeeded(ClaimPower(NewProphecy, BondedPower, c), LastTotalPower)
  BY DEF Undecided
<1>1. UnitsOf(NewProphecy, BondedPower, {e \in Entries(NewProphecy) : e[1] = c}) = {}
  BY DEF UnitsOf, Entries, NewProphecy
<1>2. ClaimPower(NewProphecy, BondedPower, c) = 0
  BY <1>1, FS_EmptySet DEF ClaimPower
<1>3. LastTotalPower \in Nat /\ LastTotalPower > 0
  BY StakeIsNatural DEF TypeOK, LastTotalPower
<1>4. NeededNum * LastTotalPower > 0
  BY <1>3, NeededAssumption, Z3
<1>5. 0 * NeededDen = 0
  BY NeededAssumption
<1>6. ~(0 * NeededDen >= NeededNum * LastTotalPower)
  BY <1>3, <1>4, <1>5, NeededAssumption
<1> QED
  BY <1>2, <1>6 DEF AtLeastNeeded

\* Two claims of maximal power complete an undecided prophecy alike: either the
\* new vote lifted its own claim to the threshold, and then it alone is the
\* highest, or no claim has the threshold and only the power matters.
LEMMA CompletionIsUnique ==
  ASSUME TypeOK, NEW p \in Prophecies, p.statusText = PendingStatusText, Undecided(p),
         NEW v \in Validators, NEW c \in Claims,
         NEW h \in FindHighestClaim(AddClaim(p, v, c), BondedPower),
         NEW k \in FindHighestClaim(AddClaim(p, v, c), BondedPower)
  PROVE  Complete(AddClaim(p, v, c), h) = Complete(AddClaim(p, v, c), k)
<1> DEFINE q         == AddClaim(p, v, c)
           pow(d)    == ClaimPower(q, BondedPower, d)
           needed(d) == AtLeastNeeded(pow(d), LastTotalPower)
<1>1. h \in ClaimStrings /\ k \in ClaimStrings
  BY DEF FindHighestClaim, ClaimsMade
<1>2. q \in Prophecies
  BY AddClaimType DEF ClaimStrings
<1>3. pow(h) = pow(k)
  <2>1. pow(h) <= pow(k) /\ pow(k) <= pow(h)
    BY DEF FindHighestClaim
  <2>2. pow(h) \in Nat /\ pow(k) \in Nat
    BY <1>2, TalliesAreNatural
  <2> HIDE DEF pow
  <2> QED
    BY <2>1, <2>2
<1>4. \A d \in ClaimStrings : d # c => ~needed(d)
  BY OtherTalliesUnchanged DEF Undecided
<1>5. CASE needed(h)
  <2>1. needed(k)
    BY <1>3, <1>5
  <2> QED
    BY <1>1, <1>4, <1>5, <2>1
<1>6. CASE ~needed(h)
  <2>1. ~needed(k)
    BY <1>3, <1>6
  <2>2. HighestPossible(q, h) = HighestPossible(q, k)
    BY <1>3 DEF HighestPossible
  <2> QED
    BY <1>6, <2>1, <2>2 DEF Complete
<1> QED
  BY <1>5, <1>6

\* So is a prophecy that a completion leaves pending.
LEMMA CompletionUndecided ==
  ASSUME TypeOK, NEW p \in Prophecies, NEW h \in FindHighestClaim(p, BondedPower)
  PROVE  Undecided(Complete(p, h))
<1> DEFINE q == Complete(p, h)
<1> SUFFICES ASSUME q.statusText = PendingStatusText, NEW c \in ClaimStrings
             PROVE  ~AtLeastNeeded(ClaimPower(q, BondedPower, c), LastTotalPower)
  BY DEF Undecided
<1>1. q = p /\ ~AtLeastNeeded(ClaimPower(p, BondedPower, h), LastTotalPower)
  BY DEF Complete, Prophecies, PendingStatusText, SuccessStatusText, FailedStatusText
<1>2. ClaimPower(p, BondedPower, c) <= ClaimPower(p, BondedPower, h)
  <2>1. CASE c \in ClaimsMade(p)
    BY <2>1 DEF FindHighestClaim
  <2>2. CASE c \notin ClaimsMade(p)
    <3>1. UnitsOf(p, BondedPower, {e \in Entries(p) : e[1] = c}) = {}
      BY <2>2 DEF UnitsOf, Entries, ClaimsMade
    <3>2. ClaimPower(p, BondedPower, c) = 0
      BY <3>1, FS_EmptySet DEF ClaimPower
    <3>3. ClaimPower(p, BondedPower, h) \in Nat
      BY TalliesAreNatural
    <3> QED
      BY <3>2, <3>3
  <2> QED
    BY <2>1, <2>2
<1>3. /\ ClaimPower(p, BondedPower, c) \in Nat /\ ClaimPower(p, BondedPower, h) \in Nat
      /\ LastTotalPower \in Nat
  BY TalliesAreNatural, StakeIsNatural DEF LastTotalPower
<1>4. ClaimPower(p, BondedPower, c) * NeededDen <= ClaimPower(p, BondedPower, h) * NeededDen
  BY <1>2, <1>3, NeededAssumption, Z3
<1>5. ClaimPower(p, BondedPower, h) * NeededDen < NeededNum * LastTotalPower
  BY <1>1, <1>3, NeededAssumption, Z3 DEF AtLeastNeeded
<1>6. ClaimPower(p, BondedPower, c) * NeededDen < NeededNum * LastTotalPower
  BY <1>3, <1>4, <1>5, NeededAssumption, Z3
<1> QED
  BY <1>1, <1>3, <1>6, NeededAssumption, Z3 DEF AtLeastNeeded

-----------------------------------------------------------------------------
(* The two nodes.                                                           *)

ReplicasInv == TypeOK /\ PendingMeansUndecided /\ ReplicasAgree

\* Two nodes start from the same genesis, with no prophecy to decide.
LEMMA ReplicasInvInit == ReplicasInit => ReplicasInv
BY TypeInit DEF ReplicasInit, ReplicasInv, PendingMeansUndecided, ReplicasAgree, Init

\* A claim is accepted or refused by both nodes, and completes alike on both.
LEMMA ReplicasInvStep == ReplicasInv /\ [ExecuteAnyClaim]_replicaVars => ReplicasInv'
<1> SUFFICES ASSUME ReplicasInv, [ExecuteAnyClaim]_replicaVars PROVE ReplicasInv'
  OBVIOUS
<1>1. CASE UNCHANGED replicaVars
  <2>1. BondedPower' = BondedPower /\ LastTotalPower' = LastTotalPower
    BY <1>1 DEF replicaVars, BondedPower, LastTotalPower, Bonded
  <2> QED
    BY <1>1, <2>1 DEF replicaVars, ReplicasInv, TypeOK, PendingMeansUndecided, Undecided,
       ReplicasAgree
<1>2. ASSUME NEW id \in Ids, NEW v \in Validators, NEW c \in Claims, ExecuteClaim(id, v, c)
      PROVE  ReplicasInv'
  <2>1. UNCHANGED <<power, lastPower>>
    BY <1>2 DEF ExecuteClaim
  <2>2. BondedPower' = BondedPower /\ LastTotalPower' = LastTotalPower
    BY <2>1 DEF BondedPower, LastTotalPower, Bonded
  <2>3. CASE ~AcceptsClaim(store, id, v, c)
    <3>1. store' = store /\ replica' = replica
      BY <1>2, <2>3 DEF ExecuteClaim, Executes, ReplicasInv, ReplicasAgree
    <3> QED
      BY <2>1, <2>2, <3>1 DEF ReplicasInv, TypeOK, PendingMeansUndecided, Undecided, ReplicasAgree
  <2>4. CASE AcceptsClaim(store, id, v, c)
    <3> DEFINE p == GetProphecy(store, id)
               q == AddClaim(p, v, c)
    <3>1. PICK a \in ClaimResults(store, id, v, c) : store' = saveProphecy(store, id, a)
      BY <1>2, <2>4 DEF ExecuteClaim, Executes
    <3>2. PICK b \in ClaimResults(store, id, v, c) : replica' = saveProphecy(store, id, b)
      BY <1>2, <2>4 DEF ExecuteClaim, Executes, ReplicasInv, ReplicasAgree
    <3>3. ProcessClaim(id, v, c) /\ TypeOK /\ c \in ClaimStrings
      BY <2>1, <2>4, <3>1 DEF ProcessClaim, ReplicasInv, ClaimStrings
    <3>4. p \in Prophecies /\ ~IsFinal(p)
      BY <3>3, ClaimStep
    <3>5. p.statusText = PendingStatusText
      BY <3>4 DEF IsFinal, Prophecies
    <3>6. Undecided(p)
      BY <3>3, NewProphecyUndecided DEF ReplicasInv, PendingMeansUndecided, GetProphecy
    <3>7. q \in Prophecies
      BY <3>3, <3>4, AddClaimType
    <3>8. PICK h \in FindHighestClaim(q, BondedPower) : a = Complete(q, h)
      BY <3>1 DEF ClaimResults, processCompletion
    <3>9. PICK k \in FindHighestClaim(q, BondedPower) : b = Complete(q, k)
      BY <3>2 DEF ClaimResults, processCompletion
    <3>10. a = b
      BY <3>3, <3>4, <3>5, <3>6, <3>8, <3>9, CompletionIsUnique
    <3>11. Undecided(a)
      BY <3>3, <3>7, <3>8, CompletionUndecided
    <3>12. TypeOK'
      BY <3>3, TypeStep DEF Next, MakeClaim
    <3>13. PendingMeansUndecided'
      <4>1. \A i \in DOMAIN store' : store'[i] = a \/ (i \in DOMAIN store /\ store'[i] = store[i])
        BY <3>1 DEF saveProphecy
      <4>2. \A i \in DOMAIN store' : Undecided(store'[i])
        BY <3>11, <4>1 DEF ReplicasInv, PendingMeansUndecided
      <4> QED
        BY <2>2, <4>2 DEF PendingMeansUndecided, Undecided
    <3>14. ReplicasAgree'
      BY <3>1, <3>2, <3>10 DEF ReplicasAgree
    <3> QED
      BY <3>12, <3>13, <3>14 DEF ReplicasInv
  <2> QED
    BY <2>3, <2>4
<1> QED
  BY <1>1, <1>2 DEF ExecuteAnyClaim

\* While the stake stands still, two nodes that execute the same claims have
\* the same store, whatever the consensus proportion and the map orders.
THEOREM SteadyReplicasAgree == SteadyReplicasSpec => []ReplicasAgree
<1>1. ReplicasInv => ReplicasAgree
  BY DEF ReplicasInv
<1> QED
  BY <1>1, ReplicasInvInit, ReplicasInvStep, PTL DEF SteadyReplicasSpec

-----------------------------------------------------------------------------
(* Verdicts.  While the stake stands still both pictures of it are one.     *)

\* The power index is the validator set of the last block.
Steady == power = lastPower

\* The verdict of the votes on one prophecy, as StatusIsVerdict states it.
Reached(p) == \E c \in Claims : AtLeastNeeded(Tally(p, c), LastTotalPower)
StillOpen(p) == \E c \in Claims : ~AtMostNeeded(Tally(p, c) + Uncast(p), LastTotalPower)
Verdict(p) ==
  /\ (p.statusText = SuccessStatusText) <=> Reached(p)
  /\ (p.statusText = FailedStatusText) <=> ~Reached(p) /\ ~StillOpen(p)

\* A successful prophecy has the threshold behind the claim it names.
FinalIsBacked(p) ==
  p.statusText = SuccessStatusText =>
    p.finalClaim \in Claims /\ AtLeastNeeded(Tally(p, p.finalClaim), LastTotalPower)

\* The counts the verdicts compare are natural numbers.
LEMMA CountsAreNatural ==
  ASSUME NEW p
  PROVE  /\ \A c : Tally(p, c) \in Nat
         /\ Uncast(p) \in Nat
         /\ LastTotalPower \in Nat
<1>1. \A c : Supporters(p, c) \in SUBSET Validators
  BY DEF Supporters
<1> QED
  BY <1>1, StakeIsNatural DEF Tally, Uncast, LastTotalPower

\* More power behind a claim can only help it.
LEMMA NeededIsMonotone ==
  ASSUME NEW m \in Nat, NEW n \in Nat, m <= n, NEW total \in Nat
  PROVE  /\ AtLeastNeeded(m, total) => AtLeastNeeded(n, total)
         /\ AtMostNeeded(n, total) => AtMostNeeded(m, total)
<1>1. m * NeededDen <= n * NeededDen
  BY NeededAssumption, Z3
<1>2. m * NeededDen \in Nat /\ n * NeededDen \in Nat /\ NeededNum * total \in Nat
  BY NeededAssumption, Z3
<1> DEFINE a == m * NeededDen
           b == n * NeededDen
           t == NeededNum * total
<1>3. a \in Nat /\ b \in Nat /\ t \in Nat /\ a <= b
  BY <1>1, <1>2
<1>4. (a >= t => b >= t) /\ (b <= t => a <= t)
  <2> HIDE DEF a, b, t
  <2> QED
    BY <1>3
<1> QED
  BY <1>4 DEF AtLeastNeeded, AtMostNeeded

\* What exceeds the needed share has it.
LEMMA MoreThanNeeded ==
  ASSUME NEW m \in Nat, NEW total \in Nat, ~AtMostNeeded(m, total)
  PROVE  AtLeastNeeded(m, total)
<1>1. m * NeededDen \in Nat /\ NeededNum * total \in Nat
  BY NeededAssumption, Z3
<1> DEFINE a == m * NeededDen
           t == NeededNum * total
<1>2. a \in Nat /\ t \in Nat
  BY <1>1
<1>3. ~(a <= t) => a >= t
  <2> HIDE DEF a, t
  <2> QED
    BY <1>2
<1> QED
  BY <1>3 DEF AtLeastNeeded, AtMostNeeded

\* In a steady chain the power still missing, as HighestPossible computes it, is
\* the stake of the bonded validators that have not spoken.
LEMMA HighestPossibleCounts ==
  ASSUME TypeOK, Steady, NEW p \in Prophecies, IndexesAgree(p), NEW h \in Claims
  PROVE  HighestPossible(p, h) = Tally(p, h) + Uncast(p)
<1>1. BondedPower = lastPower
  BY DEF BondedPower, Bonded, Steady, TypeOK, Powers
<1>2. LastTotalPower = TotalClaimsPower(p, BondedPower) + Uncast(p)
  BY <1>1, VotedAndUncast DEF LastTotalPower, Uncast
<1>3. ClaimPower(p, BondedPower, h) = Tally(p, h)
  BY TallyIsStake DEF Tally
<1>4. TotalClaimsPower(p, BondedPower) \in Nat /\ Uncast(p) \in Nat /\ Tally(p, h) \in Nat
  BY TalliesAreNatural, CountsAreNatural
<1>5. Tally(p, h) + (LastTotalPower - TotalClaimsPower(p, BondedPower)) = Tally(p, h) + Uncast(p)
  BY <1>2, <1>4
<1> QED
  BY <1>3, <1>5 DEF HighestPossible

\* Completing a pending prophecy gives it the verdict of its votes: the highest
\* claim stands for all of them.
LEMMA CompletionIsVerdict ==
  ASSUME TypeOK, Steady, NEW p \in Prophecies, IndexesAgree(p),
         p.statusText = PendingStatusText,
         NEW h \in FindHighestClaim(p, BondedPower)
  PROVE  /\ Verdict(Complete(p, h))
         /\ FinalIsBacked(Complete(p, h))
<1> DEFINE q     == Complete(p, h)
           total == LastTotalPower
<1>1. h \in Claims
  BY DEF FindHighestClaim, ClaimsMade, IndexesAgree, ClaimStrings
<1>2. \A c \in Claims : Tally(p, c) <= Tally(p, h)
  <2> SUFFICES ASSUME NEW c \in Claims PROVE Tally(p, c) <= Tally(p, h)
    OBVIOUS
  <2>1. Tally(p, c) = ClaimPower(p, BondedPower, c) /\ Tally(p, h) = ClaimPower(p, BondedPower, h)
    BY <1>1, TallyIsStake DEF Tally
  <2>2. CASE c \in ClaimsMade(p)
    BY <2>1, <2>2 DEF FindHighestClaim
  <2>3. CASE c \notin ClaimsMade(p)
    <3>1. Tally(p, c) = 0
      BY <2>1, <2>3, UnmadeClaimHasNoPower DEF ClaimStrings
    <3> QED
      BY <3>1, CountsAreNatural
  <2> QED
    BY <2>2, <2>3
<1>3. /\ q.validatorClaims = p.validatorClaims
      /\ \A c : Tally(q, c) = Tally(p, c)
      /\ Uncast(q) = Uncast(p)
  <2>1. q.validatorClaims = p.validatorClaims
    BY DEF Complete, Prophecies
  <2> QED
    BY <2>1 DEF Tally, Uncast, Supporters
<1>4. /\ \A c : Tally(p, c) \in Nat /\ Tally(p, c) + Uncast(p) \in Nat
      /\ total \in Nat
  BY CountsAreNatural
<1>5. Reached(q) <=> AtLeastNeeded(Tally(p, h), total)
  <2>1. \A c \in Claims : AtLeastNeeded(Tally(p, c), total) => AtLeastNeeded(Tally(p, h), total)
    BY <1>2, <1>4, NeededIsMonotone
  <2> QED
    BY <1>1, <1>3, <2>1 DEF Reached
<1>6. StillOpen(q) <=> ~AtMostNeeded(Tally(p, h) + Uncast(p), total)
  <2>1. ASSUME NEW c \in Claims, AtMostNeeded(Tally(p, h) + Uncast(p), total)
        PROVE  AtMostNeeded(Tally(p, c) + Uncast(p), total)
    <3>1. Tally(p, c) + Uncast(p) <= Tally(p, h) + Uncast(p)
      <4>1. /\ Tally(p, c) <= Tally(p, h)
            /\ Tally(p, c) \in Nat /\ Tally(p, h) \in Nat /\ Uncast(p) \in Nat
        BY <1>2, CountsAreNatural
      <4> QED
        BY <4>1
    <3> QED
      BY <1>4, <2>1, <3>1, NeededIsMonotone
  <2> QED
    BY <1>1, <1>3, <2>1 DEF StillOpen
<1>7. /\ ClaimPower(p, BondedPower, h) = Tally(p, h)
      /\ HighestPossible(p, h) = Tally(p, h) + Uncast(p)
  BY <1>1, TallyIsStake, HighestPossibleCounts DEF Tally
<1>8. CASE AtLeastNeeded(Tally(p, h), total)
  <2>1. q.statusText = SuccessStatusText /\ q.finalClaim = h
    BY <1>7, <1>8 DEF Complete, Prophecies
  <2> QED
    BY <1>1, <1>3, <1>5, <1>8, <2>1
       DEF Verdict, FinalIsBacked, SuccessStatusText, FailedStatusText
<1>9. CASE ~AtLeastNeeded(Tally(p, h), total) /\ AtMostNeeded(Tally(p, h) + Uncast(p), total)
  <2>1. q.statusText = FailedStatusText
    BY <1>7, <1>9 DEF Complete, Prophecies
  <2> QED
    BY <1>5, <1>6, <1>9, <2>1 DEF Verdict, FinalIsBacked, SuccessStatusText, FailedStatusText
<1>10. CASE ~AtLeastNeeded(Tally(p, h), total) /\ ~AtMostNeeded(Tally(p, h) + Uncast(p), total)
  <2>1. q.statusText = PendingStatusText
    BY <1>7, <1>10 DEF Complete
  <2> QED
    BY <1>5, <1>6, <1>10, <2>1
       DEF Verdict, FinalIsBacked, PendingStatusText, SuccessStatusText, FailedStatusText
<1> QED
  BY <1>8, <1>9, <1>10

-----------------------------------------------------------------------------
(* The keeper's own steps while the stake stands still.                     *)

VerdictInv ==
  /\ TypeOK
  /\ LedgersAgree
  /\ Steady
  /\ \A id \in DOMAIN store : Verdict(store[id]) /\ FinalIsBacked(store[id])

\* A chain starts with one picture of its stake and no prophecy.
LEMMA VerdictInit == Init => VerdictInv
BY TypeInit DEF Init, VerdictInv, LedgersAgree, Steady

\* A claim completes its prophecy by the votes it now has; nothing else moves.
LEMMA VerdictStep ==
  VerdictInv /\ [MakeClaim /\ UNCHANGED <<power, lastPower>>]_vars => VerdictInv'
<1> SUFFICES ASSUME VerdictInv, [MakeClaim /\ UNCHANGED <<power, lastPower>>]_vars
             PROVE  VerdictInv'
  OBVIOUS
<1>1. UNCHANGED <<power, lastPower>>
  BY DEF vars
<1>2. BondedPower' = BondedPower /\ LastTotalPower' = LastTotalPower
  BY <1>1 DEF BondedPower, LastTotalPower, Bonded
<1>3. TypeOK' /\ LedgersAgree' /\ Steady'
  <2>1. [Next]_vars
    BY DEF Next
  <2> QED
    BY <1>1, <2>1, TypeStep, LedgersStep DEF VerdictInv, Steady
<1>4. \A id \in DOMAIN store' : Verdict(store'[id]) /\ FinalIsBacked(store'[id])
  <2>1. CASE UNCHANGED vars
    BY <2>1 DEF vars, VerdictInv
  <2>2. CASE MakeClaim
    <3>1. PICK id \in Ids \cup {EmptyString}, v \in Validators, c \in ClaimStrings :
            ProcessClaim(id, v, c)
      BY <2>2 DEF MakeClaim
    <3> DEFINE p == GetProphecy(store, id)
               a == AddClaim(p, v, c)
    <3>2. TypeOK /\ LedgersAgree /\ Steady
      BY DEF VerdictInv
    <3>3. /\ id \in Ids /\ c \in Claims /\ p \in Prophecies /\ ~IsFinal(p)
          /\ p.validatorClaims[v] = EmptyString
      BY <3>1, <3>2, ClaimStep
    <3>4. PICK q \in ClaimResults(store, id, v, c) : store' = saveProphecy(store, id, q)
      BY <3>1, <3>2, ClaimStep
    <3>5. a \in Prophecies /\ IndexesAgree(a)
      BY <3>2, <3>3, AddClaimType, AddClaimIndexes, NewProphecyIndexes
         DEF LedgersAgree, GetProphecy, ClaimStrings
    <3>6. a.statusText = PendingStatusText
      BY <3>3 DEF IsFinal, AddClaim, Prophecies
    <3>7. PICK h \in FindHighestClaim(a, BondedPower) : q = Complete(a, h)
      BY <3>4 DEF ClaimResults, processCompletion
    <3>8. Verdict(q) /\ FinalIsBacked(q)
      BY <3>2, <3>5, <3>6, <3>7, CompletionIsVerdict
    <3>9. \A i \in DOMAIN store' : store'[i] = q \/ (i \in DOMAIN store /\ store'[i] = store[i])
      BY <3>4 DEF saveProphecy
    <3> QED
      BY <3>8, <3>9 DEF VerdictInv
  <2> QED
    BY <2>1, <2>2
<1>5. (\A id \in DOMAIN store : Verdict(store[id]) /\ FinalIsBacked(store[id]))'
  BY <1>2, <1>4 DEF Verdict, FinalIsBacked, Reached, StillOpen, Tally, Uncast
<1> QED
  BY <1>3, <1>5 DEF VerdictInv

\* Every transaction on the first node is a claim of the keeper or changes
\* nothing, so what holds in every steady run of the keeper holds on the node.
LEMMA NodesRunTheKeeper == SteadyReplicasSpec => SteadySpec
<1>1. ReplicasInit => Init
  BY DEF ReplicasInit
<1>2. [ExecuteAnyClaim]_replicaVars => [MakeClaim /\ UNCHANGED <<power, lastPower>>]_vars
  <2> SUFFICES ASSUME [ExecuteAnyClaim]_replicaVars
               PROVE  [MakeClaim /\ UNCHANGED <<power, lastPower>>]_vars
    OBVIOUS
  <2>1. CASE UNCHANGED replicaVars
    BY <2>1 DEF replicaVars, vars
  <2>2. ASSUME NEW id \in Ids, NEW v \in Validators, NEW c \in Claims, ExecuteClaim(id, v, c)
        PROVE  [MakeClaim /\ UNCHANGED <<power, lastPower>>]_vars
    <3>1. c \in ClaimStrings
      BY DEF ClaimStrings
    <3> QED
      BY <2>2, <3>1 DEF ExecuteClaim, Executes, ProcessClaim, MakeClaim, vars
  <2> QED
    BY <2>1, <2>2 DEF ExecuteAnyClaim
<1> QED
  BY <1>1, <1>2, PTL DEF SteadyReplicasSpec, SteadySpec

\* The invariant behind the next three theorems.
LEMMA VerdictsHold == SteadySpec => []VerdictInv
BY VerdictInit, VerdictStep, PTL DEF SteadySpec

-----------------------------------------------------------------------------
\* While the stake stands still the stored status is the verdict of the votes:
\* success exactly when some claim has the needed share, failure exactly when
\* none has it and none can still exceed it.
THEOREM StatusIsTheVerdict == SteadyReplicasSpec => []StatusIsVerdict
<1>1. VerdictInv => StatusIsVerdict
  BY DEF VerdictInv, StatusIsVerdict, Verdict, Reached, StillOpen
<1> QED
  BY <1>1, NodesRunTheKeeper, VerdictsHold, PTL

\* Silent validators without stake leave nothing uncast.
LEMMA AllVotedLeavesNothing ==
  ASSUME NEW p, \A v \in Validators : Bonded(v) => p.validatorClaims[v] # EmptyString
  PROVE  Uncast(p) = 0
<1> DEFINE silent == Supporters(p, EmptyString)
<1>1. \A v \in silent : BondedPower[v] = 0
  BY DEF Supporters, BondedPower
<1>2. {e \in silent \X (1..MaxPower) : e[2] <= BondedPower[e[1]]} = {}
  BY <1>1, MaxPowerAssumption
<1> QED
  BY <1>2, FS_EmptySet DEF Uncast, StakeOf

\* While the stake stands still no prophecy is pending once every bonded
\* validator has claimed something about it.
THEOREM AllVotedDecides == SteadyReplicasSpec => []AllVotedMeansFinal
<1>1. VerdictInv => AllVotedMeansFinal
  <2> SUFFICES ASSUME VerdictInv, NEW id \in DOMAIN store,
                      \A v \in Validators :
                        Bonded(v) => store[id].validatorClaims[v] # EmptyString
               PROVE  IsFinal(store[id])
    BY DEF AllVotedMeansFinal
  <2> DEFINE p == store[id]
  <2>1. Uncast(p) = 0
    BY AllVotedLeavesNothing
  <2>2. StillOpen(p) => Reached(p)
    <3> SUFFICES ASSUME NEW c \in Claims,
                        ~AtMostNeeded(Tally(p, c) + Uncast(p), LastTotalPower)
                 PROVE  AtLeastNeeded(Tally(p, c), LastTotalPower)
      BY DEF StillOpen, Reached
    <3>1. Tally(p, c) + Uncast(p) = Tally(p, c) /\ Tally(p, c) \in Nat /\ LastTotalPower \in Nat
      BY <2>1, CountsAreNatural
    <3> QED
      BY <3>1, MoreThanNeeded
  <2> QED
    BY <2>2 DEF VerdictInv, Verdict, IsFinal
<1> QED
  BY <1>1, NodesRunTheKeeper, VerdictsHold, PTL

\* Two claims with at least half of the stake each leave nothing for a third
\* party: the arithmetic of a threshold of one half or more.
LEMMA TwoHalves ==
  ASSUME NEW f \in Nat, NEW c \in Nat, NEW total \in Nat,
         f + c <= total, 2 * NeededNum >= NeededDen,
         AtLeastNeeded(f, total), ~AtMostNeeded(c, total)
  PROVE  FALSE
<1>1. f * NeededDen >= NeededNum * total
  BY DEF AtLeastNeeded
<1>2. c * NeededDen > NeededNum * total
  BY NeededAssumption, Z3 DEF AtMostNeeded
<1>3. (f + c) * NeededDen > 2 * (NeededNum * total)
  BY <1>1, <1>2, NeededAssumption, Z3
<1>4. (f + c) * NeededDen <= total * NeededDen
  BY NeededAssumption, Z3
<1>5. total * NeededDen <= total * (2 * NeededNum)
  BY NeededAssumption, Z3
<1>6. total * (2 * NeededNum) = 2 * (NeededNum * total)
  BY NeededAssumption, Z3
<1> QED
  BY <1>3, <1>4, <1>5, <1>6, NeededAssumption, Z3

\* While the stake stands still, a claim that more than the needed share backs
\* or may still back is not lost, wins once all have spoken, and is not beaten
\* by another when the needed share is at least a half.
THEOREM ArrivalOrderCannotMatter == SteadyReplicasSpec => []OrderCannotMatter
<1>1. VerdictInv => OrderCannotMatter
  <2> SUFFICES ASSUME VerdictInv, NEW id \in DOMAIN store, NEW c \in Claims,
                      ~AtMostNeeded(Tally(store[id], c) + Uncast(store[id]), LastTotalPower)
               PROVE  LET p == store[id] IN
                        /\ p.statusText # FailedStatusText
                        /\ Uncast(p) = 0 => p.statusText = SuccessStatusText
                        /\ p.statusText = SuccessStatusText /\ 2 * NeededNum >= NeededDen
                             => p.finalClaim = c
    BY DEF OrderCannotMatter
  <2> DEFINE p == store[id]
  <2>1. Verdict(p) /\ FinalIsBacked(p) /\ StillOpen(p)
    BY DEF VerdictInv, StillOpen
  <2>2. p.statusText # FailedStatusText
    BY <2>1 DEF Verdict
  <2>3. ASSUME Uncast(p) = 0 PROVE p.statusText = SuccessStatusText
    <3>1. Tally(p, c) + Uncast(p) = Tally(p, c) /\ Tally(p, c) \in Nat /\ LastTotalPower \in Nat
      BY <2>3, CountsAreNatural
    <3>2. Reached(p)
      BY <3>1, MoreThanNeeded DEF Reached
    <3> QED
      BY <2>1, <3>2 DEF Verdict
  <2>4. ASSUME p.statusText = SuccessStatusText, 2 * NeededNum >= NeededDen
        PROVE  p.finalClaim = c
    <3> SUFFICES ASSUME p.finalClaim # c PROVE FALSE
      OBVIOUS
    <3> DEFINE f == p.finalClaim
    <3>1. f \in Claims /\ AtLeastNeeded(Tally(p, f), LastTotalPower)
      BY <2>1, <2>4 DEF FinalIsBacked
    <3>2. BondedPower = lastPower
      BY DEF BondedPower, Bonded, VerdictInv, Steady, TypeOK, Powers
    <3>3. p \in Prophecies
      BY DEF VerdictInv, TypeOK
    <3>4. Tally(p, f) + Tally(p, c) + Uncast(p) <= LastTotalPower
      BY <3>1, <3>2, <3>3, TwoClaimsAndUncast DEF Tally, Uncast, LastTotalPower
    <3>5. /\ Tally(p, f) \in Nat /\ Tally(p, c) \in Nat /\ Uncast(p) \in Nat
          /\ LastTotalPower \in Nat
      BY CountsAreNatural
    <3>6. /\ Tally(p, f) + (Tally(p, c) + Uncast(p)) <= LastTotalPower
          /\ Tally(p, c) + Uncast(p) \in Nat
      BY <3>4, <3>5
    <3> QED
      BY <2>4, <3>1, <3>5, <3>6, TwoHalves
  <2> QED
    BY <2>2, <2>3, <2>4
<1> QED
  BY <1>1, NodesRunTheKeeper, VerdictsHold, PTL
=============================================================================
