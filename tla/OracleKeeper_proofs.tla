------------------------- MODULE OracleKeeper_proofs ------------------------
(***************************************************************************)
(* Theorems about the oracle keeper, for every set of validators, claims   *)
(* and identifiers, every stake and every consensus proportion.            *)
(***************************************************************************)
EXTENDS OracleImplements, Prophecy_proofs

-----------------------------------------------------------------------------
(* The shape of one accepted claim.                                         *)

\* processCompletion touches the status and nothing else, and a success names
\* a claim that has been made.
LEMMA CompletionShape ==
  ASSUME NEW p \in Prophecies, NEW q \in processCompletion(p)
  PROVE  /\ q \in Prophecies
         /\ q.claimValidators = p.claimValidators
         /\ q.validatorClaims = p.validatorClaims
         /\ \/ q = p
            \/ q.statusText = FailedStatusText /\ q.finalClaim = p.finalClaim
            \/ q.statusText = SuccessStatusText /\ q.finalClaim \in ClaimsMade(p)
<1>1. PICK h \in FindHighestClaim(p, BondedPower) : q = Complete(p, h)
  BY DEF processCompletion
<1>2. h \in ClaimsMade(p) /\ h \in ClaimStrings
  BY DEF FindHighestClaim, ClaimsMade
<1>3. \/ q = p
      \/ q = [p EXCEPT !.statusText = FailedStatusText]
      \/ q = [p EXCEPT !.statusText = SuccessStatusText, !.finalClaim = h]
  BY <1>1 DEF Complete
<1> QED
  BY <1>2, <1>3 DEF Prophecies, FailedStatusText, SuccessStatusText

\* What an accepted claim stores: the votes of AddClaim and a completion.
LEMMA ClaimStep ==
  ASSUME TypeOK, NEW id \in Ids \cup {EmptyString}, NEW v \in Validators,
         NEW c \in ClaimStrings, ProcessClaim(id, v, c)
  PROVE  /\ id \in Ids
         /\ c \in Claims
         /\ GetProphecy(store, id) \in Prophecies
         /\ ~IsFinal(GetProphecy(store, id))
         /\ GetProphecy(store, id).validatorClaims[v] = EmptyString
         /\ \E q \in ClaimResults(store, id, v, c) :
              /\ q \in Prophecies
              /\ store' = saveProphecy(store, id, q)
<1> DEFINE p == GetProphecy(store, id)
<1>1. AcceptsClaim(store, id, v, c)
  BY DEF ProcessClaim
<1>2. id \in Ids /\ c \in Claims
  BY <1>1 DEF AcceptsClaim, ClaimStrings
<1>3. p \in Prophecies
  BY NewProphecyType DEF GetProphecy, TypeOK
<1>4. ~IsFinal(p) /\ p.validatorClaims[v] = EmptyString
  BY <1>1 DEF AcceptsClaim, GetProphecy, NewProphecy, IsFinal,
     PendingStatusText, SuccessStatusText, FailedStatusText
<1>5. PICK q \in ClaimResults(store, id, v, c) : store' = saveProphecy(store, id, q)
  BY DEF ProcessClaim
<1>6. q \in Prophecies
  <2>1. AddClaim(p, v, c) \in Prophecies
    BY <1>3, AddClaimType
  <2> QED
    BY <1>5, <2>1, CompletionShape DEF ClaimResults
<1> QED
  BY <1>2, <1>3, <1>4, <1>5, <1>6

-----------------------------------------------------------------------------
(* Types.                                                                   *)

\* A new chain has an empty oracle store and a bonded validator.
LEMMA TypeInit == Init => TypeOK
BY InitialPowersAssumption
   DEF Init, TypeOK, LastTotalPower

\* No action of the keeper or of the staking module leaves the types.
LEMMA TypeStep == TypeOK /\ [Next]_vars => TypeOK'
<1> SUFFICES ASSUME TypeOK, [Next]_vars PROVE TypeOK'
  OBVIOUS
<1>1. CASE MakeClaim
  <2>1. PICK id \in Ids \cup {EmptyString}, v \in Validators, c \in ClaimStrings :
          ProcessClaim(id, v, c)
    BY <1>1 DEF MakeClaim
  <2>2. PICK q \in Prophecies : store' = saveProphecy(store, id, q) /\ id \in Ids
    BY <2>1, ClaimStep
  <2>3. UNCHANGED <<power, lastPower>>
    BY <2>1 DEF ProcessClaim
  <2> QED
    BY <2>2, <2>3 DEF TypeOK, saveProphecy, LastTotalPower
<1>2. ASSUME NEW v \in Validators, NEW n \in 0..MaxPower, Restake(v, n)
      PROVE  TypeOK'
  BY <1>2 DEF Restake, TypeOK, LastTotalPower, Powers
<1>3. CASE EndBlock
  BY <1>3 DEF EndBlock, TypeOK, LastTotalPower
<1>4. CASE UNCHANGED vars
  BY <1>4 DEF vars, TypeOK, LastTotalPower
<1> QED
  BY <1>1, <1>2, <1>3, <1>4 DEF Next

\* Every reachable state is well typed, and the chain never runs with a total
\* power of zero, which processCompletion divides by (keeper.go:128-132).
THEOREM TypeCorrect == Spec => []TypeOK
BY TypeInit, TypeStep, PTL DEF Spec

-----------------------------------------------------------------------------
(* The two indexes of the votes.                                            *)

\* An accepted claim extends both indexes of its prophecy by the same vote.
LEMMA LedgersStep == TypeOK /\ LedgersAgree /\ [Next]_vars => LedgersAgree'
<1> SUFFICES ASSUME TypeOK, LedgersAgree, [Next]_vars PROVE LedgersAgree'
  OBVIOUS
<1>1. CASE MakeClaim
  <2>1. PICK id \in Ids \cup {EmptyString}, v \in Validators, c \in ClaimStrings :
          ProcessClaim(id, v, c)
    BY <1>1 DEF MakeClaim
  <2> DEFINE p == GetProphecy(store, id)
  <2>2. /\ id \in Ids /\ c \in Claims /\ p \in Prophecies
        /\ p.validatorClaims[v] = EmptyString
    BY <2>1, ClaimStep
  <2>3. PICK q \in ClaimResults(store, id, v, c) :
          q \in Prophecies /\ store' = saveProphecy(store, id, q)
    BY <2>1, ClaimStep
  <2>4. IndexesAgree(p)
    BY NewProphecyIndexes DEF LedgersAgree, GetProphecy
  <2>5. AddClaim(p, v, c) \in Prophecies /\ IndexesAgree(AddClaim(p, v, c))
    BY <2>2, <2>4, AddClaimIndexes, AddClaimType DEF ClaimStrings
  <2>6. /\ q.claimValidators = AddClaim(p, v, c).claimValidators
        /\ q.validatorClaims = AddClaim(p, v, c).validatorClaims
    BY <2>3, <2>5, CompletionShape DEF ClaimResults
  <2>7. IndexesAgree(q)
    BY <2>3, <2>5, <2>6, IndexesAgreeDependsOnIndexes
  <2>8. \A i \in DOMAIN store' : store'[i] = q \/ (i \in DOMAIN store /\ store'[i] = store[i])
    BY <2>3 DEF saveProphecy
  <2> QED
    BY <2>7, <2>8 DEF LedgersAgree
<1>2. CASE UNCHANGED store
  BY <1>2 DEF LedgersAgree
<1> QED
  BY <1>1, <1>2 DEF Next, Restake, EndBlock, vars

\* The list of voters of each claim and the claim of each voter never
\* disagree, and nobody is listed twice, so no vote is ever counted twice.
THEOREM LedgersAlwaysAgree == Spec => []LedgersAgree
<1>1. Init => LedgersAgree
  BY DEF Init, LedgersAgree
<1> QED
  BY <1>1, TypeInit, TypeStep, LedgersStep, PTL DEF Spec

-----------------------------------------------------------------------------
(* Finality.                                                                *)

\* An accepted claim is about an id that is new or still pending; the rest of
\* the store is copied (keeper.go:92-94).
LEMMA FinalityStep ==
  ASSUME TypeOK, [Next]_vars, NEW id \in DOMAIN store
  PROVE  /\ id \in DOMAIN store'
         /\ IsFinal(store[id]) => store'[id] = store[id]
<1>1. CASE MakeClaim
  <2>1. PICK i \in Ids \cup {EmptyString}, v \in Validators, c \in ClaimStrings :
          ProcessClaim(i, v, c)
    BY <1>1 DEF MakeClaim
  <2>2. PICK q \in Prophecies : store' = saveProphecy(store, i, q)
    BY <2>1, ClaimStep
  <2>3. ~IsFinal(GetProphecy(store, i))
    BY <2>1, ClaimStep
  <2> QED
    BY <2>2, <2>3 DEF saveProphecy, GetProphecy
<1>2. CASE UNCHANGED store
  BY <1>2
<1> QED
  BY <1>1, <1>2 DEF Next, Restake, EndBlock, vars

\* A verdict is final: no claim, change of stake or block changes it.
THEOREM VerdictsAreFinal == Spec => Finality
<1>1. TypeOK /\ [Next]_vars =>
        [\A id \in DOMAIN store :
           /\ id \in DOMAIN store'
           /\ IsFinal(store[id]) => store'[id] = store[id]]_vars
  BY FinalityStep
<1> QED
  BY <1>1, TypeInit, TypeStep, PTL DEF Spec, Finality

-----------------------------------------------------------------------------
(* Verdicts and stake.                                                      *)

\* A proportion below one leaves a remainder of every positive total.
LEMMA ProperShare ==
  ASSUME NEW total \in Nat, total > 0, NeededNum < NeededDen
  PROVE  ~AtMostNeeded(total, total)
<1>1. NeededNum * total < NeededDen * total
  BY NeededAssumption, Z3
<1>2. NeededDen * total = total * NeededDen
  BY NeededAssumption, Z3
<1> QED
  BY <1>1, <1>2, NeededAssumption, Z3 DEF AtMostNeeded

\* If one claim alone has been made, the votes still missing could complete it
\* to the whole, so it cannot be declared failed.
LEMMA LoneClaimIsNotFailed ==
  ASSUME TypeOK, NeededNum < NeededDen,
         NEW p \in Prophecies, p.statusText # FailedStatusText,
         NEW h \in ClaimsMade(p), ClaimsMade(p) = {h}
  PROVE  Complete(p, h).statusText # FailedStatusText
<1>1. Entries(p) = {e \in Entries(p) : e[1] = h}
  <2>1. ASSUME NEW e \in Entries(p) PROVE e[1] = h
    <3>1. PICK c \in ClaimStrings : \E i \in DOMAIN p.claimValidators[c] : e = <<c, i>>
      BY DEF Entries
    <3>2. p.claimValidators[c] # << >>
      BY <3>1
    <3> QED
      BY <3>1, <3>2 DEF ClaimsMade
  <2> QED
    BY <2>1
<1>2. HighestPossible(p, h) = LastTotalPower
  <2>1. ClaimPower(p, BondedPower, h) = TotalClaimsPower(p, BondedPower)
    BY <1>1 DEF ClaimPower, TotalClaimsPower
  <2>2. ClaimPower(p, BondedPower, h) \in Nat
    BY TalliesAreNatural
  <2>3. LastTotalPower \in Nat
    BY StakeIsNatural DEF LastTotalPower
  <2> QED
    BY <2>1, <2>2, <2>3 DEF HighestPossible
<1>3. ~AtMostNeeded(HighestPossible(p, h), LastTotalPower)
  BY <1>2, ProperShare, StakeIsNatural DEF LastTotalPower, TypeOK
<1> QED
  BY <1>3 DEF Complete, Prophecies, SuccessStatusText, FailedStatusText

\* The step from pending to failed happens in a completion, where a lone claim
\* cannot fail.
LEMMA DisagreementStep ==
  TypeOK /\ FailedMeansDisagreement /\ [Next]_vars => FailedMeansDisagreement'
<1> SUFFICES ASSUME TypeOK, FailedMeansDisagreement, [Next]_vars,
                    NeededNum < NeededDen,
                    NEW id \in DOMAIN store', store'[id].statusText = FailedStatusText
             PROVE  \E c, d \in ClaimsMade(store'[id]) : c # d
  BY DEF FailedMeansDisagreement
<1>1. CASE MakeClaim
  <2>1. PICK i \in Ids \cup {EmptyString}, v \in Validators, c \in ClaimStrings :
          ProcessClaim(i, v, c)
    BY <1>1 DEF MakeClaim
  <2> DEFINE p == AddClaim(GetProphecy(store, i), v, c)
  <2>2. PICK q \in ClaimResults(store, i, v, c) : store' = saveProphecy(store, i, q)
    BY <2>1, ClaimStep
  <2>3. CASE id # i
    BY <2>2, <2>3 DEF saveProphecy, FailedMeansDisagreement
  <2>4. CASE id = i
    <3>1. p \in Prophecies
      BY <2>1, ClaimStep, AddClaimType
    <3>2. p.statusText # FailedStatusText
      <4>1. ~IsFinal(GetProphecy(store, i)) /\ GetProphecy(store, i) \in Prophecies
        BY <2>1, ClaimStep
      <4> QED
        BY <4>1 DEF IsFinal, AddClaim, Prophecies
    <3>3. store'[id] = q
      BY <2>2, <2>4 DEF saveProphecy
    <3>4. PICK h \in FindHighestClaim(p, BondedPower) : q = Complete(p, h)
      BY <2>2 DEF ClaimResults, processCompletion
    <3>5. h \in ClaimsMade(p)
      BY <3>4 DEF FindHighestClaim
    <3>6. ClaimsMade(p) # {h}
      BY <3>1, <3>2, <3>3, <3>4, <3>5, LoneClaimIsNotFailed
    <3>7. ClaimsMade(q) = ClaimsMade(p)
      BY <2>2, <3>1, CompletionShape DEF ClaimResults, ClaimsMade
    <3> QED
      BY <3>3, <3>5, <3>6, <3>7
  <2> QED
    BY <2>3, <2>4
<1>2. CASE UNCHANGED store
  BY <1>2 DEF FailedMeansDisagreement
<1> QED
  BY <1>1, <1>2 DEF Next, Restake, EndBlock, vars

\* At any proportion below one, no prophecy fails unless two validators
\* disagreed about it, however the stake moves.
THEOREM FailureNeedsDissent == Spec => []FailedMeansDisagreement
<1>1. Init => FailedMeansDisagreement
  BY DEF Init, FailedMeansDisagreement
<1> QED
  BY <1>1, TypeInit, TypeStep, DisagreementStep, PTL DEF Spec

\* The step to success happens in a completion, where the tally of the highest
\* claim is the stake of its supporters.
LEMMA BackedStep ==
  ASSUME TypeOK, LedgersAgree, [Next]_vars, NEW id \in Ids, BecomesSuccess(id)
  PROVE  LET p     == store'[id]
             stake == [c \in Claims |-> StakeOf(BondedPower, Supporters(p, c))]
         IN /\ AtLeastNeeded(stake[p.finalClaim], LastTotalPower)
            /\ \A c \in Claims : stake[c] <= stake[p.finalClaim]
<1>1. CASE MakeClaim
  <2>1. PICK i \in Ids \cup {EmptyString}, v \in Validators, c \in ClaimStrings :
          ProcessClaim(i, v, c)
    BY <1>1 DEF MakeClaim
  <2> DEFINE p == AddClaim(GetProphecy(store, i), v, c)
  <2>2. PICK q \in ClaimResults(store, i, v, c) : store' = saveProphecy(store, i, q)
    BY <2>1, ClaimStep
  <2>3. id = i /\ store'[id] = q /\ q.statusText = SuccessStatusText
    BY <2>2 DEF saveProphecy, BecomesSuccess
  <2>4. p \in Prophecies /\ p.statusText # SuccessStatusText
    <3>1. ~IsFinal(GetProphecy(store, i)) /\ GetProphecy(store, i) \in Prophecies
      BY <2>1, ClaimStep
    <3> QED
      BY <3>1, AddClaimType DEF IsFinal, AddClaim, Prophecies
  <2>5. PICK h \in FindHighestClaim(p, BondedPower) : q = Complete(p, h)
    BY <2>2 DEF ClaimResults, processCompletion
  <2>6. /\ q.finalClaim = h
        /\ AtLeastNeeded(ClaimPower(p, BondedPower, h), LastTotalPower)
    BY <2>3, <2>4, <2>5 DEF Complete, Prophecies, SuccessStatusText, FailedStatusText
  <2>7. IndexesAgree(p)
    BY <2>1, ClaimStep, NewProphecyIndexes, AddClaimIndexes
       DEF LedgersAgree, GetProphecy
  <2>8. h \in Claims
    BY <2>5, <2>7 DEF FindHighestClaim, ClaimsMade, IndexesAgree, ClaimStrings
  <2>9. \A d \in Claims : ClaimPower(p, BondedPower, d) = StakeOf(BondedPower, Supporters(q, d))
    <3>1. q.validatorClaims = p.validatorClaims
      BY <2>2, <2>4, CompletionShape DEF ClaimResults
    <3> QED
      BY <2>4, <2>7, <3>1, TallyIsStake DEF Supporters
  <2>10. \A d \in Claims : ClaimPower(p, BondedPower, d) <= ClaimPower(p, BondedPower, h)
    <3>1. \A d \in ClaimsMade(p) : ClaimPower(p, BondedPower, d) <= ClaimPower(p, BondedPower, h)
      BY <2>5 DEF FindHighestClaim
    <3>2. ASSUME NEW d \in Claims, d \notin ClaimsMade(p)
          PROVE  ClaimPower(p, BondedPower, d) = 0
      <4>1. p.claimValidators[d] = << >>
        BY <3>2 DEF ClaimsMade, ClaimStrings
      <4>2. {e \in Entries(p) : e[1] = d} = {}
        BY <4>1 DEF Entries
      <4>3. UnitsOf(p, BondedPower, {e \in Entries(p) : e[1] = d}) = {}
        BY <4>2 DEF UnitsOf
      <4> QED
        BY <4>3, FS_EmptySet DEF ClaimPower
    <3> QED
      BY <2>4, <3>1, <3>2, TalliesAreNatural
  <2> HIDE DEF p
  <2> QED
    BY <2>3, <2>6, <2>8, <2>9, <2>10
<1>2. CASE UNCHANGED store
  BY <1>2 DEF BecomesSuccess
<1> QED
  BY <1>1, <1>2 DEF Next, Restake, EndBlock, vars

\* A prophecy succeeds only on a claim whose makers hold, each counted once,
\* the needed share of the total power, and that no other claim surpasses.
THEOREM SuccessNeedsThreshold == Spec => SuccessIsBacked
<1>1. TypeOK /\ LedgersAgree /\ [Next]_vars =>
        [\A id \in Ids : BecomesSuccess(id) =>
           LET p     == store'[id]
               stake == [c \in Claims |-> StakeOf(BondedPower, Supporters(p, c))]
           IN /\ AtLeastNeeded(stake[p.finalClaim], LastTotalPower)
              /\ \A c \in Claims : stake[c] <= stake[p.finalClaim]]_vars
  BY BackedStep
<1>2. Init => LedgersAgree
  BY DEF Init, LedgersAgree
<1> QED
  BY <1>1, <1>2, TypeInit, TypeStep, LedgersStep, PTL DEF Spec, SuccessIsBacked

-----------------------------------------------------------------------------
(* One vote per validator, one outcome per identifier.                      *)

\* What the two theorems above leave out of the type of an outcome: a final
\* claim is recorded with a success and with nothing else.
FinalClaimMeansSuccess ==
  \A id \in DOMAIN store :
    store[id].statusText # SuccessStatusText => store[id].finalClaim = EmptyString

\* finalClaim is written together with the success, and never otherwise.
LEMMA FinalClaimStep ==
  TypeOK /\ FinalClaimMeansSuccess /\ [Next]_vars => FinalClaimMeansSuccess'
<1> SUFFICES ASSUME TypeOK, FinalClaimMeansSuccess, [Next]_vars
             PROVE  FinalClaimMeansSuccess'
  OBVIOUS
<1>1. CASE MakeClaim
  <2>1. PICK id \in Ids \cup {EmptyString}, v \in Validators, c \in ClaimStrings :
          ProcessClaim(id, v, c)
    BY <1>1 DEF MakeClaim
  <2> DEFINE p == GetProphecy(store, id)
  <2>2. PICK q \in ClaimResults(store, id, v, c) : store' = saveProphecy(store, id, q)
    BY <2>1, ClaimStep
  <2>3. p \in Prophecies /\ ~IsFinal(p) /\ p.finalClaim = EmptyString
    BY <2>1, ClaimStep DEF FinalClaimMeansSuccess, GetProphecy, NewProphecy, IsFinal
  <2>4. AddClaim(p, v, c).finalClaim = EmptyString
    BY <2>3 DEF AddClaim, Prophecies
  <2>5. q.statusText # SuccessStatusText => q.finalClaim = EmptyString
    BY <2>2, <2>3, <2>4, AddClaimType, CompletionShape DEF ClaimResults
  <2> QED
    BY <2>2, <2>5 DEF saveProphecy, FinalClaimMeansSuccess
<1>2. CASE UNCHANGED store
  BY <1>2 DEF FinalClaimMeansSuccess
<1> QED
  BY <1>1, <1>2 DEF Next, Restake, EndBlock, vars

\* An empty store reads as all votes missing and all outcomes open.
LEMMA AbstractInit == Init => Abstract!Init
BY DEF Init, Abstract!Init, Abstract!Open, votesOf, outcomeOf, GetProphecy, NewProphecy,
       PendingStatusText

\* The claim a completion succeeds with is somebody's vote.
LEMMA FinalClaimIsVotedFor ==
  ASSUME NEW p \in Prophecies, IndexesAgree(p), NEW c \in ClaimsMade(p)
  PROVE  \E w \in Validators : p.validatorClaims[w] = c /\ c # EmptyString
<1>1. c \in ClaimStrings /\ p.claimValidators[c] # << >> /\ c # EmptyString
  BY DEF ClaimsMade, IndexesAgree
<1>2. 1 \in DOMAIN p.claimValidators[c] /\ p.claimValidators[c][1] \in Validators
  BY <1>1 DEF Prophecies
<1> QED
  BY <1>1, <1>2 DEF IndexesAgree

\* An accepted claim is a vote; a change of stake is a stutter.
LEMMA AbstractStep ==
  ASSUME TypeOK, LedgersAgree, FinalClaimMeansSuccess, [Next]_vars
  PROVE  [Abstract!Next]_<<votesOf, outcomeOf>>
<1>1. CASE MakeClaim
  <2>1. PICK id \in Ids \cup {EmptyString}, v \in Validators, c \in ClaimStrings :
          ProcessClaim(id, v, c)
    BY <1>1 DEF MakeClaim
  <2> DEFINE p    == GetProphecy(store, id)
             a    == AddClaim(p, v, c)
             o(q) == [statusText |-> q.statusText, finalClaim |-> q.finalClaim]
  <2>2. /\ id \in Ids /\ c \in Claims /\ p \in Prophecies /\ ~IsFinal(p)
        /\ p.validatorClaims[v] = EmptyString
    BY <2>1, ClaimStep
  <2>3. PICK q \in ClaimResults(store, id, v, c) :
          q \in Prophecies /\ store' = saveProphecy(store, id, q)
    BY <2>1, ClaimStep
  <2>4. a \in Prophecies /\ IndexesAgree(a)
    BY <2>2, AddClaimType, AddClaimIndexes, NewProphecyIndexes
       DEF LedgersAgree, GetProphecy, ClaimStrings
  <2>5. /\ q.validatorClaims = [p.validatorClaims EXCEPT ![v] = c]
        /\ \/ q = a
           \/ q.statusText = FailedStatusText /\ q.finalClaim = a.finalClaim
           \/ q.statusText = SuccessStatusText /\ q.finalClaim \in ClaimsMade(a)
    BY <2>2, <2>3, <2>4, CompletionShape DEF ClaimResults, AddClaim, Prophecies
  <2>6. p.statusText = PendingStatusText /\ p.finalClaim = EmptyString
    BY <2>2 DEF FinalClaimMeansSuccess, GetProphecy, NewProphecy, IsFinal, Prophecies
  <2>7. a.statusText = PendingStatusText /\ a.finalClaim = EmptyString
    BY <2>2, <2>6 DEF AddClaim, Prophecies
  <2>8. \A i \in Ids : GetProphecy(store, i)' = IF i = id THEN q ELSE GetProphecy(store, i)
    BY <2>2, <2>3 DEF saveProphecy, GetProphecy
  <2>9. votesOf' = [votesOf EXCEPT ![id][v] = c]
    <3>1. votesOf[id] = p.validatorClaims
      BY <2>2 DEF votesOf
    <3>2. \A i \in Ids : GetProphecy(store, i)'.validatorClaims =
            IF i = id THEN [votesOf[id] EXCEPT ![v] = c] ELSE votesOf[i]
      BY <2>5, <2>8, <3>1 DEF votesOf
    <3> QED
      BY <2>2, <3>2 DEF votesOf
  <2>10. outcomeOf' = [outcomeOf EXCEPT ![id] = o(q)]
    BY <2>2, <2>8 DEF outcomeOf
  <2>11. outcomeOf[id] = Abstract!Open /\ votesOf[id][v] = EmptyString
    BY <2>2, <2>6 DEF outcomeOf, votesOf, Abstract!Open, PendingStatusText
  <2>12. /\ o(q) \in {Abstract!Open, Abstract!Rejected}
                      \cup {Abstract!Accepted(votesOf'[id][w]) : w \in Validators}
         /\ o(q) # Abstract!Accepted(EmptyString)
    <3>1. CASE q = a
      BY <2>7, <3>1 DEF Abstract!Open, Abstract!Accepted, PendingStatusText
    <3>2. CASE q.statusText = FailedStatusText /\ q.finalClaim = a.finalClaim
      BY <2>7, <3>2 DEF Abstract!Rejected, Abstract!Accepted, FailedStatusText
    <3>3. CASE q.statusText = SuccessStatusText /\ q.finalClaim \in ClaimsMade(a)
      <4>1. PICK w \in Validators : a.validatorClaims[w] = q.finalClaim /\ q.finalClaim # EmptyString
        BY <2>4, <3>3, FinalClaimIsVotedFor
      <4>2. votesOf'[id][w] = q.finalClaim
        BY <2>2, <2>5, <2>8, <4>1 DEF votesOf, AddClaim, Prophecies
      <4>3. o(q) = Abstract!Accepted(votesOf'[id][w])
        BY <3>3, <4>2 DEF Abstract!Accepted, SuccessStatusText
      <4> QED
        BY <4>1, <4>2, <4>3 DEF Abstract!Accepted
    <3> QED
      BY <2>5, <3>1, <3>2, <3>3
  <2>13. Abstract!Vote(id, v, c)
    BY <2>9, <2>10, <2>11, <2>12 DEF Abstract!Vote
  <2> QED
    BY <2>2, <2>13 DEF Abstract!Next
<1>2. CASE UNCHANGED store
  <2>1. votesOf' = votesOf /\ outcomeOf' = outcomeOf
    BY <1>2 DEF votesOf, outcomeOf, GetProphecy
  <2> QED
    BY <2>1
<1> QED
  BY <1>1, <1>2 DEF Next, Restake, EndBlock, vars

\* The keeper implements OneVoteOracle: whatever the stake does, callers see
\* one vote per validator and at most one outcome per identifier.
THEOREM KeeperImplementsOneVote == Spec => ImplementsOneVote
<1>1. Init => LedgersAgree /\ FinalClaimMeansSuccess
  BY DEF Init, LedgersAgree, FinalClaimMeansSuccess
<1> QED
  BY <1>1, TypeInit, TypeStep, LedgersStep, FinalClaimStep, AbstractInit, AbstractStep, PTL
     DEF Spec, ImplementsOneVote, Abstract!Spec
=============================================================================
