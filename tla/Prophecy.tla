------------------------------ MODULE Prophecy ------------------------------
(***************************************************************************)
(* The data of the oracle: x/oracle/types/prophecy.go.                     *)
(*                                                                         *)
(* A prophecy collects, for one identifier, the claims validators make.    *)
(* It keeps two indexes of the same votes: the list of validators behind   *)
(* each claim, which is what the tally walks, and the claim of each        *)
(* validator, which is what the duplicate check reads.  The id is the key  *)
(* under which the keeper stores the record and is not repeated in it.     *)
(*                                                                         *)
(* Voting power is counted in units: a validator of power n contributes    *)
(* the units 1..n, and a tally is the number of units of the entries it    *)
(* walks.  A validator that is listed twice is counted twice, as in the    *)
(* Go loop.                                                                *)
(***************************************************************************)
EXTENDS Integers, Sequences, FiniteSets

CONSTANTS
  Validators,   \* operator addresses of the validators
  Claims,       \* the non-empty claim strings
  EmptyString,  \* the Go string "": "no claim" in a record, and a bad input
  MaxPower      \* bound on the voting power of one validator

ASSUME ValidatorsAssumption == IsFiniteSet(Validators)
ASSUME ClaimsAssumption     == IsFiniteSet(Claims) /\ EmptyString \notin Claims
ASSUME MaxPowerAssumption   == MaxPower \in Nat

PendingStatusText == "pending"
SuccessStatusText == "success"
FailedStatusText  == "failed"

ClaimStrings == Claims \cup {EmptyString}
Powers       == [Validators -> 0..MaxPower]

Prophecies ==
  [statusText      : {PendingStatusText, SuccessStatusText, FailedStatusText},
   finalClaim      : ClaimStrings,
   claimValidators : [ClaimStrings -> Seq(Validators)],
   validatorClaims : [Validators -> ClaimStrings]]

\* Indexing a Go map at an absent key gives the zero value, so the two maps
\* are total functions that start at the empty list and the empty string.
NewProphecy ==
  [statusText      |-> PendingStatusText,
   finalClaim      |-> EmptyString,
   claimValidators |-> [c \in ClaimStrings |-> << >>],
   validatorClaims |-> [v \in Validators |-> EmptyString]]

\* A bug that writes only the index the duplicate check reads when the claim
\* is new, and forgets it when the claim already has supporters.
AddClaim_ForgetsLaterVoters(p, v, c) ==
  [p EXCEPT !.claimValidators[c] = Append(@, v),
            !.validatorClaims[v] = IF p.claimValidators[c] = << >> THEN c ELSE @]

AddClaim(p, v, c) ==
  [p EXCEPT !.claimValidators[c] = Append(@, v),
            !.validatorClaims[v] = c]

-----------------------------------------------------------------------------
(* Tallies.  power[v] is the power the staking module reports for v.        *)

\* The keys of claimValidators: AddClaim alone creates them, with one voter.
ClaimsMade(p) == {c \in ClaimStrings : p.claimValidators[c] # << >>}

\* The positions the two nested loops visit, and the power units found there.
Entries(p) ==
  UNION {{<<c, i>> : i \in DOMAIN p.claimValidators[c]} : c \in ClaimStrings}

Voter(p, entry) == p.claimValidators[entry[1]][entry[2]]

UnitsOf(p, power, entries) ==
  {e \in entries \X (1..MaxPower) : e[2] <= power[Voter(p, e[1])]}

ClaimPower(p, power, c) ==
  Cardinality(UnitsOf(p, power, {e \in Entries(p) : e[1] = c}))

TotalClaimsPower(p, power) == Cardinality(UnitsOf(p, power, Entries(p)))

\* A bug that keeps the last claim walked instead of the highest.
FindHighestClaim_AnyClaim(p, power) == ClaimsMade(p)

\* FindHighestClaim ranges over a Go map, whose order is random, and keeps the
\* first claim of maximal power it meets: any of them can be the answer.
FindHighestClaim(p, power) ==
  {c \in ClaimsMade(p) :
     \A d \in ClaimsMade(p) : ClaimPower(p, power, d) <= ClaimPower(p, power, c)}

\* The stake of a set of validators, each counted once.
StakeOf(power, S) == Cardinality({e \in S \X (1..MaxPower) : e[2] <= power[e[1]]})

\* The validators whose recorded claim is c.
Supporters(p, c) == {v \in Validators : p.validatorClaims[v] = c}

-----------------------------------------------------------------------------
\* ClaimValidators and ValidatorClaims (prophecy.go:25-26) record the same
\* votes: a validator is listed under the claim recorded for it, once, and
\* nowhere else.  The tally walks one index and the duplicate check of
\* keeper.go:95 reads the other, so a disagreement is a vote counted twice.
IndexesAgree(p) ==
  /\ \A c \in ClaimStrings : \A i \in DOMAIN p.claimValidators[c] :
       p.validatorClaims[p.claimValidators[c][i]] = c
  /\ \A c \in Claims : \A v \in Supporters(p, c) :
       \E i \in DOMAIN p.claimValidators[c] : p.claimValidators[c][i] = v
  /\ \A c \in ClaimStrings : \A i, j \in DOMAIN p.claimValidators[c] :
       p.claimValidators[c][i] = p.claimValidators[c][j] => i = j
  /\ p.claimValidators[EmptyString] = << >>
=============================================================================
