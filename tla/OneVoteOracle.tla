---------------------------- MODULE OneVoteOracle ---------------------------
(***************************************************************************)
(* What the oracle promises its callers, without stake, lists or store:    *)
(* each validator has one vote per identifier, given while the identifier  *)
(* is open; an identifier closes at most once, together with a vote; and a *)
(* successful one closes on a claim somebody voted for.                    *)
(***************************************************************************)
CONSTANTS Validators, Claims, Ids, NoClaim

VARIABLES
  votes,    \* [Ids -> [Validators -> Claims or NoClaim]]
  outcome   \* [Ids -> an Outcome]

Open        == [statusText |-> "pending", finalClaim |-> NoClaim]
Rejected    == [statusText |-> "failed",  finalClaim |-> NoClaim]
Accepted(c) == [statusText |-> "success", finalClaim |-> c]

Init ==
  /\ votes = [id \in Ids |-> [v \in Validators |-> NoClaim]]
  /\ outcome = [id \in Ids |-> Open]

Vote(id, v, c) ==
  /\ outcome[id] = Open
  /\ votes[id][v] = NoClaim
  /\ votes' = [votes EXCEPT ![id][v] = c]
  /\ \E o \in {Open, Rejected} \cup {Accepted(votes'[id][w]) : w \in Validators} :
       /\ o # Accepted(NoClaim)
       /\ outcome' = [outcome EXCEPT ![id] = o]

Next == \E id \in Ids, v \in Validators, c \in Claims : Vote(id, v, c)

Spec == Init /\ [][Next]_<<votes, outcome>>
=============================================================================
