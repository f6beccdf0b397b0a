-------------------------- MODULE OracleImplements --------------------------
(***************************************************************************)
(* The keeper's store read as the votes and outcomes of OneVoteOracle.     *)
(***************************************************************************)
EXTENDS OracleKeeper

votesOf == [id \in Ids |-> GetProphecy(store, id).validatorClaims]

outcomeOf ==
  [id \in Ids |-> [statusText |-> GetProphecy(store, id).statusText,
                   finalClaim |-> GetProphecy(store, id).finalClaim]]

Abstract == INSTANCE OneVoteOracle
              WITH NoClaim <- EmptyString, votes <- votesOf, outcome <- outcomeOf

\* The keeper, with its two indexes and its live stake, is an implementation
\* of one vote per validator and one outcome per identifier (keeper.go:82-112).
ImplementsOneVote == Abstract!Spec
=============================================================================
