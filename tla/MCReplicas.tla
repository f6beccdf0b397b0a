----------------------------- MODULE MCReplicas -----------------------------
(***************************************************************************)
(* Small instances of Replicas.                                            *)
(***************************************************************************)
EXTENDS Replicas, TLC, FiniteSetsExt

CONSTANTS v1, v2, v3, c1, c2, c3

MC_AllPowers == {p \in Powers : StakeOf(p, Validators) > 0}
MC_Symmetry  == Permutations(Validators) \cup Permutations(Claims)
=============================================================================
