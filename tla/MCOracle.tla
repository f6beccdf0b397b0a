------------------------------ MODULE MCOracle ------------------------------
(***************************************************************************)
(* Small instances of OracleKeeper.                                        *)
(***************************************************************************)
EXTENDS OracleImplements, TLC, FiniteSetsExt

CONSTANTS v1, v2, v3, c1, c2, c3

\* Every stake with which the chain can start.
MC_AllPowers == {p \in Powers : StakeOf(p, Validators) > 0}

MC_OracleSymmetry == Permutations(Claims) \cup Permutations(Validators)

\* Counting units is the sum the Go loop computes.
ASSUME CountingIsSumming ==
  \A p \in {q \in Powers : \A v \in Validators : q[v] <= 3} : \A S \in SUBSET Validators :
    StakeOf(p, S) = FoldSet(LAMBDA v, sum : p[v] + sum, 0, S)
=============================================================================
