------------------------------ MODULE Replicas ------------------------------
(***************************************************************************)
(* Two nodes of the zone that execute the same blocks.  They agree on the  *)
(* stake and on every transaction; each walks the claimValidators map of   *)
(* FindHighestClaim in an order of its own, which Go randomises.  replica  *)
(* is the oracle store of the second node.                                 *)
(***************************************************************************)
EXTENDS OracleKeeper

VARIABLE replica

replicaVars == <<power, lastPower, store, replica>>

\* One transaction on one node: an accepted claim, or an error and no change.
Executes(st, after, id, v, c) ==
  \/ /\ AcceptsClaim(st, id, v, c)
     /\ \E p \in ClaimResults(st, id, v, c) : after = saveProphecy(st, id, p)
  \/ /\ ~AcceptsClaim(st, id, v, c)
     /\ after = st

ExecuteClaim(id, v, c) ==
  /\ Executes(store, store', id, v, c)
  /\ Executes(replica, replica', id, v, c)
  /\ UNCHANGED <<power, lastPower>>

ReplicasInit == Init /\ replica = store

ExecuteAnyClaim ==
  \E id \in Ids, v \in Validators, c \in Claims : ExecuteClaim(id, v, c)

\* Any stake, and blocks that change it.
ReplicasSpec ==
  ReplicasInit /\
  [][\/ ExecuteAnyClaim
     \/ /\ (\E v \in Validators, n \in 0..MaxPower : Restake(v, n)) \/ EndBlock
        /\ UNCHANGED replica]_replicaVars

\* The stake stands still.
SteadyReplicasSpec == ReplicasInit /\ [][ExecuteAnyClaim]_replicaVars

-----------------------------------------------------------------------------
\* Two nodes that have executed the same transactions have the same oracle
\* store, and so the same app hash: the random order in which FindHighestClaim
\* walks its map never shows (prophecy.go:102-113).
ReplicasAgree == replica = store
=============================================================================
