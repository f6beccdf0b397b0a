----------------------------- MODULE MCRelayer ------------------------------
(***************************************************************************)
(* Small instances of Relayer.                                             *)
(***************************************************************************)
EXTENDS Relayer, TLC

CONSTANTS v1, v2, v3

MC_Claims == [cosmos_receiver : Accounts, amount : Amounts]
MC_Ids    == {Itoa[n] \o s : n \in Nonces, s \in EthAddresses}

\* Addresses as Address.Hex prints them.
A == <<"0", "x", "A">>
B == <<"0", "x", "B">>
MC_Senders == {A, B}

\* One validator that is always needed and two that can stand in for each
\* other; and a validator that is not bonded.
MC_SomePowers == {v1 :> 2 @@ v2 :> 1 @@ v3 :> 1, v1 :> 1 @@ v2 :> 2 @@ v3 :> 0}

\* Values coins can hold, up to the largest, and an unreadable recipient.
MC_Locks ==
  {[ethereum_sender |-> A, to |-> "alice", value |-> 2],
   [ethereum_sender |-> B, to |-> "bob",   value |-> 1],
   [ethereum_sender |-> A, to |-> "",      value |-> 1]}

\* A token amount that is more than coins can hold.
MC_OversizeLocks == {[ethereum_sender |-> A, to |-> "alice", value |-> 3]}

MC_NoTransactions == {}
=============================================================================
