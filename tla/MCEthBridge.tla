---------------------------- MODULE MCEthBridge -----------------------------
(***************************************************************************)
(* Small instances of EthBridge.                                           *)
(***************************************************************************)
EXTENDS Client, TLC

CONSTANTS v1, v2, v3

MC_Claims    == [cosmos_receiver : Accounts, amount : Amounts]
MC_Ids       == {Itoa[n] \o s : n \in Nonces, s \in EthAddresses}
MC_AllPowers == {p \in Powers : StakeOf(p, Validators) > 0}
MC_Symmetry  == Permutations(Validators)

\* An address, and a text that makes "12AB" of nonce 1 as the address does of 12.
AB  == <<"A", "B">>
BAD == <<"2", "A", "B">>

MC_Senders == {AB, BAD}

Msg(n, s, a, v, x) ==
  [nonce |-> n, ethereum_sender |-> s, cosmos_receiver |-> a, validator |-> v, amount |-> x]

\* A payment to one account, another to the other one, and one that cannot be
\* paid.
MC_Payments == {<<"alice", 1>>, <<"bob", 2>>, <<"bob", InvalidCoins>>}

MC_GoodMessages ==
  {Msg(n, AB, x[1], v, x[2]) : n \in Nonces, v \in Validators, x \in MC_Payments}

\* One message for each check of ValidateBasic.
MC_BadMessages ==
  UNION {{Msg(-1, AB, "alice", v, 1), Msg(1, BAD, "alice", v, 1),
          Msg(1, AB, NoAccount, v, 1)} : v \in Validators}

MC_Singles == {<<m>> : m \in MC_GoodMessages \cup MC_BadMessages}

\* One message, or two of them bundled.
MC_Bundles == MC_Singles \cup {<<m, n>> : m \in MC_GoodMessages, n \in MC_GoodMessages}

MC_NonceTexts == {<<"1">>, <<"1", "2">>, <<"+", "0", "1">>, <<"-", "1">>, <<"x">>, << >>}

\* Everything that can be typed for one payment.
MC_Requests ==
  [nonce : MC_NonceTexts, ethereum_sender : MC_Senders, cosmos_receiver : {"alice", NotBech32},
   validator : Validators \cup {NotBech32}, amount : {1, InvalidCoins}]

\* Claims about both locks, the second one without coins.
MC_BundledRequests ==
  {<<Msg(<<"1">>, AB, "alice", v, 1), Msg(<<"1", "2">>, AB, "alice", w, 0)>> :
     v \in Validators, w \in Validators}
=============================================================================
