------------------------------- MODULE Client -------------------------------
(***************************************************************************)
(* The ways people talk to the ethbridge module, from x/ethbridge/client:  *)
(* the commands of ebcli and the REST routes, which turn texts into the    *)
(* one message and the one query of the module.                            *)
(***************************************************************************)
EXTENDS EthBridge, SequencesExt

CONSTANTS
  NonceTexts,   \* what may be typed for a nonce
  NotBech32,    \* a text that is no bech32 address
  CommandRequests, BundledRequests   \* what people ask of the command line, of REST

ASSUME NotBech32Assumption == NotBech32 \notin Accounts \cup Validators

Digits(text) == IF text # << >> /\ Head(text) \in {"+", "-"} THEN Tail(text) ELSE text

ParsesAsInt(text) == Digits(text) # << >> /\ Range(Digits(text)) \subseteq Range(Digit)

\* strconv.Atoi of a text it accepts: leading zeros and a sign are allowed.
Atoi(text) ==
  LET value == FoldLeft(LAMBDA n, c : 10 * n + SelectInSeq(Digit, LAMBDA d : d = c) - 1,
                        0, Digits(text))
  IN IF Head(text) = "-" THEN -value ELSE value

\* Atoi yields a number, and Nonces has every one that is typed and not negative.
ASSUME NonceTextsAssumption ==
  /\ NonceTexts \subseteq Seq(STRING)
  /\ \A text \in NonceTexts : ParsesAsInt(text) =>
       Atoi(text) \in Int /\ (Atoi(text) >= 0 => Atoi(text) \in Nonces)

-----------------------------------------------------------------------------
(* Claims.  An amount is what ParseCoins makes of its text: no coins of the *)
(* empty text, an error of anything else that is not valid coins.           *)

Requests ==
  [nonce : NonceTexts, ethereum_sender : Senders, cosmos_receiver : Accounts \cup {NotBech32},
   validator : Validators \cup {NotBech32}, amount : Amounts]

ASSUME RequestsAssumption ==
  CommandRequests \subseteq Requests /\ BundledRequests \subseteq Seq(Requests)

\* The command and the REST handler refuse a request for the same reasons.
Refused(request) ==
  \/ ~ParsesAsInt(request.nonce)
  \/ NotBech32 \in {request.cosmos_receiver, request.validator}
  \/ request.amount = InvalidCoins

MessageOf(request) == [request EXCEPT !.nonce = Atoi(@)]

\* The signers the ante handler asks for.
GetSigners(m) == {m.validator}

\* make-claim: one message, signed with the key of the --from flag.
GetCmdMakeEthBridgeClaim(request, from) ==
  /\ ~Refused(request)
  /\ ValidateBasic(MessageOf(request))
  /\ GetSigners(MessageOf(request)) = {from}
  /\ DeliverTx(<<MessageOf(request)>>)

\* POST /prophecies hands out an unsigned transaction; people may put several of
\* them together before they are signed by all the validators named.
makeClaimHandler(requests) ==
  /\ \A i \in DOMAIN requests :
       ~Refused(requests[i]) /\ ValidateBasic(MessageOf(requests[i]))
  /\ DeliverTx([i \in DOMAIN requests |-> MessageOf(requests[i])])

-----------------------------------------------------------------------------
(* Queries.  get-prophecy prints the error of an unknown id, REST answers   *)
(* 404: an empty set of claims here.                                        *)

GetCmdGetEthBridgeProphecy(text, ethereumSender) ==
  IF ~ParsesAsInt(text) THEN {} ELSE queryEthProphecy(Atoi(text), ethereumSender)

-----------------------------------------------------------------------------
ClientNext ==
  \/ BridgeNext
  \/ \E request \in CommandRequests, from \in Validators :
       GetCmdMakeEthBridgeClaim(request, from)
  \/ \E requests \in BundledRequests : makeClaimHandler(requests)

ClientSpec == BridgeInit /\ [][ClientNext]_bridgeVars

-----------------------------------------------------------------------------
(* Properties.                                                              *)

\* What is answered about a lock is what the validators have said about it: one
\* claim for every message that went through, however its nonce was typed, none
\* for those that were rolled back, and none about another lock, although ids
\* are nonces and addresses run together (ethbridgeclaim.go:46, querier.go:40-51).
QueryReportsDelivered ==
  \A text \in {t \in NonceTexts : ParsesAsInt(t)}, s \in EthAddresses :
    GetCmdGetEthBridgeProphecy(text, s) =
      {m \in delivered : m.nonce = Atoi(text) /\ m.ethereum_sender = s}
=============================================================================
