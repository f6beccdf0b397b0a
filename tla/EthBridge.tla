------------------------------ MODULE EthBridge -----------------------------
(***************************************************************************)
(* The ethbridge module of the bridge zone, from x/ethbridge: the handler  *)
(* that turns a claim about an Ethereum lock into an oracle claim and pays *)
(* the receiver when the oracle accepts it, inside the all-or-nothing      *)
(* transactions of the SDK, and the querier that reports the votes back.   *)
(* Also export.go and genesis.go, which carry a chain over to a new start. *)
(*                                                                         *)
(* Addresses and ids are sequences of characters, strings of length one,   *)
(* because an id is a concatenation and has to tell its two parts apart.   *)
(***************************************************************************)
EXTENDS OracleKeeper, Functions

CONSTANTS
  Accounts,      \* Cosmos addresses that can be paid
  NoAccount,     \* the empty address
  Nonces,        \* nonces of Ethereum locks
  AddressLength, \* hexadecimal digits of an Ethereum address, 40 in the code
  Senders,       \* texts that may stand for an Ethereum address in a claim
  MaxAmount,     \* bound on the amount of a claim; amount 0 is "no coins"
  InvalidCoins,  \* a Coins value that fails Coins.IsValid
  Transactions   \* the message sequences validators may send

Amounts == (0..MaxAmount) \cup {InvalidCoins}

\* MsgMakeEthBridgeClaim: its fields are those of EthBridgeClaim.
Messages ==
  [nonce : Nonces \cup {-1}, ethereum_sender : Senders,
   cosmos_receiver : Accounts \cup {NoAccount}, validator : Validators,
   amount : Amounts]

Digit == <<"0", "1", "2", "3", "4", "5", "6", "7", "8", "9">>

HexCharacters ==
  Range(Digit) \cup {"a", "b", "c", "d", "e", "f", "A", "B", "C", "D", "E", "F"}

\* strconv.Itoa.
Itoa[n \in Int] ==
  IF n < 0 THEN <<"-">> \o Itoa[-n]
  ELSE IF n < 10 THEN <<Digit[n + 1]>>
  ELSE Itoa[n \div 10] \o <<Digit[(n % 10) + 1]>>

\* What follows "0x" or "0X", or everything.
HexPart(s) ==
  IF Len(s) >= 2 /\ s[1] = "0" /\ s[2] \in {"x", "X"} THEN SubSeq(s, 3, Len(s)) ELSE s

\* A bug that looks at the characters alone.
IsValidEthAddress_AnyLength(s) == s # << >> /\ Range(HexPart(s)) \subseteq HexCharacters

\* IsHexAddress of go-ethereum: the prefix may be missing, the length is exact.
IsValidEthAddress(s) ==
  Len(HexPart(s)) = AddressLength /\ Range(HexPart(s)) \subseteq HexCharacters

EthAddresses == {s \in Senders : IsValidEthAddress(s)}

ASSUME AmountAssumption  == MaxAmount \in Nat /\ InvalidCoins \notin Nat
ASSUME AddressAssumption ==
  /\ IsFiniteSet(Accounts) /\ NoAccount \notin Accounts
  /\ AddressLength \in Nat \ {0} /\ Senders \subseteq Seq(STRING)
ASSUME NonceAssumption   == IsFiniteSet(Nonces) /\ Nonces \subseteq Nat
\* The ids are the nonces followed by the senders; a claim string is the JSON of
\* what is to be paid to whom.
ASSUME EncodingAssumption ==
  /\ Ids = {Itoa[n] \o s : n \in Nonces, s \in EthAddresses}
  /\ Claims = [cosmos_receiver : Accounts, amount : Amounts]
ASSUME TransactionsAssumption == Transactions \subseteq Seq(Messages)

VARIABLES
  balances,   \* [Accounts -> Nat]: coins the bridge has minted
  credits,    \* [Ids -> Nat]: ghost, how often each lock has been paid out
  delivered   \* ghost, the messages of the transactions that succeeded

bridgeVars == <<power, lastPower, store, balances, credits, delivered>>

-----------------------------------------------------------------------------
(* The handler, as an operator from a state of the chain and a message to   *)
(* the states it may leave behind: none of them when it returns an error.   *)

ChainState ==
  [store |-> store, balances |-> balances, credits |-> credits, delivered |-> delivered]

oracleId(m)    == Itoa[m.nonce] \o m.ethereum_sender
oracleClaim(m) == [cosmos_receiver |-> m.cosmos_receiver, amount |-> m.amount]

\* A bug that forgets the check of the nonce.
ValidateBasic_AnyNonce(m) ==
  m.cosmos_receiver # NoAccount /\ IsValidEthAddress(m.ethereum_sender)

\* ValidateBasic, and the same three checks again at the head of the handler.
ValidateBasic(m) ==
  m.cosmos_receiver # NoAccount /\ m.nonce >= 0 /\ IsValidEthAddress(m.ethereum_sender)

\* A bug that ignores the error of AddCoins.
processSuccessfulClaim_DropsError(s, id, claim) ==
  IF claim.amount = InvalidCoins THEN {s}
  ELSE {[s EXCEPT !.balances[claim.cosmos_receiver] = @ + claim.amount,
                  !.credits[id] = @ + 1]}

\* processSuccessfulClaim: AddCoins refuses coins that are not valid.
processSuccessfulClaim(s, id, claim) ==
  IF claim.amount = InvalidCoins THEN {}
  ELSE {[s EXCEPT !.balances[claim.cosmos_receiver] = @ + claim.amount,
                  !.credits[id] = @ + 1]}

\* A bug that pays what the last message says instead of the final claim.
Settle_PaysMessage(s, m, p) ==
  IF p.statusText = SuccessStatusText
  THEN processSuccessfulClaim(s, oracleId(m), oracleClaim(m))
  ELSE {s}

\* What follows ProcessClaim in the handler.
Settle(s, m, p) ==
  IF p.statusText = SuccessStatusText
  THEN processSuccessfulClaim(s, oracleId(m), p.finalClaim)
  ELSE {s}

handleMsgMakeEthBridgeClaim(s, m) ==
  IF ValidateBasic(m) /\ AcceptsClaim(s.store, oracleId(m), m.validator, oracleClaim(m))
  THEN UNION {Settle([s EXCEPT !.store = saveProphecy(s.store, oracleId(m), p),
                               !.delivered = @ \cup {m}], m, p) :
                p \in ClaimResults(s.store, oracleId(m), m.validator, oracleClaim(m))}
  ELSE {}

\* The messages of a transaction run one after the other on a cached copy of
\* the chain; the copy is written back only if every one of them succeeded.
TxOutcomes(msgs) ==
  LET after[i \in 0..Len(msgs)] ==
        IF i = 0 THEN {ChainState}
        ELSE UNION {handleMsgMakeEthBridgeClaim(s, msgs[i]) : s \in after[i - 1]}
  IN after[Len(msgs)]

-----------------------------------------------------------------------------
(* The querier.                                                             *)

\* queryEthProphecy: the votes on the id mapped back to claims about Ethereum,
\* with the nonce and sender of the query; nothing for an id not in the store.
queryEthProphecy(nonce, ethereumSender) ==
  LET id == Itoa[nonce] \o ethereumSender IN
    {[nonce |-> nonce, ethereum_sender |-> ethereumSender,
      cosmos_receiver |-> store[id].validatorClaims[v].cosmos_receiver, validator |-> v,
      amount |-> store[id].validatorClaims[v].amount] :
        v \in {w \in Validators : id \in DOMAIN store
                                 /\ store[id].validatorClaims[w] # EmptyString}}

-----------------------------------------------------------------------------
(* Actions.                                                                 *)

BridgeInit ==
  /\ Init
  /\ balances = [a \in Accounts |-> 0]
  /\ credits = [id \in Ids |-> 0]
  /\ delivered = {}

DeliverTx(msgs) ==
  \E s \in TxOutcomes(msgs) :
    /\ store' = s.store
    /\ balances' = s.balances
    /\ credits' = s.credits
    /\ delivered' = s.delivered
    /\ UNCHANGED <<power, lastPower>>

Stake ==
  /\ \/ \E v \in Validators, n \in 0..MaxPower : Restake(v, n)
     \/ EndBlock
  /\ UNCHANGED <<balances, credits, delivered>>

BridgeNext == Stake \/ \E msgs \in Transactions : DeliverTx(msgs)

BridgeSpec == BridgeInit /\ [][BridgeNext]_bridgeVars

\* The chain is exported between two blocks and started again from the file:
\* the accounts and the staking state are in it, the oracle store is not.
ExportAndRestart ==
  /\ power = lastPower
  /\ store # [id \in {} |-> NewProphecy]
  /\ store' = [id \in {} |-> NewProphecy]
  /\ UNCHANGED <<power, lastPower, balances, credits, delivered>>

RestartSpec ==
  BridgeInit
    /\ [][ExportAndRestart \/ \E msgs \in Transactions : DeliverTx(msgs)]_bridgeVars

-----------------------------------------------------------------------------
(* Properties.                                                              *)

\* The oracle is well typed inside the handler too: the store has no id made
\* from a negative nonce, and balances never go below zero (msgs.go:26-38).
BridgeTypeOK ==
  /\ TypeOK
  /\ balances \in [Accounts -> Nat]
  /\ credits \in [Ids -> Nat]
  /\ delivered \subseteq Messages

Succeeded == {id \in DOMAIN store : store[id].statusText = SuccessStatusText}

\* The coins of every account are those of the final claims that name it: each
\* successful prophecy has been paid once, in full, to its receiver, and nothing
\* else has been minted, whatever transactions were rolled back on the way
\* (handler.go:43-48, 52-63).
BalancesAreVerdicts ==
  \A a \in Accounts :
    balances[a] =
      SumFunctionOnSet([id \in Succeeded |-> store[id].finalClaim.amount],
                       {id \in Succeeded : store[id].finalClaim.cosmos_receiver = a})

\* A lock is paid out in the step that makes its prophecy successful and in no
\* other (handler.go:43): every payment has its own success.
PaidOnSuccessOnly ==
  [][\A id \in Ids :
       credits'[id] = credits[id] + IF BecomesSuccess(id) THEN 1 ELSE 0]_bridgeVars

\* export.go:17 promises "the state of gaia for a genesis file": a chain that
\* goes on from that state pays a lock at most once, as it would have without
\* the restart.
PaidAtMostOnce == \A id \in Ids : credits[id] <= 1
=============================================================================
