------------------------------ MODULE Relayer -------------------------------
(***************************************************************************)
(* The relayers, cmd/ebrelayer, between the logs of the Peggy contract and *)
(* the zone of EthBridge.  Every validator runs one.  It handles one log   *)
(* at a time: it turns the log into a claim, reads its account sequence    *)
(* from committed state, broadcasts, and waits for the commit.  Errors on  *)
(* the way are formatted and dropped.                                      *)
(*                                                                         *)
(* The stake stands still.  In RelayerSpec a log, once emitted, stays in   *)
(* the chain; in ReorgSpec the Ethereum chain may be reorganised.          *)
(***************************************************************************)
EXTENDS EthBridge, SequencesExt

CONSTANTS
  Locks,     \* what users may lock: [ethereum_sender, to, value]
  MaxLogs    \* bound on the logs the contract emits

ASSUME LocksAssumption ==
  Locks \subseteq [ethereum_sender : EthAddresses, to : Accounts \cup {NoAccount}, value : Nat]
ASSUME MaxLogsAssumption == MaxLogs \in Nat /\ 1..MaxLogs \subseteq Nonces

VARIABLES
  chain,     \* the logs of the contract, oldest first
  process,   \* [Validators -> {"down", "listening", "waiting"}]
  logs,      \* [Validators -> Seq]: delivered by the subscription, not handled
  mempool,   \* [Validators -> SUBSET Messages]: claims broadcast, not committed
  faulted    \* ghost: validators whose relayer has met a fault

zoneVars    == <<store, balances, credits, delivered>>
relayerVars == <<power, lastPower, zoneVars, chain, process, logs, mempool, faulted>>

-----------------------------------------------------------------------------
(* The contract: the n-th LogLock has nonce n (NoncesCountLocks of Peggy),  *)
(* and other events come over the same subscription.                        *)

IsLock(log) == log.topic = "LogLock"

\* Where the logs of locks are.
LockLogs == {i \in DOMAIN chain : IsLock(chain[i])}

IdOf(log) == Itoa[log.nonce] \o log.ethereum_sender

\* A bug: the contract does not count its locks.
LogLock_SameNonce(lock) ==
  [topic |-> "LogLock", ethereum_sender |-> lock.ethereum_sender, to |-> lock.to,
   value |-> lock.value, nonce |-> 1]

LogLock(lock) ==
  [topic |-> "LogLock", ethereum_sender |-> lock.ethereum_sender, to |-> lock.to,
   value |-> lock.value, nonce |-> Cardinality(LockLogs) + 1]

OtherLog == [topic |-> "LogWithdraw"]

\* A log reaches the relayers that are subscribed; nobody keeps it for others.
Emit(log) ==
  /\ Len(chain) < MaxLogs
  /\ chain' = Append(chain, log)
  /\ logs' = [v \in Validators |->
                IF process[v] = "down" THEN logs[v] ELSE Append(logs[v], log)]
  /\ UNCHANGED <<power, lastPower, zoneVars, process, mempool, faulted>>

\* The Ethereum chain drops its last logs for another branch, and so soon that
\* the zone has no claim about them yet.  The subscription delivers them once
\* more, flagged as removed, and the relayer reads a log without its flag.
Reorg ==
  \E kept \in 0..Len(chain) - 1 :
    /\ \A i \in kept + 1..Len(chain) :
         IsLock(chain[i]) => IdOf(chain[i]) \notin DOMAIN store
    /\ \A v \in Validators : Len(logs[v]) <= MaxLogs
    /\ chain' = SubSeq(chain, 1, kept)
    /\ logs' = [v \in Validators |->
                  IF process[v] = "down" THEN logs[v]
                  ELSE logs[v] \o SubSeq(chain, kept + 1, Len(chain))]
    /\ UNCHANGED <<power, lastPower, zoneVars, process, mempool, faulted>>

-----------------------------------------------------------------------------
(* The parser.  A recipient that is not a bech32 address becomes the empty  *)
(* one, an amount that ParseCoins refuses (none, or more than fits) becomes *)
(* no coins, and the token is not looked at.                                *)

CoinsOf(value) == IF value <= MaxAmount THEN value ELSE 0

\* A bug that takes the nonce for the amount.
ParsePayload_NonceAsAmount(v, log) ==
  [nonce |-> log.nonce, ethereum_sender |-> log.ethereum_sender,
   cosmos_receiver |-> log.to, validator |-> v, amount |-> CoinsOf(log.nonce)]

ParsePayload(v, log) ==
  [nonce |-> log.nonce, ethereum_sender |-> log.ethereum_sender,
   cosmos_receiver |-> log.to, validator |-> v, amount |-> CoinsOf(log.value)]

-----------------------------------------------------------------------------
(* One relayer.                                                             *)

\* CheckTx of the zone: the message is well formed, and the sequence read from
\* committed state is the next one, so no claim of the account is pending.
CheckTx(v, m) == ValidateBasic(m) /\ mempool[v] = {}

Handled(v) == logs' = [logs EXCEPT ![v] = Tail(@)]

HasLog(v) == process[v] = "listening" /\ logs[v] # << >>

\* Topics[0] is not that of LogLock.
SkipLog(v) ==
  /\ HasLog(v)
  /\ ~IsLock(Head(logs[v]))
  /\ Handled(v)
  /\ UNCHANGED <<power, lastPower, zoneVars, chain, process, mempool, faulted>>

\* A bug: the relayer does not wait for the commit.
RelayEvent_Async(v) ==
  /\ HasLog(v)
  /\ IsLock(Head(logs[v]))
  /\ LET claim == ParsePayload(v, Head(logs[v])) IN
       mempool' = IF CheckTx(v, claim) THEN [mempool EXCEPT ![v] = {claim}] ELSE mempool
  /\ Handled(v)
  /\ UNCHANGED <<power, lastPower, zoneVars, chain, process, faulted>>

\* The claim is broadcast and the relayer waits, or it is refused and dropped.
RelayEvent(v) ==
  /\ HasLog(v)
  /\ IsLock(Head(logs[v]))
  /\ LET claim == ParsePayload(v, Head(logs[v])) IN
       IF CheckTx(v, claim)
       THEN /\ mempool' = [mempool EXCEPT ![v] = {claim}]
            /\ process' = [process EXCEPT ![v] = "waiting"]
       ELSE UNCHANGED <<mempool, process>>
  /\ Handled(v)
  /\ UNCHANGED <<power, lastPower, zoneVars, chain, faulted>>

\* The zone commits a claim, with success or with an error: the relayer that
\* waits for it takes the next log.  A bug that waits for a success.
Commit_WakesOnSuccess(v) ==
  \E claim \in mempool[v] :
    /\ mempool' = [mempool EXCEPT ![v] = @ \ {claim}]
    /\ UNCHANGED <<chain, logs, faulted>>
    /\ \/ DeliverTx(<<claim>>) /\ process' =
            [process EXCEPT ![v] = IF @ = "waiting" THEN "listening" ELSE @]
       \/ TxOutcomes(<<claim>>) = {} /\ UNCHANGED <<power, lastPower, zoneVars, process>>

Commit(v) ==
  \E claim \in mempool[v] :
    /\ mempool' = [mempool EXCEPT ![v] = @ \ {claim}]
    /\ process' = [process EXCEPT ![v] = IF @ = "waiting" THEN "listening" ELSE @]
    /\ UNCHANGED <<chain, logs, faulted>>
    /\ \/ DeliverTx(<<claim>>)
       \/ TxOutcomes(<<claim>>) = {} /\ UNCHANGED <<power, lastPower, zoneVars>>

-----------------------------------------------------------------------------
(* Faults.                                                                  *)

Fault(v) == faulted' = faulted \cup {v}

\* The node of the zone does not answer: RelayEvent returns the error.
RelayFails(v) ==
  /\ HasLog(v)
  /\ IsLock(Head(logs[v]))
  /\ Handled(v)
  /\ Fault(v)
  /\ UNCHANGED <<power, lastPower, zoneVars, chain, process, mempool>>

\* The broadcast stops waiting; the claim is still in the mempool.
TimeOut(v) ==
  /\ process[v] = "waiting"
  /\ process' = [process EXCEPT ![v] = "listening"]
  /\ Fault(v)
  /\ UNCHANGED <<power, lastPower, zoneVars, chain, logs, mempool>>

\* The subscription reports an error, or the process crashes.
Die(v) ==
  /\ process[v] # "down"
  /\ process' = [process EXCEPT ![v] = "down"]
  /\ logs' = [logs EXCEPT ![v] = << >>]
  /\ Fault(v)
  /\ UNCHANGED <<power, lastPower, zoneVars, chain, mempool>>

\* InitRelayer subscribes to the logs to come.
InitRelayer(v) ==
  /\ process[v] = "down"
  /\ process' = [process EXCEPT ![v] = "listening"]
  /\ UNCHANGED <<power, lastPower, zoneVars, chain, logs, mempool, faulted>>

-----------------------------------------------------------------------------
RelayerInit ==
  /\ BridgeInit
  /\ chain = << >>
  /\ process = [v \in Validators |-> "listening"]
  /\ logs = [v \in Validators |-> << >>]
  /\ mempool = [v \in Validators |-> {}]
  /\ faulted = {}

Contract == Emit(OtherLog) \/ \E lock \in Locks : Emit(LogLock(lock))

Handle(v) == SkipLog(v) \/ RelayEvent(v)

RelayerNext ==
  \/ Contract
  \/ \E v \in Validators :
       Handle(v) \/ Commit(v) \/ RelayFails(v) \/ TimeOut(v) \/ Die(v) \/ InitRelayer(v)

\* A claim of v leaves the mempool; only Commit(v) does that.
LeavesMempool(v) == mempool[v] # {} /\ mempool' = [mempool EXCEPT ![v] = {}]

\* The select loop of a live relayer takes the next log, and the zone commits
\* what is in its mempool.  Nobody has to lock anything or to restart a relayer.
RelayerSpec ==
  /\ RelayerInit
  /\ [][RelayerNext]_relayerVars
  /\ \A v \in Validators : WF_relayerVars(Handle(v)) /\ WF_mempool(LeavesMempool(v))

ReorgSpec == RelayerInit /\ [][RelayerNext \/ Reorg]_relayerVars

-----------------------------------------------------------------------------
(* Properties.                                                              *)

\* A relayer waits for a claim of its own that is still pending, and an account
\* has at most one claim pending, so that nothing waits for ever or competes
\* for a sequence (relay.go:58-76).
RelayerTypeOK ==
  /\ BridgeTypeOK
  /\ \A v \in Validators :
       /\ process[v] \in {"down", "listening", "waiting"}
       /\ process[v] = "waiting" => mempool[v] # {}
       /\ process[v] = "down" => logs[v] = << >>
       /\ Cardinality(mempool[v]) <= 1
       /\ \A m \in mempool[v] : m \in Messages /\ m.validator = v
       /\ \A i \in DOMAIN logs[v] : logs[v][i] \in ToSet(chain)

Readable(log) == log.to # NoAccount

Minted == {i \in LockLogs : IdOf(chain[i]) \in Succeeded}

\* Coins can hold what is locked.  A token without a bound on its amounts can be
\* locked too, and then the parser loses the amount: where this is assumed it is
\* said, and the run relayer_oversize does without.
Holdable(value) == value <= MaxAmount
LocksAreHoldable == \A lock \in Locks : Holdable(lock.value)

\* Across both chains, the coins of an account are the values locked for it, as
\* the contract has logged them, of the locks that have been accepted, each once,
\* whatever relayers die, time out or drop on the way (parser.go:22-55,
\* handler.go:43-63; README.md:12, 58).
BalancesAreLocks ==
  \A a \in Accounts :
    balances[a] =
      SumFunctionOnSet([i \in Minted |-> chain[i].value], {i \in Minted : chain[i].to = a})

Ledger ==
  INSTANCE BridgeLedger WITH
    locks  <- [i \in LockLogs |-> [to |-> chain[i].to, amount |-> chain[i].value]],
    minted <- Minted

\* Contract, relayers and zone together keep the ledger a user is promised: one
\* lock at a time is paid the whole value that was locked (README.md:9-12, 58).
ImplementsLedger == Ledger!LedgerSpec

Pending(v, log) == ParsePayload(v, log) \in mempool[v]
Claimed(v, log) == ParsePayload(v, log) \in delivered
Decided(log)    == IdOf(log) \in DOMAIN store /\ IsFinal(store[IdOf(log)])

\* A relayer without a fault loses no claim, although it drops every error: the
\* log of each lock waits in its queue, its claim is pending or has been
\* accepted, or the zone had decided without it (relayer.go:90-116,
\* relay.go:58-76).
NoClaimIsLost ==
  \A v \in Validators \ faulted : Bonded(v) =>
    \A i \in LockLogs : LET log == chain[i] IN
      Readable(log) =>
        \/ log \in ToSet(logs[v])
        \/ Pending(v, log)
        \/ Claimed(v, log)
        \/ Decided(log)

\* The sets of validators without which the others have the needed share.
Tolerable ==
  {S \in SUBSET Validators : AtLeastNeeded(StakeOf(lastPower, Validators \ S), LastTotalPower)}

LockOf(n) == n \in LockLogs /\ Readable(chain[n]) /\ Holdable(chain[n].value)
MintOf(n) == n \in Minted

\* As long as validators with the needed share of the stake run relayers that
\* meet no fault, every lock of a value coins can hold for a readable recipient
\* is minted in the end; BalancesAreLocks says that it is then paid its value
\* (README.md:26-30, 49, 58).
EveryLockIsMinted ==
  [](faulted \in Tolerable) => \A n \in 1..MaxLogs : LockOf(n) ~> MintOf(n)
=============================================================================
