--------------------------- MODULE Relayer_proofs ---------------------------
(***************************************************************************)
(* Theorems about contract, relayers and zone together, for every set of   *)
(* validators, locks and stakes, and relayers that fail, time out, die and *)
(* come back at any moment.                                                *)
(***************************************************************************)
EXTENDS Relayer, EthBridge_proofs

-----------------------------------------------------------------------------
(* The inductive invariant.                                                 *)

LockLogRecords ==
  [topic : {"LogLock"}, ethereum_sender : EthAddresses, to : Accounts \cup {NoAccount},
   value : Nat, nonce : Nat]

LogRecords == LockLogRecords \cup {OtherLog}

\* What a claim about a log says.
ClaimOf(log) == [cosmos_receiver |-> log.to, amount |-> CoinsOf(log.value)]

\* The nonces of the locks number them, and what users lock is what is logged.
ChainOK ==
  /\ chain \in Seq(LogRecords) /\ Len(chain) <= MaxLogs
  /\ LocksAreHoldable => \A i \in LockLogs : Holdable(chain[i].value)
  /\ \A i \in LockLogs : chain[i].nonce \in 1..Cardinality(LockLogs)
  /\ \A i, j \in LockLogs : chain[i].nonce = chain[j].nonce => i = j

\* Nothing is claimed on the zone, or about to be, but what the chain has.
RelaysLock(m) == \E i \in LockLogs : m = ParsePayload(m.validator, chain[i])

MessagesOK ==
  /\ \A m \in delivered : RelaysLock(m)
  /\ \A v \in Validators : \A m \in mempool[v] :
       m.validator = v /\ ValidateBasic(m) /\ RelaysLock(m)

\* A relayer without a fault has nothing pending when it takes a log.
ProcessOK(v) ==
  /\ process[v] = "waiting" => mempool[v] # {}
  /\ process[v] = "down" => logs[v] = << >>
  /\ \A m, n \in mempool[v] : m = n
  /\ ToSet(logs[v]) \subseteq ToSet(chain)
  /\ v \notin faulted =>
       process[v] # "down" /\ (process[v] = "listening" => mempool[v] = {})

ProcessTypes ==
  /\ process \in [Validators -> {"down", "listening", "waiting"}]
  /\ mempool \in [Validators -> SUBSET Messages]
  /\ logs \in [Validators -> Seq(LogRecords)]

\* The body of NoClaimIsLost.
SafeClaim(v, log) ==
  \/ log \in ToSet(logs[v])
  \/ Pending(v, log)
  \/ Claimed(v, log)
  \/ Decided(log)

NothingLost(v) ==
  v \notin faulted /\ Bonded(v) =>
    \A i \in LockLogs : Readable(chain[i]) => SafeClaim(v, chain[i])

RelayerInv ==
  /\ BridgeInv
  /\ ChainOK
  /\ MessagesOK
  /\ ProcessTypes
  /\ \A v \in Validators : ProcessOK(v) /\ NothingLost(v)

-----------------------------------------------------------------------------
(* The chain of the contract.                                               *)

\* There are finitely many locks, not more than logs.
LEMMA LocksAreCounted ==
  ASSUME ChainOK
  PROVE  /\ Len(chain) \in Nat /\ DOMAIN chain = 1..Len(chain)
         /\ LockLogs \subseteq 1..Len(chain)
         /\ IsFiniteSet(LockLogs) /\ Cardinality(LockLogs) \in Nat
         /\ Cardinality(LockLogs) <= Len(chain)
<1>1. Len(chain) \in Nat /\ DOMAIN chain = 1..Len(chain)
  BY LenProperties DEF ChainOK
<1>2. LockLogs \subseteq 1..Len(chain)
  BY <1>1 DEF LockLogs
<1>3. IsFiniteSet(1..Len(chain)) /\ Cardinality(1..Len(chain)) = Len(chain)
  <2> DEFINE n == Len(chain)
  <2> HIDE DEF n
  <2>1. n \in Nat => IsFiniteSet(1..n) /\ Cardinality(1..n) = IF 1 > n THEN 0 ELSE n - 1 + 1
    BY FS_Interval
  <2>2. n \in Nat => IsFiniteSet(1..n) /\ Cardinality(1..n) = n
    BY <2>1
  <2> QED
    BY <1>1, <2>2 DEF n
<1>4. IsFiniteSet(LockLogs) /\ Cardinality(LockLogs) <= Cardinality(1..Len(chain))
  BY <1>2, <1>3, FS_Subset
<1>5. Cardinality(LockLogs) \in Nat
  BY <1>4, FS_CardinalityType
<1> QED
  BY <1>1, <1>2, <1>3, <1>4, <1>5

\* The log of a lock, and the claim it becomes.
LEMMA LogsAreLocks ==
  ASSUME ChainOK, NEW i \in LockLogs, NEW v \in Validators
  PROVE  LET log == chain[i]
             m   == ParsePayload(v, log)
         IN /\ log \in LockLogRecords
            /\ m \in Messages /\ m.validator = v
            /\ oracleId(m) = IdOf(log) /\ oracleClaim(m) = ClaimOf(log)
            /\ ValidateBasic(m) <=> Readable(log)
            /\ CoinsOf(log.value) \in Nat
            /\ Readable(log) <=> log.to \in Accounts
<1> DEFINE log == chain[i]
           m   == ParsePayload(v, log)
<1>1. log \in LogRecords /\ IsLock(log)
  BY LocksAreCounted, ElementOfSeq DEF ChainOK, LockLogs
<1>2. log \in LockLogRecords
  BY <1>1 DEF LogRecords, OtherLog, IsLock
<1>3. log.nonce \in Nonces
  <2>1. log.nonce \in 1..Cardinality(LockLogs) /\ Cardinality(LockLogs) \in Nat
        /\ Cardinality(LockLogs) <= Len(chain) /\ Len(chain) \in Nat
    BY LocksAreCounted DEF ChainOK
  <2>2. Len(chain) <= MaxLogs
    BY DEF ChainOK
  <2>3. log.nonce \in 1..MaxLogs
    BY <2>1, <2>2, MaxLogsAssumption
  <2> QED
    BY <2>3, MaxLogsAssumption
<1>4. CoinsOf(log.value) \in 0..MaxAmount /\ CoinsOf(log.value) \in Nat
  BY <1>2, AmountAssumption DEF CoinsOf, LockLogRecords
<1>5. /\ log.ethereum_sender \in EthAddresses /\ log.ethereum_sender \in Senders
      /\ IsValidEthAddress(log.ethereum_sender)
      /\ log.to \in Accounts \cup {NoAccount}
  BY <1>2 DEF LockLogRecords, EthAddresses
<1>6. /\ m.nonce = log.nonce /\ m.ethereum_sender = log.ethereum_sender
      /\ m.cosmos_receiver = log.to /\ m.validator = v /\ m.amount = CoinsOf(log.value)
      /\ m = [nonce |-> log.nonce, ethereum_sender |-> log.ethereum_sender,
              cosmos_receiver |-> log.to, validator |-> v, amount |-> CoinsOf(log.value)]
  BY DEF ParsePayload
<1> HIDE DEF log, m
<1>7. m \in Messages
  BY <1>3, <1>4, <1>5, <1>6 DEF Messages, Amounts
<1>8. oracleId(m) = IdOf(log) /\ oracleClaim(m) = ClaimOf(log)
  BY <1>6 DEF oracleId, IdOf, oracleClaim, ClaimOf
<1>9. log.nonce >= 0
  <2>1. log.nonce \in Nat
    BY <1>3, NonceAssumption
  <2> QED
    BY <2>1
<1>10. ValidateBasic(m) <=> Readable(log)
  BY <1>5, <1>6, <1>9 DEF ValidateBasic, Readable
<1>11. Readable(log) <=> log.to \in Accounts
  BY <1>5, AddressAssumption DEF Readable
<1> QED
  BY <1>2, <1>4, <1>6, <1>7, <1>8, <1>10, <1>11 DEF log, m

\* Two locks have two ids.
LEMMA OneLockPerId ==
  ASSUME ChainOK, NEW i \in LockLogs, NEW j \in LockLogs, IdOf(chain[i]) = IdOf(chain[j])
  PROVE  i = j
<1>1. \A k \in LockLogs : chain[k].nonce \in Nat /\ chain[k].ethereum_sender \in EthAddresses
  <2> SUFFICES ASSUME NEW k \in LockLogs
               PROVE  chain[k].nonce \in Nat /\ chain[k].ethereum_sender \in EthAddresses
    OBVIOUS
  <2> DEFINE log == chain[k]
  <2>1. log \in LogRecords /\ IsLock(log)
    BY LocksAreCounted, ElementOfSeq DEF ChainOK, LockLogs
  <2> HIDE DEF log
  <2>2. log \in LockLogRecords
    BY <2>1 DEF LogRecords, OtherLog, IsLock
  <2>3. log.nonce \in Nat /\ log.ethereum_sender \in EthAddresses
    BY <2>2 DEF LockLogRecords
  <2> QED
    BY <2>3 DEF log
<1>2. chain[i].nonce = chain[j].nonce
  <2> DEFINE m == chain[i].nonce
             n == chain[j].nonce
             s == chain[i].ethereum_sender
             t == chain[j].ethereum_sender
  <2>1. m \in Nat /\ n \in Nat /\ s \in EthAddresses /\ t \in EthAddresses
    BY <1>1
  <2>2. SameId(m, s, n, t)
    BY DEF IdOf, SameId
  <2> HIDE DEF m, n, s, t
  <2>3. m = n
    BY <2>1, <2>2, OneIdPerLock
  <2> QED
    BY <2>3 DEF m, n
<1> QED
  BY <1>2 DEF ChainOK

\* What the contract may emit.
IsNext(log) == log = OtherLog \/ \E lock \in Locks : log = LogLock(lock)

\* A new log leaves the others where they are, and a new lock is counted.
LEMMA ChainGrows ==
  ASSUME ChainOK, NEW log, IsNext(log), Len(chain) < MaxLogs, chain' = Append(chain, log)
  PROVE  /\ ChainOK'
         /\ log \in LogRecords
         /\ \A i \in LockLogs : i \in LockLogs' /\ chain'[i] = chain[i]
         /\ LockLogs' = IF IsLock(log) THEN LockLogs \cup {Len(chain) + 1} ELSE LockLogs
         /\ chain'[Len(chain) + 1] = log
         /\ Len(chain) + 1 \notin LockLogs
         /\ ToSet(chain') = ToSet(chain) \cup {log}
<1> DEFINE n == Len(chain)
           k == Cardinality(LockLogs)
<1>1. /\ n \in Nat /\ DOMAIN chain = 1..n /\ LockLogs \subseteq 1..n
      /\ IsFiniteSet(LockLogs) /\ k \in Nat
  BY LocksAreCounted
<1>2. log \in LogRecords
      /\ (IsLock(log) => log.nonce = k + 1 /\ (LocksAreHoldable => Holdable(log.value)))
  <2>1. CASE log = OtherLog
    BY <2>1 DEF LogRecords, OtherLog, IsLock
  <2>2. ASSUME NEW lock \in Locks, log = LogLock(lock)
        PROVE  /\ log \in LogRecords /\ log.nonce = k + 1
               /\ LocksAreHoldable => Holdable(log.value)
    <3>1. /\ lock.ethereum_sender \in EthAddresses /\ lock.to \in Accounts \cup {NoAccount}
          /\ lock.value \in Nat
      BY LocksAssumption
    <3>2. k + 1 \in Nat
      BY <1>1
    <3>3. log = [topic |-> "LogLock", ethereum_sender |-> lock.ethereum_sender, to |-> lock.to,
                 value |-> lock.value, nonce |-> k + 1]
      BY <2>2 DEF LogLock
    <3>4. LocksAreHoldable => Holdable(log.value)
      BY <2>2 DEF LogLock, LocksAreHoldable
    <3> HIDE DEF k
    <3> QED
      BY <3>1, <3>2, <3>3, <3>4 DEF LogRecords, LockLogRecords
  <2> QED
    BY <2>1, <2>2 DEF IsNext
<1>3. /\ chain' \in Seq(LogRecords) /\ Len(chain') = n + 1
      /\ \A i \in 1..n : chain'[i] = chain[i]
      /\ chain'[n + 1] = log
  BY <1>2, AppendProperties DEF ChainOK
<1>4. DOMAIN chain' = 1..n + 1
  BY <1>3, LenProperties
<1> HIDE DEF n, k
<1>5. LockLogs' = {i \in 1..n + 1 : IsLock(chain'[i])} /\ LockLogs = {i \in 1..n : IsLock(chain[i])}
  BY <1>1, <1>4 DEF LockLogs, IsLock
<1>6. \A i \in 1..n + 1 : i \in 1..n \/ i = n + 1
  BY <1>1
<1>7. n + 1 \notin 1..n /\ n + 1 \in 1..n + 1 /\ \A i \in 1..n : i \in 1..n + 1
  BY <1>1
<1>8. LockLogs' = IF IsLock(log) THEN LockLogs \cup {n + 1} ELSE LockLogs
  BY <1>3, <1>5, <1>6, <1>7
<1>9. \A i \in LockLogs : i \in LockLogs' /\ chain'[i] = chain[i]
  BY <1>1, <1>3, <1>8
<1>10. n + 1 \notin LockLogs
  BY <1>1, <1>7
<1>11. ToSet(chain') = ToSet(chain) \cup {log}
  <2>1. ToSet(chain') = {chain'[i] : i \in 1..n + 1} /\ ToSet(chain) = {chain[i] : i \in 1..n}
    BY <1>1, <1>4 DEF ToSet
  <2> QED
    BY <1>3, <1>6, <1>7, <2>1
<1>12. Cardinality(LockLogs') = IF IsLock(log) THEN k + 1 ELSE k
  <2>1. Cardinality(LockLogs \cup {n + 1}) = k + 1
    BY <1>1, <1>10, FS_AddElement DEF k
  <2>2. CASE IsLock(log)
    <3>1. LockLogs' = LockLogs \cup {n + 1}
      BY <1>8, <2>2
    <3> QED
      BY <2>1, <2>2, <3>1
  <2>3. CASE ~IsLock(log)
    <3>1. LockLogs' = LockLogs
      BY <1>8, <2>3
    <3> QED
      BY <2>3, <3>1 DEF k
  <2> QED
    BY <2>2, <2>3
<1>13. /\ \A i \in LockLogs : chain[i].nonce \in 1..k
       /\ \A i, j \in LockLogs : chain[i].nonce = chain[j].nonce => i = j
  BY DEF ChainOK, k
<1>14. \A i \in LockLogs' : chain'[i].nonce \in 1..Cardinality(LockLogs')
  <2>1. \A i \in LockLogs : chain'[i].nonce \in 1..k
    BY <1>9, <1>13
  <2>2. k + 1 \in 1..k + 1 /\ \A x \in 1..k : x \in 1..k + 1
    BY <1>1
  <2> QED
    BY <1>2, <1>3, <1>8, <1>12, <2>1, <2>2
<1>15. \A i, j \in LockLogs' : chain'[i].nonce = chain'[j].nonce => i = j
  <2>1. k + 1 \notin 1..k
    BY <1>1
  <2>2. \A i \in LockLogs : chain'[i].nonce = chain[i].nonce /\ chain'[i].nonce # k + 1
    BY <1>9, <1>13, <2>1
  <2>3. IsLock(log) => chain'[n + 1].nonce = k + 1
    BY <1>2, <1>3
  <2>4. \A i \in LockLogs' : i \in LockLogs \/ (i = n + 1 /\ IsLock(log))
    BY <1>8
  <2>5. \A i, j \in LockLogs : chain'[i].nonce = chain'[j].nonce => i = j
    BY <1>13, <2>2
  <2> SUFFICES ASSUME NEW i \in LockLogs', NEW j \in LockLogs',
                      chain'[i].nonce = chain'[j].nonce
               PROVE  i = j
    OBVIOUS
  <2>6. CASE i \in LockLogs /\ j \in LockLogs
    BY <2>5, <2>6
  <2>7. i \in LockLogs => chain'[i].nonce # k + 1
    BY <2>2
  <2>8. j \in LockLogs => chain'[j].nonce # k + 1
    BY <2>2
  <2>9. i \notin LockLogs => i = n + 1 /\ chain'[i].nonce = k + 1
    BY <2>3, <2>4
  <2>10. j \notin LockLogs => j = n + 1 /\ chain'[j].nonce = k + 1
    BY <2>3, <2>4
  <2> QED
    BY <2>6, <2>7, <2>8, <2>9, <2>10
<1>16. Len(chain') <= MaxLogs
  BY <1>1, <1>3, MaxLogsAssumption DEF n
<1>17. LocksAreHoldable => \A i \in LockLogs' : Holdable(chain'[i].value)
  <2>1. LocksAreHoldable => \A i \in LockLogs : Holdable(chain'[i].value)
    BY <1>9 DEF ChainOK
  <2> QED
    BY <1>2, <1>3, <1>8, <2>1
<1>18. ChainOK'
  BY <1>3, <1>14, <1>15, <1>16, <1>17
    DEF ChainOK, Holdable, LogRecords, LockLogRecords, OtherLog, EthAddresses, IsValidEthAddress
<1> QED
  BY <1>2, <1>3, <1>8, <1>9, <1>10, <1>11, <1>18 DEF n
-----------------------------------------------------------------------------
(* The zone.                                                                *)

\* A transaction of one message.
LEMMA TxOfOne ==
  ASSUME NEW m
  PROVE  TxOutcomes(<<m>>) = handleMsgMakeEthBridgeClaim(ChainState, m)
<1> DEFINE msgs == <<m>>
<1>1. Len(msgs) = 1 /\ msgs[1] = m
  OBVIOUS
<1> HIDE DEF msgs
<1>2. PICK after :
        /\ after = [i \in 0..Len(msgs) |->
                      IF i = 0 THEN {ChainState} ELSE StatesAfter(after[i - 1], msgs[i])]
        /\ TxOutcomes(msgs) = after[Len(msgs)]
  BY <1>1, TxOutcomesStepByStep
<1> DEFINE val(i) == IF i = 0 THEN {ChainState} ELSE StatesAfter(after[i - 1], msgs[i])
<1>3. after = [i \in 0..1 |-> val(i)]
  BY <1>1, <1>2
<1> HIDE DEF val
<1>4. after[0] = val(0) /\ after[1] = val(1)
  BY <1>3
<1>5. after[0] = {ChainState} /\ after[1] = StatesAfter(after[0], m)
  BY <1>1, <1>4 DEF val
<1>6. StatesAfter({ChainState}, m) = handleMsgMakeEthBridgeClaim(ChainState, m)
  BY DEF StatesAfter
<1>7. TxOutcomes(msgs) = after[1]
  BY <1>1, <1>2
<1> QED
  BY <1>5, <1>6, <1>7 DEF msgs

\* The prophecy of a lock after a claim about it has been accepted.
Leaves(m, q) ==
  /\ ~IsFinal(GetProphecy(store, oracleId(m)))
  /\ Completes(ChainState, oracleId(m), q, ChainState')

\* What an accepted claim does to the zone.
LEMMA DeliveredClaim ==
  ASSUME BridgeInv, NEW m \in Messages, DeliverTx(<<m>>)
  PROVE  /\ BridgeInv'
         /\ delivered' = delivered \cup {m}
         /\ UNCHANGED <<power, lastPower>>
         /\ \E q : Leaves(m, q)
<1>1. Len(<<m>>) \in Nat /\ \A i \in 1..Len(<<m>>) : <<m>>[i] \in Messages
  OBVIOUS
<1>2. BridgeInv'
  BY <1>1, DeliverKeepsInv
<1>3. PICK t \in handleMsgMakeEthBridgeClaim(ChainState, m) :
        /\ store' = t.store /\ balances' = t.balances /\ credits' = t.credits
        /\ delivered' = t.delivered /\ UNCHANGED <<power, lastPower>>
  BY TxOfOne DEF DeliverTx
<1> DEFINE s  == ChainState
           id == oracleId(m)
           c  == oracleClaim(m)
<1>4. s \in Sound /\ s.store = store /\ s.delivered = delivered
  BY DEF BridgeInv, ChainState
<1>5. /\ ValidateBasic(m) /\ AcceptsClaim(s.store, id, m.validator, c)
      /\ t \in ChainStates /\ t.delivered = s.delivered \cup {m}
      /\ \E q \in ClaimResults(s.store, id, m.validator, c) : Completes(s, id, q, t)
  BY <1>4, HandlerShape
<1>6. PICK q : Completes(s, id, q, t)
  BY <1>5
<1>7. ~IsFinal(GetProphecy(store, id))
  BY <1>4, <1>5 DEF AcceptsClaim, GetProphecy, NewProphecy, IsFinal,
     PendingStatusText, SuccessStatusText, FailedStatusText
<1>8. ChainState' = t
  <2>1. t = [store |-> t.store, balances |-> t.balances, credits |-> t.credits,
             delivered |-> t.delivered]
    BY <1>5 DEF ChainStates
  <2> QED
    BY <1>3, <2>1 DEF ChainState
<1>9. Leaves(m, q)
  BY <1>6, <1>7, <1>8 DEF Leaves
<1> QED
  BY <1>2, <1>3, <1>4, <1>5, <1>9

\* The vote w has on id is the claim about a lock, and has been delivered.
IsVoteOn(w, id, i) ==
  /\ IdOf(chain[i]) = id
  /\ store[id].validatorClaims[w] = ClaimOf(chain[i])
  /\ ParsePayload(w, chain[i]) \in delivered
  /\ chain[i].to \in Accounts /\ CoinsOf(chain[i].value) \in Nat

\* Every vote in the store is the claim about a lock, and has been delivered.
LEMMA VotesAreLocks ==
  ASSUME BridgeInv, ChainOK, MessagesOK, NEW id \in DOMAIN store, NEW w \in Validators,
         store[id].validatorClaims[w] # EmptyString
  PROVE  \E i \in LockLogs : IsVoteOn(w, id, i)
<1>1. PICK m \in delivered : oracleId(m) = id /\ m.validator = w
  BY DEF BridgeInv, IsReported, ChainState
<1>2. ValidateBasic(m) /\ store[id].validatorClaims[w] = oracleClaim(m)
  BY <1>1 DEF BridgeInv, IsReported, ChainState
<1>3. PICK i \in LockLogs : m = ParsePayload(w, chain[i])
  BY <1>1 DEF MessagesOK, RelaysLock
<1> DEFINE log == chain[i]
           k   == ParsePayload(w, log)
<1>4. /\ oracleId(k) = IdOf(log) /\ oracleClaim(k) = ClaimOf(log)
      /\ ValidateBasic(k) <=> Readable(log)
      /\ CoinsOf(log.value) \in Nat
      /\ Readable(log) <=> log.to \in Accounts
  BY LogsAreLocks
<1> HIDE DEF log, k
<1>5. m = k
  BY <1>3 DEF log, k
<1>6. IsVoteOn(w, id, i)
  BY <1>1, <1>2, <1>4, <1>5 DEF IsVoteOn, log, k
<1> QED
  BY <1>6

\* The final claim of a successful prophecy is the claim about a lock.
LEMMA VerdictsAreLocks ==
  ASSUME BridgeInv, ChainOK, MessagesOK, NEW id \in Succeeded
  PROVE  \E i \in LockLogs :
           /\ IdOf(chain[i]) = id /\ store[id].finalClaim = ClaimOf(chain[i])
           /\ chain[i].to \in Accounts /\ CoinsOf(chain[i].value) \in Nat
<1>1. id \in DOMAIN store /\ Payable(store[id]) /\ store[id].statusText = SuccessStatusText
  BY DEF Succeeded, BridgeInv, Sound, StoreIsSound, ChainState
<1>2. PICK w \in Validators : store[id].validatorClaims[w] = store[id].finalClaim
  BY <1>1 DEF Payable, IsVotedFor
<1>3. store[id].finalClaim # EmptyString
  BY <1>1, ClaimsAssumption DEF Payable
<1>4. PICK i \in LockLogs : IsVoteOn(w, id, i)
  BY <1>1, <1>2, <1>3, VotesAreLocks
<1> QED
  BY <1>2, <1>4 DEF IsVoteOn
\* A bonded validator can complete a claim the oracle accepts.
LEMMA SomeResult ==
  ASSUME BridgeInv, NEW id \in Ids, NEW v \in Validators, NEW c \in Claims,
         AcceptsClaim(store, id, v, c)
  PROVE  ClaimResults(store, id, v, c) # {}
<1> DEFINE p == GetProphecy(store, id)
           a == AddClaim(p, v, c)
<1>1. p \in Prophecies /\ IndexesAgree(p)
  BY NewProphecyType, NewProphecyIndexes
     DEF BridgeInv, TypeOK, Sound, StoreIsSound, ChainState, GetProphecy
<1>2. p.validatorClaims[v] = EmptyString
  BY DEF AcceptsClaim, GetProphecy, NewProphecy
<1>3. a \in Prophecies /\ IndexesAgree(a) /\ c \in ClaimStrings
  BY <1>1, <1>2, AddClaimType, AddClaimIndexes DEF ClaimStrings
<1>4. a.claimValidators[c] # << >>
  <2> DEFINE s == p.claimValidators[c]
  <2>1. s \in Seq(Validators)
    BY <1>1, <1>3 DEF Prophecies
  <2>2. a.claimValidators[c] = Append(s, v)
    BY <1>1, <1>3 DEF AddClaim, Prophecies
  <2> HIDE DEF s
  <2>3. Append(s, v) # << >>
    BY <2>1, AppendProperties
  <2> QED
    BY <2>2, <2>3
<1>5. ClaimsMade(a) # {}
  BY <1>3, <1>4 DEF ClaimsMade
<1>6. FindHighestClaim(a, BondedPower) # {}
  BY <1>3, <1>5, SomeClaimIsHighest
<1> HIDE DEF a
<1>7. processCompletion(a) # {}
  BY <1>6 DEF processCompletion
<1> QED
  BY <1>7 DEF ClaimResults, a

\* A claim in the mempool of a bonded validator is not refused, unless it has
\* been delivered before or the lock has been decided.
LEMMA RefusedClaim ==
  ASSUME BridgeInv, ChainOK, MessagesOK, NEW v \in Validators, Bonded(v),
         NEW m \in mempool[v], m \in Messages, TxOutcomes(<<m>>) = {}
  PROVE  m \in delivered \/ (oracleId(m) \in DOMAIN store /\ IsFinal(store[oracleId(m)]))
<1> SUFFICES ASSUME m \notin delivered,
                    oracleId(m) \in DOMAIN store => ~IsFinal(store[oracleId(m)])
             PROVE  FALSE
  OBVIOUS
<1> DEFINE id == oracleId(m)
           c  == oracleClaim(m)
           p  == GetProphecy(store, id)
<1>1. m.validator = v /\ ValidateBasic(m) /\ RelaysLock(m)
  BY DEF MessagesOK
<1>2. id \in Ids /\ c \in Claims
  BY <1>1, ValidMessage
<1>3. PICK j \in LockLogs : m = ParsePayload(v, chain[j])
  BY <1>1 DEF RelaysLock
<1>4. id = IdOf(chain[j]) /\ c = ClaimOf(chain[j]) /\ CoinsOf(chain[j].value) \in Nat
  BY <1>3, LogsAreLocks
<1>5. id \in DOMAIN store => store[id].validatorClaims[v] = EmptyString
  <2> SUFFICES ASSUME id \in DOMAIN store, store[id].validatorClaims[v] # EmptyString
               PROVE  FALSE
    OBVIOUS
  <2> HIDE DEF id
  <2>1. PICK i \in LockLogs : IsVoteOn(v, id, i)
    BY VotesAreLocks
  <2>2. i = j
    BY <1>4, <2>1, OneLockPerId DEF IsVoteOn
  <2> QED
    BY <1>3, <2>1, <2>2 DEF IsVoteOn
<1>6. AcceptsClaim(store, id, v, c)
  BY <1>2, <1>5, ClaimsAssumption, IdsAssumption DEF AcceptsClaim, checkActiveValidator
<1>7. PICK q \in ClaimResults(store, id, v, c) : TRUE
  BY <1>2, <1>6, SomeResult
<1>8. PICK D \in SUBSET Ids : store \in [D -> Prophecies]
  BY DEF BridgeInv, Sound, ChainStates, ChainState
<1>9. StoreIsSound(store)
  BY DEF BridgeInv, Sound, ChainState
<1>10. /\ q.validatorClaims = [p.validatorClaims EXCEPT ![v] = c] /\ p \in Prophecies
       /\ q.statusText = SuccessStatusText => q.finalClaim \in Claims /\ IsVotedFor(q)
  <2> HIDE DEF id, c, p
  <2> QED
    BY <1>2, <1>6, <1>8, <1>9, AcceptedClaim DEF p
<1>11. q.statusText = SuccessStatusText => q.finalClaim.amount \in Nat
  <2> SUFFICES ASSUME q.statusText = SuccessStatusText PROVE q.finalClaim.amount \in Nat
    OBVIOUS
  <2>1. PICK w \in Validators : q.validatorClaims[w] = q.finalClaim
    BY <1>10 DEF IsVotedFor
  <2>2. CASE w = v
    <3>1. q.finalClaim = c
      BY <1>10, <2>1, <2>2 DEF Prophecies
    <3> QED
      BY <1>4, <3>1 DEF ClaimOf
  <2>3. CASE w # v
    <3>1. q.finalClaim = p.validatorClaims[w] /\ q.finalClaim # EmptyString
      BY <1>10, <2>1, <2>3, ClaimsAssumption DEF Prophecies
    <3>2. id \in DOMAIN store /\ q.finalClaim = store[id].validatorClaims[w]
      BY <3>1 DEF GetProphecy, NewProphecy
    <3> HIDE DEF id
    <3>3. PICK i \in LockLogs : IsVoteOn(w, id, i)
      BY <3>1, <3>2, VotesAreLocks
    <3> QED
      BY <3>2, <3>3 DEF IsVoteOn, ClaimOf
  <2> QED
    BY <2>2, <2>3
<1> DEFINE u(k)     == [ChainState EXCEPT !.store = saveProphecy(ChainState.store, id, k),
                                      !.delivered = @ \cup {m}]
           after(k) == Settle(u(k), m, k)
<1>12. after(q) # {}
  <2> HIDE DEF u
  <2>1. CASE q.statusText = SuccessStatusText
    <3>1. q.finalClaim.amount # InvalidCoins
      BY <1>11, <2>1, AmountAssumption
    <3> QED
      BY <2>1, <3>1 DEF Settle, processSuccessfulClaim
  <2>2. CASE q.statusText # SuccessStatusText
    BY <2>2 DEF Settle
  <2> QED
    BY <2>1, <2>2
<1>13. ChainState.store = store
  BY DEF ChainState
<1>14. handleMsgMakeEthBridgeClaim(ChainState, m) =
         UNION {after(k) : k \in ClaimResults(store, id, v, c)}
  BY <1>1, <1>6, <1>13 DEF handleMsgMakeEthBridgeClaim
<1>15. UNION {after(k) : k \in ClaimResults(store, id, v, c)} # {}
  <2> HIDE DEF after
  <2>1. PICK t : t \in after(q)
    BY <1>12
  <2>2. t \in UNION {after(k) : k \in ClaimResults(store, id, v, c)}
    BY <1>7, <2>1
  <2> QED
    BY <2>2
<1> QED
  BY <1>14, <1>15, TxOfOne
-----------------------------------------------------------------------------
(* Queues.                                                                  *)

\* What is in a queue after one more is put into it.
LEMMA AppendSet ==
  ASSUME NEW S, NEW s \in Seq(S), NEW x \in S
  PROVE  Append(s, x) \in Seq(S) /\ ToSet(Append(s, x)) = ToSet(s) \cup {x}
<1> DEFINE n == Len(s)
           t == Append(s, x)
<1>1. /\ n \in Nat /\ DOMAIN s = 1..n
      /\ t \in Seq(S) /\ Len(t) = n + 1 /\ DOMAIN t = 1..Len(t)
      /\ (\A i \in 1..n : t[i] = s[i]) /\ t[n + 1] = x
  <2>1. t \in Seq(S)
    BY AppendProperties
  <2>2. n \in Nat /\ DOMAIN s = 1..n /\ DOMAIN t = 1..Len(t)
    <3> HIDE DEF t
    <3> QED
      BY <2>1, LenProperties
  <2> QED
    BY <2>1, <2>2, AppendProperties
<1> HIDE DEF n, t
<1>2. \A i \in 1..n + 1 : i \in 1..n \/ i = n + 1
  BY <1>1
<1>3. n + 1 \in 1..n + 1 /\ \A i \in 1..n : i \in 1..n + 1
  BY <1>1
<1>4. ToSet(t) = {t[i] : i \in 1..n + 1} /\ ToSet(s) = {s[i] : i \in 1..n}
  BY <1>1 DEF ToSet
<1>5. ToSet(t) = ToSet(s) \cup {x}
  BY <1>1, <1>2, <1>3, <1>4
<1> QED
  BY <1>1, <1>5 DEF t

\* What is in a queue is its head and what follows.
LEMMA TailSet ==
  ASSUME NEW S, NEW s \in Seq(S), s # << >>
  PROVE  Head(s) \in S /\ Tail(s) \in Seq(S) /\ ToSet(s) = {Head(s)} \cup ToSet(Tail(s))
<1> DEFINE n == Len(s)
           t == Tail(s)
<1>1. /\ Head(s) = s[1] /\ Head(s) \in S /\ t \in Seq(S)
      /\ n \in Nat /\ n >= 1 /\ DOMAIN s = 1..n /\ Len(t) = n - 1
      /\ \A i \in 1..Len(t) : t[i] = s[i + 1]
  BY HeadTailProperties, LenProperties, EmptySeq
<1>2. DOMAIN t = 1..n - 1
  BY <1>1, LenProperties
<1> HIDE DEF n, t
<1>3. \A i \in 1..n : i = 1 \/ (i - 1 \in 1..n - 1 /\ (i - 1) + 1 = i)
  BY <1>1
<1>4. 1 \in 1..n /\ \A i \in 1..n - 1 : i + 1 \in 1..n
  BY <1>1
<1>5. ToSet(t) = {t[i] : i \in 1..n - 1} /\ ToSet(s) = {s[i] : i \in 1..n}
  BY <1>1, <1>2 DEF ToSet
<1>6. \A i \in 1..n - 1 : t[i] = s[i + 1]
  BY <1>1
<1>7. ToSet(s) \subseteq {s[1]} \cup ToSet(t)
  <2> SUFFICES ASSUME NEW i \in 1..n, i # 1 PROVE s[i] \in ToSet(t)
    BY <1>5
  <2>1. i - 1 \in 1..n - 1 /\ s[i] = t[i - 1]
    BY <1>3, <1>6
  <2> QED
    BY <1>5, <2>1
<1>8. {s[1]} \cup ToSet(t) \subseteq ToSet(s)
  BY <1>4, <1>5, <1>6
<1> QED
  BY <1>1, <1>7, <1>8 DEF t

\* A log that is taken from a queue.
LEMMA PopQueue ==
  ASSUME ProcessTypes, NEW v \in Validators, HasLog(v), Handled(v)
  PROVE  /\ logs' \in [Validators -> Seq(LogRecords)]
         /\ \A w \in Validators : w # v => logs'[w] = logs[w]
         /\ ToSet(logs[v]) = {Head(logs[v])} \cup ToSet(logs'[v])
<1> DEFINE s == logs[v]
<1>1. logs \in [Validators -> Seq(LogRecords)] /\ s \in Seq(LogRecords) /\ s # << >>
  BY DEF ProcessTypes, HasLog
<1>2. logs' = [logs EXCEPT ![v] = Tail(s)]
  BY DEF Handled
<1> HIDE DEF s
<1>3. Tail(s) \in Seq(LogRecords) /\ ToSet(s) = {Head(s)} \cup ToSet(Tail(s))
  BY <1>1, TailSet
<1>4. logs'[v] = Tail(s)
  BY <1>1, <1>2
<1>5. /\ logs' \in [Validators -> Seq(LogRecords)]
      /\ \A w \in Validators : w # v => logs'[w] = logs[w]
  BY <1>1, <1>2, <1>3
<1> QED
  BY <1>3, <1>4, <1>5 DEF s

-----------------------------------------------------------------------------
(* What a step leaves alone.                                                *)

\* No step takes anything back on the zone.
ZoneGrows ==
  /\ lastPower' = lastPower
  /\ delivered \subseteq delivered'
  /\ \A id \in DOMAIN store :
       id \in DOMAIN store' /\ (IsFinal(store[id]) => store'[id] = store[id])

\* Nothing happens to the relayer of w.
StandsStill(w) ==
  /\ process'[w] = process[w]
  /\ logs'[w] = logs[w]
  /\ mempool'[w] = mempool[w]
  /\ w \in faulted' <=> w \in faulted

\* The zone is sound when nothing happens to it.
LEMMA QuietZone ==
  ASSUME BridgeInv, UNCHANGED <<power, lastPower, zoneVars>>
  PROVE  BridgeInv' /\ ZoneGrows
<1>1. UNCHANGED bridgeVars
  BY DEF zoneVars, bridgeVars
<1>2. BridgeInv'
  BY <1>1, BridgeStep
<1> QED
  BY <1>2 DEF ZoneGrows, zoneVars

\* The chain is sound when nothing happens to it.
LEMMA QuietChain ==
  ASSUME ChainOK, UNCHANGED chain
  PROVE  ChainOK' /\ LockLogs' = LockLogs /\ \A m : RelaysLock(m) => RelaysLock(m)'
<1>1. LockLogs' = LockLogs
  BY DEF LockLogs, IsLock
<1>2. ChainOK'
  BY <1>1 DEF ChainOK, LogRecords, LockLogRecords, OtherLog, EthAddresses, IsValidEthAddress,
     HexPart, HexCharacters
<1>3. \A m : RelaysLock(m) => RelaysLock(m)'
  BY <1>1 DEF RelaysLock, ParsePayload, CoinsOf
<1> QED
  BY <1>1, <1>2, <1>3

\* A lock that is safe stays safe when the queue and the pending claims of the
\* relayer are as they were.
LEMMA SafeClaimKeeps ==
  ASSUME ZoneGrows, NEW v, NEW log, SafeClaim(v, log),
         log \in ToSet(logs[v]) => log \in ToSet(logs'[v]) \/ SafeClaim(v, log)',
         Pending(v, log) => Pending(v, log)' \/ SafeClaim(v, log)'
  PROVE  SafeClaim(v, log)'
<1>1. Claimed(v, log) => Claimed(v, log)'
  BY DEF Claimed, ZoneGrows, ParsePayload, CoinsOf
<1>2. Decided(log) => Decided(log)'
  BY DEF Decided, ZoneGrows, IsFinal, IdOf, SuccessStatusText, FailedStatusText
<1> QED
  BY <1>1, <1>2 DEF SafeClaim

\* A relayer to which nothing happens.
LEMMA StandingStill ==
  ASSUME ChainOK, ZoneGrows, UNCHANGED chain, NEW w \in Validators,
         ProcessOK(w), NothingLost(w), StandsStill(w)
  PROVE  ProcessOK(w)' /\ NothingLost(w)'
<1>1. LockLogs' = LockLogs
  BY QuietChain
<1>2. ProcessOK(w)'
  BY DEF ProcessOK, StandsStill
<1>3. NothingLost(w)'
  <2> SUFFICES ASSUME w \notin faulted, Bonded(w), NEW i \in LockLogs, Readable(chain[i])
               PROVE  SafeClaim(w, chain[i])'
    BY <1>1 DEF NothingLost, StandsStill, Bonded, ZoneGrows, Readable
  <2>1. SafeClaim(w, chain[i])
    BY DEF NothingLost
  <2> DEFINE log == chain[i]
  <2>2. Pending(w, log) => Pending(w, log)'
    BY DEF Pending, StandsStill, ParsePayload, CoinsOf
  <2>3. log \in ToSet(logs[w]) => log \in ToSet(logs'[w])
    BY DEF StandsStill
  <2>4. log' = log
    OBVIOUS
  <2> HIDE DEF log
  <2>5. SafeClaim(w, log)'
    BY <2>1, <2>2, <2>3, SafeClaimKeeps DEF log
  <2> QED
    BY <2>5 DEF log
<1> QED
  BY <1>2, <1>3
-----------------------------------------------------------------------------
(* One relayer.                                                             *)

\* A step of the relayer of v has to keep what is said of v.
LEMMA OneRelayerStep ==
  ASSUME RelayerInv, NEW v \in Validators,
         UNCHANGED <<power, lastPower, zoneVars, chain>>,
         \A w \in Validators : w # v => StandsStill(w),
         ProcessTypes', ProcessOK(v)', NothingLost(v)',
         \A m \in mempool'[v] : m.validator = v /\ ValidateBasic(m) /\ RelaysLock(m)
  PROVE  RelayerInv'
<1>1. BridgeInv /\ ChainOK /\ MessagesOK /\ \A w \in Validators : ProcessOK(w) /\ NothingLost(w)
  BY DEF RelayerInv
<1>2. BridgeInv' /\ ZoneGrows
  BY <1>1, QuietZone
<1>3. ChainOK' /\ \A m : RelaysLock(m) => RelaysLock(m)'
  BY <1>1, QuietChain
<1>4. MessagesOK'
  <2>1. \A m \in delivered' : RelaysLock(m)'
    BY <1>1, <1>3 DEF MessagesOK, zoneVars
  <2>2. ASSUME NEW w \in Validators, NEW m \in mempool'[w]
        PROVE  m.validator = w /\ ValidateBasic(m) /\ RelaysLock(m)'
    <3>1. m.validator = w /\ ValidateBasic(m) /\ RelaysLock(m)
      BY <1>1, <2>2 DEF MessagesOK, StandsStill
    <3> QED
      BY <1>3, <3>1
  <2>3. \A m : ValidateBasic(m) => ValidateBasic(m)'
    BY DEF ValidateBasic, IsValidEthAddress, HexPart, HexCharacters
  <2> QED
    BY <2>1, <2>2, <2>3 DEF MessagesOK
<1>5. \A w \in Validators : ProcessOK(w)' /\ NothingLost(w)'
  BY <1>1, <1>2, StandingStill
<1> QED
  BY <1>2, <1>3, <1>4, <1>5 DEF RelayerInv

\* What the invariant says of v.
LEMMA AboutOne ==
  ASSUME RelayerInv, NEW v \in Validators
  PROVE  /\ ChainOK /\ ProcessTypes /\ ProcessOK(v) /\ NothingLost(v) /\ BridgeInv
         /\ \A m \in mempool[v] :
              m \in Messages /\ m.validator = v /\ ValidateBasic(m) /\ RelaysLock(m)
         /\ process[v] \in {"down", "listening", "waiting"} /\ mempool[v] \in SUBSET Messages
BY DEF RelayerInv, MessagesOK, ProcessTypes

\* An event that is not a lock is skipped.
LEMMA SkipLogKeeps ==
  ASSUME RelayerInv, NEW v \in Validators, SkipLog(v)
  PROVE  RelayerInv'
<1> DEFINE head == Head(logs[v])
<1>1. /\ HasLog(v) /\ ~IsLock(head) /\ Handled(v)
      /\ UNCHANGED <<power, lastPower, zoneVars, chain, process, mempool, faulted>>
  BY DEF SkipLog
<1>2. /\ ChainOK /\ ProcessTypes /\ ProcessOK(v) /\ NothingLost(v) /\ BridgeInv
      /\ \A m \in mempool[v] : m.validator = v /\ ValidateBasic(m) /\ RelaysLock(m)
  BY AboutOne
<1>3. /\ logs' \in [Validators -> Seq(LogRecords)]
      /\ \A w \in Validators : w # v => logs'[w] = logs[w]
      /\ ToSet(logs[v]) = {head} \cup ToSet(logs'[v])
  BY <1>1, <1>2, PopQueue
<1> HIDE DEF head
<1>4. ProcessTypes'
  BY <1>1, <1>2, <1>3 DEF ProcessTypes, LogRecords, LockLogRecords, OtherLog, EthAddresses,
     IsValidEthAddress, HexPart, HexCharacters, Messages, Amounts
<1>5. ProcessOK(v)'
  BY <1>1, <1>2, <1>3 DEF ProcessOK, HasLog
<1>6. ZoneGrows
  BY <1>1, <1>2, QuietZone
<1>7. NothingLost(v)'
  <2>1. LockLogs' = LockLogs
    BY <1>1, <1>2, QuietChain
  <2> SUFFICES ASSUME v \notin faulted, Bonded(v), NEW i \in LockLogs, Readable(chain[i])
               PROVE  SafeClaim(v, chain[i])'
    BY <1>1, <2>1 DEF NothingLost, Bonded, Readable
  <2> DEFINE log == chain[i]
  <2>2. SafeClaim(v, log) /\ IsLock(log)
    BY <1>2 DEF NothingLost, LockLogs
  <2>3. log' = log
    BY <1>1
  <2>4. Pending(v, log) => Pending(v, log)'
    BY <1>1 DEF Pending, ParsePayload, CoinsOf
  <2>5. log \in ToSet(logs[v]) => log \in ToSet(logs'[v])
    BY <1>1, <1>3, <2>2
  <2> HIDE DEF log
  <2>6. SafeClaim(v, log)'
    BY <1>6, <2>2, <2>3, <2>4, <2>5, SafeClaimKeeps
  <2> QED
    BY <2>6 DEF log
<1>8. \A w \in Validators : w # v => StandsStill(w)
  BY <1>1, <1>3 DEF StandsStill
<1>9. \A m \in mempool'[v] : m.validator = v /\ ValidateBasic(m) /\ RelaysLock(m)
  BY <1>1, <1>2
<1>10. UNCHANGED <<power, lastPower, zoneVars, chain>>
  BY <1>1
<1> QED
  BY <1>4, <1>5, <1>7, <1>8, <1>9, <1>10, OneRelayerStep

\* A claim is broadcast, or dropped because it is not well formed: the relayer of
\* a validator without a fault has no other claim pending.
LEMMA RelayEventKeeps ==
  ASSUME RelayerInv, NEW v \in Validators, RelayEvent(v)
  PROVE  RelayerInv'
<1> DEFINE head  == Head(logs[v])
           claim == ParsePayload(v, head)
<1>1. /\ HasLog(v) /\ IsLock(head) /\ Handled(v)
      /\ UNCHANGED <<power, lastPower, zoneVars, chain, faulted>>
      /\ \/ /\ CheckTx(v, claim)
            /\ mempool' = [mempool EXCEPT ![v] = {claim}]
            /\ process' = [process EXCEPT ![v] = "waiting"]
         \/ ~CheckTx(v, claim) /\ UNCHANGED <<mempool, process>>
  BY DEF RelayEvent
<1>2. /\ ChainOK /\ ProcessTypes /\ ProcessOK(v) /\ NothingLost(v) /\ BridgeInv
      /\ \A m \in mempool[v] : m.validator = v /\ ValidateBasic(m) /\ RelaysLock(m)
      /\ process[v] = "listening"
  BY <1>1, AboutOne DEF HasLog
<1>3. /\ logs' \in [Validators -> Seq(LogRecords)]
      /\ \A w \in Validators : w # v => logs'[w] = logs[w]
      /\ ToSet(logs[v]) = {head} \cup ToSet(logs'[v])
  BY <1>1, <1>2, PopQueue
<1>4. PICK j \in LockLogs : head = chain[j]
  <2>1. head \in ToSet(chain)
    BY <1>2, <1>3 DEF ProcessOK
  <2> HIDE DEF head
  <2>2. PICK j \in DOMAIN chain : head = chain[j]
    BY <2>1 DEF ToSet
  <2> QED
    BY <1>1, <2>2 DEF LockLogs
<1>5. claim \in Messages /\ claim.validator = v /\ (ValidateBasic(claim) <=> Readable(head))
  BY <1>2, <1>4, LogsAreLocks
<1>6. RelaysLock(claim)
  BY <1>4, <1>5 DEF RelaysLock
<1> HIDE DEF head, claim
<1>7. /\ process' \in [Validators -> {"down", "listening", "waiting"}]
      /\ mempool' \in [Validators -> SUBSET Messages]
      /\ \A w \in Validators : w # v => process'[w] = process[w] /\ mempool'[w] = mempool[w]
      /\ \/ CheckTx(v, claim) /\ mempool'[v] = {claim} /\ process'[v] = "waiting"
         \/ ~CheckTx(v, claim) /\ mempool'[v] = mempool[v] /\ process'[v] = process[v]
  <2>1. /\ process \in [Validators -> {"down", "listening", "waiting"}]
        /\ mempool \in [Validators -> SUBSET Messages]
    BY <1>2 DEF ProcessTypes
  <2> QED
    BY <1>1, <1>5, <2>1
<1>8. ProcessTypes'
  BY <1>3, <1>7 DEF ProcessTypes, LogRecords, LockLogRecords, OtherLog, EthAddresses,
     IsValidEthAddress, HexPart, HexCharacters, Messages, Amounts
<1>9. ProcessOK(v)'
  BY <1>1, <1>2, <1>3, <1>7 DEF ProcessOK
<1>10. ZoneGrows
  BY <1>1, <1>2, QuietZone
<1>11. NothingLost(v)'
  <2>1. LockLogs' = LockLogs
    BY <1>1, <1>2, QuietChain
  <2> SUFFICES ASSUME v \notin faulted, Bonded(v), NEW i \in LockLogs, Readable(chain[i])
               PROVE  SafeClaim(v, chain[i])'
    BY <1>1, <2>1 DEF NothingLost, Bonded, Readable
  <2> DEFINE log == chain[i]
  <2>2. SafeClaim(v, log) /\ Readable(log)
    BY <1>2 DEF NothingLost
  <2>3. log' = log
    BY <1>1
  <2>4. mempool[v] = {}
    BY <1>2 DEF ProcessOK
  <2>5. ~Pending(v, log)
    BY <2>4 DEF Pending
  <2> HIDE DEF log
  <2>6. log = head => Pending(v, log)'
    <3> SUFFICES ASSUME log = head PROVE Pending(v, log)'
      OBVIOUS
    <3>1. CheckTx(v, claim)
      BY <1>5, <2>2, <2>4 DEF CheckTx
    <3>2. claim \in mempool'[v]
      BY <1>7, <3>1
    <3> QED
      BY <2>3, <3>2 DEF Pending, ParsePayload, CoinsOf, claim
  <2>7. log \in ToSet(logs[v]) => log \in ToSet(logs'[v]) \/ SafeClaim(v, log)'
    BY <1>3, <2>6 DEF SafeClaim
  <2>8. SafeClaim(v, log)'
    BY <1>10, <2>2, <2>3, <2>5, <2>7, SafeClaimKeeps
  <2> QED
    BY <2>8 DEF log
<1>12. \A w \in Validators : w # v => StandsStill(w)
  BY <1>1, <1>3, <1>7 DEF StandsStill
<1>13. \A m \in mempool'[v] : m.validator = v /\ ValidateBasic(m) /\ RelaysLock(m)
  BY <1>2, <1>5, <1>6, <1>7 DEF CheckTx
<1>14. UNCHANGED <<power, lastPower, zoneVars, chain>>
  BY <1>1
<1> QED
  BY <1>8, <1>9, <1>11, <1>12, <1>13, <1>14, OneRelayerStep

\* The node of the zone does not answer, the broadcast stops waiting, or the
\* process dies: the relayer has met a fault and nothing is promised of it.
LEMMA FaultKeeps ==
  ASSUME RelayerInv, NEW v \in Validators, RelayFails(v) \/ TimeOut(v) \/ Die(v)
  PROVE  RelayerInv'
<1>1. /\ UNCHANGED <<power, lastPower, zoneVars, chain, mempool>>
      /\ faulted' = faulted \cup {v}
  BY DEF RelayFails, TimeOut, Die, Fault
<1>2. /\ ChainOK /\ ProcessTypes /\ ProcessOK(v)
      /\ \A m \in mempool[v] : m.validator = v /\ ValidateBasic(m) /\ RelaysLock(m)
  BY AboutOne
<1>3. /\ process \in [Validators -> {"down", "listening", "waiting"}]
      /\ mempool \in [Validators -> SUBSET Messages]
      /\ logs \in [Validators -> Seq(LogRecords)]
  BY <1>2 DEF ProcessTypes
<1>4. /\ process' \in [Validators -> {"down", "listening", "waiting"}]
      /\ logs' \in [Validators -> Seq(LogRecords)]
      /\ \A w \in Validators : w # v => process'[w] = process[w] /\ logs'[w] = logs[w]
      /\ process'[v] = "waiting" => process[v] = "waiting"
      /\ process'[v] = "down" => logs'[v] = << >> \/ process[v] = "down"
      /\ process[v] = "down" => logs'[v] = logs[v]
      /\ ToSet(logs'[v]) \subseteq ToSet(chain)
  <2>1. ToSet(logs[v]) \subseteq ToSet(chain)
    BY <1>2 DEF ProcessOK
  <2>2. CASE RelayFails(v)
    <3>1. HasLog(v) /\ Handled(v) /\ process' = process
      BY <2>2 DEF RelayFails
    <3>2. /\ logs' \in [Validators -> Seq(LogRecords)]
          /\ \A w \in Validators : w # v => logs'[w] = logs[w]
          /\ ToSet(logs'[v]) \subseteq ToSet(chain)
      BY <1>2, <2>1, <3>1, PopQueue
    <3> QED
      BY <1>3, <3>1, <3>2 DEF HasLog
  <2>3. CASE TimeOut(v)
    BY <1>3, <2>1, <2>3 DEF TimeOut
  <2>4. CASE Die(v)
    <3>1. << >> \in Seq(LogRecords) /\ ToSet(<< >>) = {}
      BY EmptySeq DEF ToSet
    <3>2. /\ process[v] # "down"
          /\ process' = [process EXCEPT ![v] = "down"] /\ logs' = [logs EXCEPT ![v] = << >>]
      BY <2>4 DEF Die
    <3> QED
      BY <1>3, <2>1, <3>1, <3>2
  <2> QED
    BY <2>2, <2>3, <2>4
<1>5. ProcessTypes'
  BY <1>1, <1>3, <1>4 DEF ProcessTypes, LogRecords, LockLogRecords, OtherLog, EthAddresses,
     IsValidEthAddress, HexPart, HexCharacters, Messages, Amounts
<1>6. ProcessOK(v)'
  BY <1>1, <1>2, <1>4 DEF ProcessOK
<1>7. NothingLost(v)'
  BY <1>1 DEF NothingLost
<1>8. \A w \in Validators : w # v => StandsStill(w)
  BY <1>1, <1>4 DEF StandsStill
<1>9. \A m \in mempool'[v] : m.validator = v /\ ValidateBasic(m) /\ RelaysLock(m)
  BY <1>1, <1>2
<1>10. UNCHANGED <<power, lastPower, zoneVars, chain>>
  BY <1>1
<1> QED
  BY <1>5, <1>6, <1>7, <1>8, <1>9, <1>10, OneRelayerStep

\* A relayer that is started again has been down, and that was a fault.
LEMMA InitRelayerKeeps ==
  ASSUME RelayerInv, NEW v \in Validators, InitRelayer(v)
  PROVE  RelayerInv'
<1>1. /\ process[v] = "down" /\ process' = [process EXCEPT ![v] = "listening"]
      /\ UNCHANGED <<power, lastPower, zoneVars, chain, logs, mempool, faulted>>
  BY DEF InitRelayer
<1>2. /\ ProcessTypes /\ ProcessOK(v)
      /\ \A m \in mempool[v] : m.validator = v /\ ValidateBasic(m) /\ RelaysLock(m)
  BY AboutOne
<1>3. v \in faulted /\ process \in [Validators -> {"down", "listening", "waiting"}]
  BY <1>1, <1>2 DEF ProcessOK, ProcessTypes
<1>4. ProcessTypes'
  BY <1>1, <1>2, <1>3 DEF ProcessTypes, LogRecords, LockLogRecords, OtherLog, EthAddresses,
     IsValidEthAddress, HexPart, HexCharacters, Messages, Amounts
<1>5. ProcessOK(v)'
  BY <1>1, <1>2, <1>3 DEF ProcessOK
<1>6. NothingLost(v)'
  BY <1>1, <1>3 DEF NothingLost
<1>7. \A w \in Validators : w # v => StandsStill(w)
  BY <1>1, <1>3 DEF StandsStill
<1>8. \A m \in mempool'[v] : m.validator = v /\ ValidateBasic(m) /\ RelaysLock(m)
  BY <1>1, <1>2
<1>9. UNCHANGED <<power, lastPower, zoneVars, chain>>
  BY <1>1
<1> QED
  BY <1>4, <1>5, <1>6, <1>7, <1>8, <1>9, OneRelayerStep
\* The contract emits a log: every relayer that is not down will read it.
LEMMA EmitKeeps ==
  ASSUME RelayerInv, NEW log, IsNext(log), Emit(log)
  PROVE  RelayerInv'
<1>1. /\ Len(chain) < MaxLogs /\ chain' = Append(chain, log)
      /\ logs' = [v \in Validators |->
                    IF process[v] = "down" THEN logs[v] ELSE Append(logs[v], log)]
      /\ UNCHANGED <<power, lastPower, zoneVars, process, mempool, faulted>>
  BY DEF Emit
<1>2. /\ BridgeInv /\ ChainOK /\ MessagesOK /\ ProcessTypes
      /\ \A v \in Validators : ProcessOK(v) /\ NothingLost(v)
  BY DEF RelayerInv
<1>3. BridgeInv' /\ ZoneGrows
  BY <1>1, <1>2, QuietZone
<1>4. /\ ChainOK' /\ log \in LogRecords
      /\ \A i \in LockLogs : i \in LockLogs' /\ chain'[i] = chain[i]
      /\ LockLogs' = IF IsLock(log) THEN LockLogs \cup {Len(chain) + 1} ELSE LockLogs
      /\ chain'[Len(chain) + 1] = log
      /\ ToSet(chain') = ToSet(chain) \cup {log}
  BY <1>1, <1>2, ChainGrows
<1>5. MessagesOK'
  <2>1. \A m : RelaysLock(m) => RelaysLock(m)'
    BY <1>4 DEF RelaysLock, ParsePayload, CoinsOf
  <2>2. \A m : ValidateBasic(m) => ValidateBasic(m)'
    BY DEF ValidateBasic, IsValidEthAddress, HexPart, HexCharacters
  <2> QED
    BY <1>1, <1>2, <2>1, <2>2 DEF MessagesOK, zoneVars
<1>6. ASSUME NEW v \in Validators
      PROVE  /\ logs'[v] \in Seq(LogRecords)
             /\ process[v] = "down" => logs'[v] = logs[v]
             /\ process[v] # "down" => ToSet(logs'[v]) = ToSet(logs[v]) \cup {log}
  <2>1. logs[v] \in Seq(LogRecords)
    BY <1>2 DEF ProcessTypes
  <2>2. Append(logs[v], log) \in Seq(LogRecords) /\ ToSet(Append(logs[v], log)) = ToSet(logs[v]) \cup {log}
    BY <1>4, <2>1, AppendSet
  <2>3. logs'[v] = IF process[v] = "down" THEN logs[v] ELSE Append(logs[v], log)
    BY <1>1
  <2> QED
    BY <2>1, <2>2, <2>3
<1>7. ProcessTypes'
  <2>1. logs' \in [Validators -> Seq(LogRecords)]
    BY <1>1, <1>6
  <2> QED
    BY <1>1, <1>2, <2>1 DEF ProcessTypes, LogRecords, LockLogRecords, OtherLog, EthAddresses,
       IsValidEthAddress, HexPart, HexCharacters, Messages, Amounts
<1>8. ASSUME NEW v \in Validators
      PROVE  ProcessOK(v)'
  <2>1. ToSet(logs[v]) \subseteq ToSet(chain)
    BY <1>2 DEF ProcessOK
  <2>2. ToSet(logs'[v]) \subseteq ToSet(chain')
    BY <1>4, <1>6, <2>1
  <2>3. process[v] = "down" => logs'[v] = << >>
    BY <1>2, <1>6 DEF ProcessOK
  <2> QED
    BY <1>1, <1>2, <2>2, <2>3 DEF ProcessOK
<1>9. ASSUME NEW v \in Validators
      PROVE  NothingLost(v)'
  <2> SUFFICES ASSUME v \notin faulted, Bonded(v), NEW i \in LockLogs', Readable(chain'[i])
               PROVE  SafeClaim(v, chain[i])'
    BY <1>1 DEF NothingLost, Bonded, Readable
  <2>1. process[v] # "down" /\ NothingLost(v)
    BY <1>2 DEF ProcessOK
  <2>2. ToSet(logs'[v]) = ToSet(logs[v]) \cup {log}
    BY <1>6, <2>1
  <2>3. CASE i \in LockLogs
    <3> DEFINE old == chain[i]
    <3>1. old' = old /\ Readable(old)
      BY <1>4, <2>3 DEF Readable
    <3>2. SafeClaim(v, old)
      BY <2>1, <2>3, <3>1 DEF NothingLost
    <3>3. Pending(v, old) => Pending(v, old)'
      BY <1>1, <3>1 DEF Pending, ParsePayload, CoinsOf
    <3>4. old \in ToSet(logs[v]) => old \in ToSet(logs'[v])
      BY <2>2
    <3> HIDE DEF old
    <3>5. SafeClaim(v, old)'
      BY <1>3, <3>1, <3>2, <3>3, <3>4, SafeClaimKeeps
    <3> QED
      BY <3>5 DEF old
  <2>4. CASE i \notin LockLogs
    <3>1. chain'[i] = log
      BY <1>4, <2>4
    <3> QED
      BY <2>2, <3>1 DEF SafeClaim
  <2> QED
    BY <2>3, <2>4
<1> QED
  BY <1>3, <1>4, <1>5, <1>7, <1>8, <1>9 DEF RelayerInv

\* What becomes of a claim that leaves the mempool.
LEMMA CommittedClaim ==
  ASSUME RelayerInv, NEW v \in Validators, NEW m \in mempool[v],
         DeliverTx(<<m>>) \/ (TxOutcomes(<<m>>) = {} /\ UNCHANGED <<power, lastPower, zoneVars>>)
  PROVE  /\ BridgeInv' /\ ZoneGrows
         /\ delivered' \subseteq delivered \cup {m}
         /\ Bonded(v) =>
              \/ m \in delivered'
              \/ oracleId(m) \in DOMAIN store' /\ IsFinal(store'[oracleId(m)])
<1>1. ChainOK /\ BridgeInv /\ m \in Messages /\ MessagesOK
  BY AboutOne DEF RelayerInv
<1>2. CASE DeliverTx(<<m>>)
  <2>1. /\ BridgeInv' /\ delivered' = delivered \cup {m} /\ UNCHANGED <<power, lastPower>>
        /\ \E q : Leaves(m, q)
    BY <1>1, <1>2, DeliveredClaim
  <2>2. PICK q : Leaves(m, q)
    BY <2>1
  <2> DEFINE id == oracleId(m)
  <2>3. store' = saveProphecy(store, id, q) /\ ~IsFinal(GetProphecy(store, id))
    BY <2>2 DEF Leaves, Completes, ChainState
  <2> HIDE DEF id
  <2>4. \A i \in DOMAIN store :
          i \in DOMAIN store' /\ (IsFinal(store[i]) => store'[i] = store[i])
    BY <2>3 DEF saveProphecy, GetProphecy
  <2> QED
    BY <2>1, <2>4 DEF ZoneGrows
<1>3. CASE TxOutcomes(<<m>>) = {} /\ UNCHANGED <<power, lastPower, zoneVars>>
  <2>1. BridgeInv' /\ ZoneGrows /\ delivered' = delivered /\ store' = store
    BY <1>1, <1>3, QuietZone DEF zoneVars
  <2>2. Bonded(v) =>
          m \in delivered \/ (oracleId(m) \in DOMAIN store /\ IsFinal(store[oracleId(m)]))
    BY <1>1, <1>3, RefusedClaim
  <2> QED
    BY <2>1, <2>2
<1> QED
  BY <1>2, <1>3

\* A claim that leaves the mempool is on the zone, or the zone has decided; and
\* its relayer has nothing else pending.
LEMMA CommitKeeps ==
  ASSUME RelayerInv, NEW v \in Validators, Commit(v)
  PROVE  RelayerInv'
<1>1. PICK m \in mempool[v] :
        /\ mempool' = [mempool EXCEPT ![v] = @ \ {m}]
        /\ process' = [process EXCEPT ![v] = IF @ = "waiting" THEN "listening" ELSE @]
        /\ UNCHANGED <<chain, logs, faulted>>
        /\ \/ DeliverTx(<<m>>)
           \/ TxOutcomes(<<m>>) = {} /\ UNCHANGED <<power, lastPower, zoneVars>>
  BY DEF Commit
<1>2. /\ BridgeInv /\ ChainOK /\ MessagesOK /\ ProcessTypes
      /\ \A w \in Validators : ProcessOK(w) /\ NothingLost(w)
      /\ m \in Messages /\ m.validator = v /\ ValidateBasic(m) /\ RelaysLock(m)
  BY AboutOne DEF RelayerInv
<1>3. /\ BridgeInv' /\ ZoneGrows
      /\ delivered' \subseteq delivered \cup {m}
      /\ Bonded(v) =>
           m \in delivered' \/ (oracleId(m) \in DOMAIN store' /\ IsFinal(store'[oracleId(m)]))
  BY <1>1, CommittedClaim
<1>4. ChainOK' /\ LockLogs' = LockLogs /\ \A k : RelaysLock(k) => RelaysLock(k)'
  BY <1>1, <1>2, QuietChain
<1>5. /\ process' \in [Validators -> {"down", "listening", "waiting"}]
      /\ mempool' \in [Validators -> SUBSET Messages]
      /\ \A w \in Validators : w # v => process'[w] = process[w] /\ mempool'[w] = mempool[w]
      /\ mempool'[v] = {} /\ process'[v] # "waiting"
      /\ process'[v] = "down" => process[v] = "down"
      /\ \A k \in mempool[v] : k = m
  <2>1. /\ process \in [Validators -> {"down", "listening", "waiting"}]
        /\ mempool \in [Validators -> SUBSET Messages]
    BY <1>2 DEF ProcessTypes
  <2>2. \A k \in mempool[v] : k = m
    BY <1>2 DEF ProcessOK
  <2>3. mempool[v] \ {m} = {}
    BY <2>2
  <2> QED
    BY <1>1, <2>1, <2>2, <2>3
<1>6. MessagesOK'
  <2>1. \A k \in delivered' : RelaysLock(k)'
    BY <1>2, <1>3, <1>4 DEF MessagesOK
  <2>2. \A k : ValidateBasic(k) => ValidateBasic(k)'
    BY DEF ValidateBasic, IsValidEthAddress, HexPart, HexCharacters
  <2>3. \A w \in Validators : \A k \in mempool'[w] : k \in mempool[w]
    BY <1>5
  <2> QED
    BY <1>2, <1>4, <2>1, <2>2, <2>3 DEF MessagesOK
<1>7. ProcessTypes'
  BY <1>1, <1>2, <1>5 DEF ProcessTypes, LogRecords, LockLogRecords, OtherLog, EthAddresses,
     IsValidEthAddress, HexPart, HexCharacters, Messages, Amounts
<1>8. ASSUME NEW w \in Validators, w # v
      PROVE  ProcessOK(w)' /\ NothingLost(w)'
  <2>1. StandsStill(w)
    BY <1>1, <1>5, <1>8 DEF StandsStill
  <2> QED
    BY <1>1, <1>2, <1>3, <2>1, StandingStill
<1>9. ProcessOK(v)'
  BY <1>1, <1>2, <1>5 DEF ProcessOK
<1>10. NothingLost(v)'
  <2> SUFFICES ASSUME v \notin faulted, Bonded(v), NEW i \in LockLogs, Readable(chain[i])
               PROVE  SafeClaim(v, chain[i])'
    BY <1>1, <1>3, <1>4 DEF NothingLost, Bonded, Readable, ZoneGrows
  <2> DEFINE log == chain[i]
             k   == ParsePayload(v, log)
  <2>1. SafeClaim(v, log)
    BY <1>2 DEF NothingLost
  <2>2. log' = log
    BY <1>1
  <2>3. oracleId(k) = IdOf(log)
    BY <1>2, LogsAreLocks
  <2> HIDE DEF log
  <2>4. Pending(v, log) => SafeClaim(v, log)'
    <3> SUFFICES ASSUME k \in mempool[v] PROVE SafeClaim(v, log)'
      BY DEF Pending
    <3>1. k = m
      BY <1>5
    <3>2. CASE m \in delivered'
      BY <2>2, <3>1, <3>2 DEF SafeClaim, Claimed, ParsePayload, CoinsOf
    <3>3. CASE oracleId(m) \in DOMAIN store' /\ IsFinal(store'[oracleId(m)])
      <4>1. IdOf(log) \in DOMAIN store' /\ IsFinal(store'[IdOf(log)])
        BY <2>3, <3>1, <3>3
      <4> QED
        BY <2>2, <4>1 DEF SafeClaim, Decided, IdOf, IsFinal, SuccessStatusText, FailedStatusText
    <3> QED
      BY <1>3, <3>2, <3>3
  <2>5. log \in ToSet(logs[v]) => log \in ToSet(logs'[v])
    BY <1>1
  <2>6. SafeClaim(v, log)'
    BY <1>3, <2>1, <2>2, <2>4, <2>5, SafeClaimKeeps
  <2> QED
    BY <2>6 DEF log
<1> QED
  BY <1>3, <1>4, <1>6, <1>7, <1>8, <1>9, <1>10 DEF RelayerInv

-----------------------------------------------------------------------------
(* The invariant.                                                           *)

\* At the start there is nothing on either chain and every relayer listens.
LEMMA RelayerInvInit == RelayerInit => RelayerInv
<1> SUFFICES ASSUME RelayerInit PROVE RelayerInv
  OBVIOUS
<1>1. /\ BridgeInit /\ chain = << >> /\ faulted = {} /\ delivered = {}
      /\ process = [v \in Validators |-> "listening"]
      /\ logs = [v \in Validators |-> << >>]
      /\ mempool = [v \in Validators |-> {}]
  BY DEF RelayerInit, BridgeInit
<1>2. BridgeInv
  BY <1>1, BridgeInvInit
<1>3. chain \in Seq(LogRecords) /\ Len(chain) = 0 /\ DOMAIN chain = {}
  BY <1>1, EmptySeq
<1>4. LockLogs = {}
  BY <1>3 DEF LockLogs
<1>5. ChainOK
  BY <1>3, <1>4, MaxLogsAssumption DEF ChainOK
<1>6. MessagesOK
  BY <1>1 DEF MessagesOK
<1>7. ProcessTypes
  <2>1. << >> \in Seq(LogRecords)
    BY EmptySeq
  <2> QED
    BY <1>1, <2>1 DEF ProcessTypes
<1>8. \A v \in Validators : ProcessOK(v)
  <2>1. ToSet(<< >>) = {}
    BY EmptySeq DEF ToSet
  <2> QED
    BY <1>1, <2>1 DEF ProcessOK
<1>9. \A v \in Validators : NothingLost(v)
  BY <1>4 DEF NothingLost
<1> QED
  BY <1>2, <1>5, <1>6, <1>7, <1>8, <1>9 DEF RelayerInv

\* Nothing changes when no variable does.
LEMMA RelayerInvStutters ==
  ASSUME RelayerInv, UNCHANGED relayerVars
  PROVE  RelayerInv'
<1>1. UNCHANGED <<power, lastPower, zoneVars, chain, process, logs, mempool, faulted>>
  BY DEF relayerVars
<1>2. /\ BridgeInv /\ ChainOK /\ MessagesOK /\ ProcessTypes
      /\ \A w \in Validators : ProcessOK(w) /\ NothingLost(w)
  BY DEF RelayerInv
<1>3. BridgeInv' /\ ZoneGrows
  BY <1>1, <1>2, QuietZone
<1>4. ChainOK' /\ \A k : RelaysLock(k) => RelaysLock(k)'
  BY <1>1, <1>2, QuietChain
<1>5. MessagesOK'
  <2>1. \A k : ValidateBasic(k) => ValidateBasic(k)'
    BY DEF ValidateBasic, IsValidEthAddress, HexPart, HexCharacters
  <2> QED
    BY <1>1, <1>2, <1>4, <2>1 DEF MessagesOK, zoneVars
<1>6. ProcessTypes'
  BY <1>1, <1>2 DEF ProcessTypes, LogRecords, LockLogRecords, OtherLog, EthAddresses,
     IsValidEthAddress, HexPart, HexCharacters, Messages, Amounts
<1>7. \A w \in Validators : ProcessOK(w)' /\ NothingLost(w)'
  BY <1>1, <1>2, <1>3, StandingStill DEF StandsStill
<1> QED
  BY <1>3, <1>4, <1>5, <1>6, <1>7 DEF RelayerInv

\* No step of contract, relayers or zone breaks the invariant.
LEMMA RelayerInvStep == RelayerInv /\ [RelayerNext]_relayerVars => RelayerInv'
<1> SUFFICES ASSUME RelayerInv, [RelayerNext]_relayerVars PROVE RelayerInv'
  OBVIOUS
<1>1. CASE Contract
  BY <1>1, EmitKeeps DEF Contract, IsNext
<1>2. ASSUME NEW v \in Validators,
             \/ Handle(v) \/ Commit(v) \/ RelayFails(v) \/ TimeOut(v) \/ Die(v)
             \/ InitRelayer(v)
      PROVE  RelayerInv'
  BY <1>2, SkipLogKeeps, RelayEventKeeps, CommitKeeps, FaultKeeps, InitRelayerKeeps DEF Handle
<1>3. CASE UNCHANGED relayerVars
  BY <1>3, RelayerInvStutters
<1> QED
  BY <1>1, <1>2, <1>3 DEF RelayerNext

\* The invariant of both chains and the relayers between them.
LEMMA RelayerInvHolds == RelayerSpec => []RelayerInv
BY RelayerInvInit, RelayerInvStep, PTL DEF RelayerSpec
-----------------------------------------------------------------------------
\* A relayer waits for a claim of its own that is still pending, and has at most
\* one claim pending, whatever faults it meets.
THEOREM RelayersTypeCorrect == RelayerSpec => []RelayerTypeOK
<1>1. RelayerInv => RelayerTypeOK
  <2> SUFFICES ASSUME RelayerInv PROVE RelayerTypeOK
    OBVIOUS
  <2>1. BridgeTypeOK
    BY DEF RelayerInv, BridgeInv, BridgeTypeOK, Sound, ChainStates, ChainState
  <2>2. ASSUME NEW v \in Validators
        PROVE  /\ process[v] \in {"down", "listening", "waiting"}
               /\ process[v] = "waiting" => mempool[v] # {}
               /\ process[v] = "down" => logs[v] = << >>
               /\ \A m \in mempool[v] : m \in Messages /\ m.validator = v
    BY AboutOne DEF ProcessOK
  <2>3. ASSUME NEW v \in Validators
        PROVE  Cardinality(mempool[v]) <= 1
    <3>1. mempool[v] = {} \/ \E m : mempool[v] = {m}
      <4>1. \A m, n \in mempool[v] : m = n
        BY AboutOne DEF ProcessOK
      <4>2. ASSUME NEW m \in mempool[v] PROVE mempool[v] = {m}
        BY <4>1
      <4> QED
        BY <4>2
    <3>2. Cardinality({}) = 0 /\ \A m : Cardinality({m}) = 1
      BY FS_EmptySet, FS_Singleton
    <3>3. Cardinality(mempool[v]) = 0 \/ Cardinality(mempool[v]) = 1
      BY <3>1, <3>2
    <3> QED
      BY <3>3
  <2>4. ASSUME NEW v \in Validators
        PROVE  \A i \in DOMAIN logs[v] : logs[v][i] \in ToSet(chain)
    <3>1. ToSet(logs[v]) \subseteq ToSet(chain)
      BY AboutOne DEF ProcessOK
    <3>2. \A i \in DOMAIN logs[v] : logs[v][i] \in ToSet(logs[v])
      BY DEF ToSet
    <3> QED
      BY <3>1, <3>2
  <2> QED
    BY <2>1, <2>2, <2>3, <2>4 DEF RelayerTypeOK
<1> QED
  BY <1>1, RelayerInvHolds, PTL

\* A relayer without a fault loses no claim, although it drops every error.
THEOREM ClaimsAreNotLost == RelayerSpec => []NoClaimIsLost
<1>1. RelayerInv => NoClaimIsLost
  BY DEF RelayerInv, NoClaimIsLost, NothingLost, SafeClaim
<1> QED
  BY <1>1, RelayerInvHolds, PTL

-----------------------------------------------------------------------------
(* The ledger.                                                              *)

\* The final claim of every success is the claim about a lock.
VerdictsTrue ==
  \A id \in Succeeded : \E i \in LockLogs :
    /\ IdOf(chain[i]) = id /\ store[id].finalClaim = ClaimOf(chain[i])
    /\ chain[i].to \in Accounts /\ CoinsOf(chain[i].value) \in Nat

\* The parser loses nothing of what coins can hold.
LEMMA NothingIsCut ==
  ASSUME ChainOK, LocksAreHoldable, NEW i \in LockLogs
  PROVE  CoinsOf(chain[i].value) = chain[i].value
<1>1. Holdable(chain[i].value)
  BY DEF ChainOK
<1> QED
  BY <1>1 DEF Holdable, CoinsOf

\* The successes of the zone are locks of the chain.
LEMMA VerdictsAreTrue == RelayerInv => VerdictsTrue
BY VerdictsAreLocks DEF RelayerInv, VerdictsTrue

\* A lock that has been minted is the one the verdict is about.
LEMMA MintedIsVerdict ==
  ASSUME RelayerInv, NEW i \in Minted
  PROVE  /\ IdOf(chain[i]) \in Succeeded
         /\ store[IdOf(chain[i])].finalClaim = ClaimOf(chain[i])
         /\ chain[i].to \in Accounts /\ CoinsOf(chain[i].value) \in Nat
<1> DEFINE id == IdOf(chain[i])
<1>1. i \in LockLogs /\ id \in Succeeded
  BY DEF Minted
<1>2. PICK j \in LockLogs :
        /\ IdOf(chain[j]) = id /\ store[id].finalClaim = ClaimOf(chain[j])
        /\ chain[j].to \in Accounts /\ CoinsOf(chain[j].value) \in Nat
  BY <1>1, VerdictsAreTrue DEF VerdictsTrue
<1>3. i = j
  BY <1>1, <1>2, OneLockPerId DEF RelayerInv
<1> QED
  BY <1>1, <1>2, <1>3

\* If coins can hold whatever is locked, the coins of an account are the values
\* locked for it, of the locks that have been accepted, each once: a verdict of
\* the zone is the claim about exactly one lock of the contract, and claims its
\* whole value.
THEOREM CoinsAreLocks == LocksAreHoldable /\ RelayerSpec => []BalancesAreLocks
<1> SUFFICES ASSUME LocksAreHoldable PROVE RelayerSpec => []BalancesAreLocks
  OBVIOUS
<1>1. RelayerInv => BalancesAreLocks
  <2> SUFFICES ASSUME RelayerInv, NEW a \in Accounts
               PROVE  balances[a] = SumFunctionOnSet([i \in Minted |-> chain[i].value],
                                                     {i \in Minted : chain[i].to = a})
    BY DEF BalancesAreLocks
  <2> DEFINE f == [i \in Minted |-> chain[i].value]
             g == AmountsIn(store)
             S == {i \in Minted : chain[i].to = a}
             T == PaidTo(store, a)
             h == [i \in S |-> IdOf(chain[i])]
  <2>1. balances[a] = SumFunctionOnSet(g, T)
    BY DEF RelayerInv, BridgeInv, Sound, IsPaidUp, ChainState
  <2>2. SucceededIn(store) = Succeeded
    BY DEF SucceededIn, Succeeded
  <2>3. S \subseteq LockLogs /\ IsFiniteSet(S)
    <3>1. S \subseteq LockLogs
      BY DEF Minted
    <3>2. IsFiniteSet(LockLogs)
      BY LocksAreCounted DEF RelayerInv
    <3> QED
      BY <3>1, <3>2, FS_Subset
  <2>4. ASSUME NEW i \in S
        PROVE  IdOf(chain[i]) \in T /\ f[i] \in Nat /\ g[IdOf(chain[i])] = f[i]
    <3> DEFINE id == IdOf(chain[i])
    <3>1. /\ id \in Succeeded /\ store[id].finalClaim = ClaimOf(chain[i])
          /\ CoinsOf(chain[i].value) \in Nat /\ chain[i].to = a
      BY MintedIsVerdict
    <3> HIDE DEF id
    <3>2. id \in T
      BY <2>2, <3>1 DEF PaidTo, ClaimOf
    <3>3. g[id] = CoinsOf(chain[i].value)
      BY <2>2, <3>1 DEF AmountsIn, ClaimOf
    <3>4. f[i] = CoinsOf(chain[i].value)
      BY NothingIsCut DEF RelayerInv, Minted
    <3> QED
      BY <3>1, <3>2, <3>3, <3>4 DEF id
  <2>5. \A i, j \in S : IdOf(chain[i]) = IdOf(chain[j]) => i = j
    BY <2>3, OneLockPerId DEF RelayerInv
  <2>6. ASSUME NEW id \in T
        PROVE  \E i \in S : IdOf(chain[i]) = id
    <3>1. id \in Succeeded /\ store[id].finalClaim.cosmos_receiver = a
      BY <2>2, <2>6 DEF PaidTo
    <3>2. PICK i \in LockLogs : IdOf(chain[i]) = id /\ store[id].finalClaim = ClaimOf(chain[i])
      BY <3>1, VerdictsAreTrue DEF VerdictsTrue
    <3>3. i \in Minted /\ chain[i].to = a
      BY <3>1, <3>2 DEF Minted, ClaimOf
    <3> QED
      BY <3>2, <3>3
  <2> HIDE DEF f, g, S, T
  <2>7. h \in [S -> T]
    BY <2>4
  <2>8. /\ \A i, j \in S : h[i] = h[j] => i = j
        /\ \A id \in T : \E i \in S : h[i] = id
        /\ \A i \in S : f[i] \in Nat /\ g[h[i]] = f[i]
    BY <2>4, <2>5, <2>6
  <2> HIDE DEF h
  <2>9. h \in Bijection(S, T)
    BY <2>7, <2>8 DEF Bijection, Injection, Surjection, IsInjective
  <2>10. SumFunctionOnSet(f, S) = SumFunctionOnSet(g, T)
    BY <2>3, <2>8, <2>9, SumRenamed
  <2> QED
    BY <2>1, <2>10 DEF f, S
<1> QED
  BY <1>1, RelayerInvHolds, PTL

-----------------------------------------------------------------------------
(* Refinement.                                                              *)

\* The locks of the ledger, as the contract has logged them.
LockTable == [i \in LockLogs |-> [to |-> chain[i].to, amount |-> chain[i].value]]

\* A new lock has a new id.
LEMMA NewIdIsNew ==
  ASSUME ChainOK, NEW log, IsNext(log), IsLock(log), Len(chain) < MaxLogs, NEW i \in LockLogs
  PROVE  IdOf(chain[i]) # IdOf(log)
<1> DEFINE k == Cardinality(LockLogs)
           m == chain[i].nonce
           s == chain[i].ethereum_sender
           n == log.nonce
           t == log.ethereum_sender
<1>1. k \in Nat
  BY LocksAreCounted
<1>2. PICK lock \in Locks : log = LogLock(lock)
  BY DEF IsNext, OtherLog, IsLock
<1>3. n = k + 1 /\ t \in EthAddresses
  BY <1>2, LocksAssumption DEF LogLock
<1>4. m \in 1..k
  BY DEF ChainOK
<1>5. s \in EthAddresses
  <2> DEFINE old == chain[i]
  <2>1. old \in LogRecords /\ IsLock(old)
    BY LocksAreCounted, ElementOfSeq DEF ChainOK, LockLogs
  <2> HIDE DEF old
  <2>2. old \in LockLogRecords
    BY <2>1 DEF LogRecords, OtherLog, IsLock
  <2>3. old.ethereum_sender \in EthAddresses
    BY <2>2 DEF LockLogRecords
  <2> QED
    BY <2>3 DEF old
<1>6. IdOf(chain[i]) = Itoa[m] \o s /\ IdOf(log) = Itoa[n] \o t
  BY DEF IdOf
<1> HIDE DEF k, m, s, n, t
<1>7. m \in Nat /\ n \in Nat /\ m # n
  <2>1. m \in Nat /\ m <= k
    BY <1>1, <1>4
  <2>2. n \in Nat /\ n > k
    BY <1>1, <1>3
  <2> QED
    BY <1>1, <2>1, <2>2
<1>8. Itoa[m] \o s # Itoa[n] \o t
  <2> SUFFICES ASSUME SameId(m, s, n, t) PROVE FALSE
    BY DEF SameId
  <2>1. m \in Nat /\ n \in Nat /\ s \in EthAddresses /\ t \in EthAddresses
    BY <1>3, <1>5, <1>7
  <2>2. m = n
    BY <2>1, OneIdPerLock
  <2> QED
    BY <1>7, <2>2
<1> QED
  BY <1>6, <1>8

\* A log of the contract makes a lock, if it is the log of one.
LEMMA EmitImplements ==
  ASSUME RelayerInv, NEW log, IsNext(log), Emit(log)
  PROVE  [Ledger!LedgerNext]_Ledger!ledgerVars
<1>1. /\ Len(chain) < MaxLogs /\ chain' = Append(chain, log)
      /\ store' = store /\ balances' = balances
  BY DEF Emit, zoneVars
<1>2. ChainOK
  BY DEF RelayerInv
<1> DEFINE n == Len(chain) + 1
<1>3. /\ \A i \in LockLogs : i \in LockLogs' /\ chain'[i] = chain[i]
      /\ LockLogs' = IF IsLock(log) THEN LockLogs \cup {n} ELSE LockLogs
      /\ chain'[n] = log /\ n \notin LockLogs
  BY <1>1, <1>2, ChainGrows
<1>4. Succeeded' = Succeeded
  BY <1>1 DEF Succeeded, SuccessStatusText
<1>5. \A i \in LockLogs : IdOf(chain[i])' = IdOf(chain[i])
  BY <1>3 DEF IdOf
<1>6. IsLock(log) => IdOf(chain'[n]) \notin Succeeded
  <2> SUFFICES ASSUME IsLock(log), IdOf(log) \in Succeeded PROVE FALSE
    BY <1>3
  <2>1. PICK i \in LockLogs : IdOf(chain[i]) = IdOf(log)
    BY VerdictsAreTrue DEF VerdictsTrue
  <2> QED
    BY <1>1, <1>2, <2>1, NewIdIsNew
<1>7. Minted' = Minted
  BY <1>3, <1>4, <1>5, <1>6 DEF Minted, IdOf
<1>8. DOMAIN LockTable = LockLogs /\ DOMAIN LockTable' = LockLogs'
  BY DEF LockTable
<1>9. \A i \in LockLogs : LockTable'[i] = LockTable[i]
  BY <1>3 DEF LockTable
<1> HIDE DEF n
<1>10. CASE IsLock(log)
  <2>1. \E i \in DOMAIN LockTable' :
          i \notin DOMAIN LockTable /\ DOMAIN LockTable' = DOMAIN LockTable \cup {i}
    BY <1>3, <1>8, <1>10
  <2>2. \A i \in DOMAIN LockTable : LockTable'[i] = LockTable[i]
    BY <1>8, <1>9
  <2>3. Ledger!Lock
    BY <1>1, <1>7, <2>1, <2>2 DEF Ledger!Lock, LockTable
  <2> QED
    BY <2>3 DEF Ledger!LedgerNext
<1>11. CASE ~IsLock(log)
  <2>1. LockLogs' = LockLogs
    BY <1>3, <1>11
  <2>2. LockTable' = LockTable
    BY <1>3, <2>1 DEF LockTable
  <2>3. UNCHANGED Ledger!ledgerVars
    BY <1>1, <1>7, <2>2 DEF Ledger!ledgerVars, LockTable
  <2> QED
    BY <2>3
<1> QED
  BY <1>10, <1>11

\* A step that leaves the chain, the store and the balances alone.
LEMMA QuietImplements ==
  ASSUME UNCHANGED <<chain, store, balances>>
  PROVE  UNCHANGED Ledger!ledgerVars
<1>1. LockLogs' = LockLogs
  BY DEF LockLogs, IsLock
<1>2. Minted' = Minted
  BY <1>1 DEF Minted, Succeeded, IdOf, SuccessStatusText
<1> QED
  BY <1>1, <1>2 DEF Ledger!ledgerVars

\* A claim that makes its prophecy successful pays the value of the lock it is
\* about, and that has not been paid; no other claim does anything to the ledger.
LEMMA CommitImplements ==
  ASSUME LocksAreHoldable, RelayerInv, VerdictsTrue', NEW v \in Validators, Commit(v)
  PROVE  [Ledger!LedgerNext]_Ledger!ledgerVars
<1>1. PICK m \in mempool[v] :
        /\ UNCHANGED chain
        /\ DeliverTx(<<m>>) \/ UNCHANGED <<power, lastPower, zoneVars>>
  BY DEF Commit
<1>2. ChainOK /\ BridgeInv /\ m \in Messages /\ m.validator = v /\ RelaysLock(m)
  BY AboutOne DEF RelayerInv
<1>3. CASE UNCHANGED <<power, lastPower, zoneVars>>
  BY <1>1, <1>3, QuietImplements DEF zoneVars
<1>4. CASE DeliverTx(<<m>>)
  <2> DEFINE id == oracleId(m)
  <2>1. PICK q : Leaves(m, q)
    BY <1>2, <1>4, DeliveredClaim
  <2>2. /\ store' = saveProphecy(store, id, q) /\ ~IsFinal(GetProphecy(store, id))
        /\ \/ q.statusText # SuccessStatusText /\ balances' = balances
           \/ /\ q.statusText = SuccessStatusText
              /\ balances' = [balances EXCEPT
                                ![q.finalClaim.cosmos_receiver] = @ + q.finalClaim.amount]
    BY <2>1 DEF Leaves, Completes, ChainState
  <2>3. PICK j \in LockLogs : m = ParsePayload(v, chain[j])
    BY <1>2 DEF RelaysLock
  <2>4. IdOf(chain[j]) = id
    BY <1>2, <2>3, LogsAreLocks
  <2> HIDE DEF id
  <2>5. /\ SucceededIn(store) = Succeeded
        /\ SucceededIn(store') = Succeeded'
    BY DEF SucceededIn, Succeeded, SuccessStatusText
  <2>6. /\ id \notin Succeeded
        /\ q.statusText # SuccessStatusText => Succeeded' = Succeeded
        /\ q.statusText = SuccessStatusText => Succeeded' = Succeeded \cup {id}
        /\ store'[id] = q
    BY <2>2, <2>5, SuccessesAfterMessage
  <2>7. LockLogs' = LockLogs /\ (\A i \in LockLogs : IdOf(chain[i])' = IdOf(chain[i]))
    BY <1>1 DEF LockLogs, IsLock, IdOf
  <2>8. LockTable' = LockTable /\ DOMAIN LockTable = LockLogs
    BY <1>1, <2>7 DEF LockTable
  <2>9. CASE q.statusText # SuccessStatusText
    <3>1. Minted' = Minted
      BY <2>6, <2>7, <2>9 DEF Minted
    <3>2. UNCHANGED Ledger!ledgerVars
      BY <2>2, <2>8, <2>9, <3>1 DEF Ledger!ledgerVars, LockTable
    <3> QED
      BY <3>2
  <2>10. CASE q.statusText = SuccessStatusText
    <3>1. j \notin Minted
      BY <2>4, <2>6 DEF Minted
    <3>2. Minted' = Minted \cup {j}
      <4>1. \A i \in LockLogs : IdOf(chain[i]) = id <=> i = j
        BY <1>2, <2>4, OneLockPerId
      <4> QED
        BY <2>6, <2>7, <2>10, <4>1 DEF Minted
    <3>3. PICK i \in LockLogs :
            /\ IdOf(chain[i]) = id /\ q.finalClaim = ClaimOf(chain[i])
            /\ chain[i].to \in Accounts
      <4>1. id \in Succeeded'
        BY <2>6, <2>10
      <4>2. \E i \in LockLogs' :
              /\ IdOf(chain'[i]) = id /\ store'[id].finalClaim = ClaimOf(chain'[i])
              /\ chain'[i].to \in Accounts
        BY <4>1 DEF VerdictsTrue, IdOf, ClaimOf, CoinsOf
      <4> QED
        BY <1>1, <2>6, <2>7, <4>2
    <3>4. i = j
      BY <1>2, <2>4, <3>3, OneLockPerId
    <3>5. LockTable[j].to = chain[j].to /\ LockTable[j].amount = CoinsOf(chain[j].value)
      BY <1>2, NothingIsCut DEF LockTable
    <3>6. q.finalClaim.cosmos_receiver = chain[j].to /\ q.finalClaim.amount = CoinsOf(chain[j].value)
      BY <3>3, <3>4 DEF ClaimOf
    <3>7. /\ LockTable[j].to \in Accounts
          /\ balances' = [balances EXCEPT ![LockTable[j].to] = @ + LockTable[j].amount]
      BY <2>2, <2>10, <3>3, <3>4, <3>5, <3>6
    <3>8. Ledger!Mint(j)
      BY <2>8, <3>1, <3>2, <3>7 DEF Ledger!Mint, LockTable
    <3> QED
      BY <2>8, <3>8 DEF Ledger!LedgerNext, LockTable
  <2> QED
    BY <2>9, <2>10
<1> QED
  BY <1>1, <1>3, <1>4

\* The ledger starts empty.
LEMMA LedgerStarts == RelayerInit => Ledger!LedgerInit
<1> SUFFICES ASSUME RelayerInit PROVE Ledger!LedgerInit
  OBVIOUS
<1>1. DOMAIN chain = {} /\ balances = [a \in Accounts |-> 0]
  BY EmptySeq DEF RelayerInit, BridgeInit
<1>2. LockLogs = {} /\ Minted = {}
  BY <1>1 DEF LockLogs, Minted
<1> QED
  BY <1>1, <1>2 DEF Ledger!LedgerInit

\* Every step locks, mints one lock, or does nothing to the ledger.
LEMMA LedgerStep ==
  ASSUME LocksAreHoldable, RelayerInv, VerdictsTrue', [RelayerNext]_relayerVars
  PROVE  [Ledger!LedgerNext]_Ledger!ledgerVars
<1>1. CASE Contract
  BY <1>1, EmitImplements DEF Contract, IsNext
<1>2. ASSUME NEW v \in Validators, Commit(v)
      PROVE  [Ledger!LedgerNext]_Ledger!ledgerVars
  BY <1>2, CommitImplements
<1>3. ASSUME NEW v \in Validators,
             Handle(v) \/ RelayFails(v) \/ TimeOut(v) \/ Die(v) \/ InitRelayer(v)
      PROVE  UNCHANGED <<chain, store, balances>>
  BY <1>3 DEF Handle, SkipLog, RelayEvent, RelayFails, TimeOut, Die, InitRelayer, zoneVars
<1>4. CASE UNCHANGED relayerVars
  <2>1. UNCHANGED <<chain, store, balances>>
    BY <1>4 DEF relayerVars, zoneVars
  <2> QED
    BY <2>1, QuietImplements
<1> QED
  BY <1>1, <1>2, <1>3, <1>4, QuietImplements DEF RelayerNext

\* If coins can hold whatever is locked, contract, relayers and zone together
\* keep the ledger a user is promised: every lock stays made, and is paid once,
\* its whole value, in one step, or not at all.
THEOREM BridgeKeepsTheLedger == LocksAreHoldable /\ RelayerSpec => ImplementsLedger
<1> SUFFICES ASSUME LocksAreHoldable PROVE RelayerSpec => ImplementsLedger
  OBVIOUS
<1>1. RelayerSpec => []VerdictsTrue
  BY VerdictsAreTrue, RelayerInvHolds, PTL
<1>2. RelayerInv /\ VerdictsTrue' /\ [RelayerNext]_relayerVars
        => [Ledger!LedgerNext]_Ledger!ledgerVars
  BY LedgerStep
<1> QED
  BY <1>1, <1>2, RelayerInvHolds, LedgerStarts, PTL
     DEF RelayerSpec, ImplementsLedger, Ledger!LedgerSpec
=============================================================================
