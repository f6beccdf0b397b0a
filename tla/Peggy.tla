-------------------------------- MODULE Peggy -------------------------------
(***************************************************************************)
(* The contract that locks ether and ERC20 tokens on Ethereum:             *)
(* ethereum-contracts/contracts/Peggy.sol and the Processor.sol it         *)
(* extends.                                                                *)
(*                                                                         *)
(* An ether payment runs to its end in one step (transfer() forwards too   *)
(* little gas for the receiver to call back).  A token is a contract of    *)
(* somebody else: while it executes transfer or transferFrom it may run    *)
(* code of an account, which may call Peggy again.  Such a call is two     *)
(* steps, before and after the token, and calls is the stack of those      *)
(* that wait for their token.                                              *)
(***************************************************************************)
EXTENDS Integers, Sequences, SequencesExt, FiniteSets, Functions

CONSTANTS
  Users,       \* accounts that own funds
  contract,    \* the address of the contract
  relayer,     \* the account that deployed it
  Ether,       \* token address 0
  Tokens,      \* ERC20 contracts
  Reentrant,   \* the users whose code a token runs during a transfer
  Amounts,     \* amounts users try to lock
  InitialFunds,\* what every user owns of every currency
  NonceBits,   \* width of the nonce (256 in the contract)
  MaxLocks,    \* bound on the locks of a behaviour
  MaxDepth     \* bound on the depth of nested calls

Currencies == Tokens \cup {Ether}
Accounts   == Users \cup {contract}

ASSUME AddressAssumption == contract \notin Users /\ Ether \notin Tokens /\ Reentrant \subseteq Users
ASSUME AmountAssumption  == Amounts \subseteq Nat /\ InitialFunds \in Nat
ASSUME BoundAssumption   ==
  NonceBits \in Nat \ {0} /\ MaxLocks \in Nat /\ MaxDepth \in Nat \ {0}

\* The nonce does not run out.  The calls that wait read it after availableNonce
\* was checked, so there is one nonce more for each of them.
ASSUME NonceAssumption == MaxLocks + MaxDepth < 2^NonceBits

VARIABLES
  active,    \* locking is not paused
  nonce,     \* of the last item created
  items,     \* the items created: id -> is it locked
  holdings,  \* [Currencies -> [Accounts -> Nat]]
  log,       \* the LogLock, LogUnlock and LogWithdraw events, oldest first
  calls,     \* the calls that wait for a token, innermost last
  donated    \* ghost: [Tokens -> [Users -> Nat]], tokens sent without a call

vars == <<active, nonce, items, holdings, log, calls, donated>>

\* An id is the hash of the fields of its item, the nonce among them.  The
\* recipient is carried along and never looked at.
ItemIds == [sender : Users, token : Currencies, amount : Nat, nonce : Nat]

-----------------------------------------------------------------------------
(* Guards (the modifiers of the contract) and effects.                      *)

successor(n) == (n + 1) % 2^NonceBits

availableNonce == successor(nonce) > nonce

\* A bug that takes an item that exists for one that is locked.
isLocked_Exists(id) == id \in DOMAIN items

isLocked(id) == id \in DOMAIN items /\ items[id]

canDeliver(id) == holdings[id.token][contract] >= id.amount

\* Who may run code of Peggy now: anybody at the start of a transaction, and
\* a user whose code a token runs inside one.
MayCall(u) == calls = << >> \/ (u \in Reentrant /\ Len(calls) < MaxDepth)

Move(h, token, from, to, amount) ==
  [h EXCEPT ![token][from] = @ - amount, ![token][to] = @ + amount]

\* processor.create, and the event lock emits after it.  The nonce is read here
\* and not when the call began.
Create(sender, token, amount, lastNonce) ==
  LET id == [sender |-> sender, token |-> token, amount |-> amount,
             nonce |-> successor(lastNonce)]
  IN /\ nonce' = successor(lastNonce)
     /\ items' = [i \in DOMAIN items \cup {id} |-> IF i = id THEN TRUE ELSE items[i]]
     /\ log' = Append(log, [event |-> "LogLock", id |-> id])

\* The state a failing call goes back to, and a call that waits for a token.
State == [active |-> active, nonce |-> nonce, items |-> items,
          holdings |-> holdings, log |-> log]

Waiting(op, id, moved) == [op |-> op, id |-> id, moved |-> moved, before |-> State]

\* The token moves the funds before or after it runs foreign code.
TokenMoves(moved, token, from, to, amount) ==
  IF moved
  THEN holdings[token][from] >= amount /\ holdings' = Move(holdings, token, from, to, amount)
  ELSE UNCHANGED holdings

TokenHasMoved(moved, token, from, to, amount) == TokenMoves(~moved, token, from, to, amount)

-----------------------------------------------------------------------------
(* lock                                                                     *)

LockChecks(u) == MayCall(u) /\ availableNonce /\ active /\ nonce < MaxLocks

\* msg.value # 0: the token must be address 0 and the value the amount.
LockEther(u, amount) ==
  /\ LockChecks(u)
  /\ amount > 0
  /\ holdings[Ether][u] >= amount
  /\ holdings' = Move(holdings, Ether, u, contract, amount)
  /\ Create(u, Ether, amount, nonce)
  /\ UNCHANGED <<active, calls, donated>>

\* msg.value = 0: the modifiers, then transferFrom is called ...
LockToken(u, token, amount) ==
  /\ LockChecks(u)
  /\ \E moved \in BOOLEAN :
       /\ TokenMoves(moved, token, u, contract, amount)
       /\ calls' = Append(calls,
            Waiting("lock", [sender |-> u, token |-> token, amount |-> amount, nonce |-> 0], moved))
  /\ UNCHANGED <<active, nonce, items, log, donated>>

\* A bug that uses the nonce read when the call began.
LockTokenReturns_StaleNonce ==
  /\ calls # << >>
  /\ LET call == Last(calls) IN
       /\ call.op = "lock"
       /\ TokenHasMoved(call.moved, call.id.token, call.id.sender, contract, call.id.amount)
       /\ Create(call.id.sender, call.id.token, call.id.amount, call.before.nonce)
  /\ calls' = Front(calls)
  /\ UNCHANGED <<active, donated>>

\* A bug that ignores what transferFrom returned.
LockTokenReturns_Unchecked ==
  /\ calls # << >>
  /\ LET call == Last(calls) IN
       /\ call.op = "lock"
       /\ UNCHANGED holdings
       /\ Create(call.id.sender, call.id.token, call.id.amount, nonce)
  /\ calls' = Front(calls)
  /\ UNCHANGED <<active, donated>>

\* ... and when it has returned true the item is created.
LockTokenReturns ==
  /\ calls # << >>
  /\ LET call == Last(calls) IN
       /\ call.op = "lock"
       /\ TokenHasMoved(call.moved, call.id.token, call.id.sender, contract, call.id.amount)
       /\ Create(call.id.sender, call.id.token, call.id.amount, nonce)
  /\ calls' = Front(calls)
  /\ UNCHANGED <<active, donated>>

-----------------------------------------------------------------------------
(* unlock and withdraw, which share Processor.complete                      *)

\* A bug that takes the item as it comes, paid out or not.
MayComplete_AnyItem(op, u, id) ==
  /\ MayCall(u)
  /\ op = "unlock" => u = relayer
  /\ op = "withdraw" => u = id.sender

MayComplete(op, u, id) ==
  /\ MayCall(u)
  /\ op = "unlock" => u = relayer
  /\ op = "withdraw" => u = id.sender
  /\ canDeliver(id)
  /\ isLocked(id)

EventOf(op) == IF op = "unlock" THEN "LogUnlock" ELSE "LogWithdraw"

CompleteEther(op, u, id) ==
  /\ id.token = Ether
  /\ MayComplete(op, u, id)
  /\ items' = [items EXCEPT ![id] = FALSE]
  /\ holdings' = Move(holdings, Ether, contract, id.sender, id.amount)
  /\ log' = Append(log, [event |-> EventOf(op), id |-> id])
  /\ UNCHANGED <<active, nonce, calls, donated>>

\* A bug that updates the lock only after the payment.
CompleteToken_UnlocksLater(op, u, id) ==
  /\ id.token # Ether
  /\ MayComplete(op, u, id)
  /\ \E moved \in BOOLEAN :
       /\ TokenMoves(moved, id.token, contract, id.sender, id.amount)
       /\ calls' = Append(calls, Waiting(op, id, moved))
  /\ UNCHANGED <<active, nonce, items, log, donated>>

\* The item is unlocked before the token is called ...
CompleteToken(op, u, id) ==
  /\ id.token # Ether
  /\ MayComplete(op, u, id)
  /\ items' = [items EXCEPT ![id] = FALSE]
  /\ \E moved \in BOOLEAN :
       /\ TokenMoves(moved, id.token, contract, id.sender, id.amount)
       /\ calls' = Append(calls, Waiting(op, id, moved))
  /\ UNCHANGED <<active, nonce, log, donated>>

\* ... and the event is emitted when it has returned true.
CompleteTokenReturns ==
  /\ calls # << >>
  /\ LET call == Last(calls) IN
       /\ call.op \in {"unlock", "withdraw"}
       /\ TokenHasMoved(call.moved, call.id.token, contract, call.id.sender, call.id.amount)
       /\ log' = Append(log, [event |-> EventOf(call.op), id |-> call.id])
  /\ calls' = Front(calls)
  /\ UNCHANGED <<active, nonce, items, donated>>

-----------------------------------------------------------------------------
\* A call that waits for its token fails (the token returns false or reverts,
\* or the gas runs out): everything since its start is undone.
Revert ==
  /\ calls # << >>
  /\ LET before == Last(calls).before IN
       /\ active' = before.active
       /\ nonce' = before.nonce
       /\ items' = before.items
       /\ holdings' = before.holdings
       /\ log' = before.log
  /\ calls' = Front(calls)
  /\ UNCHANGED donated

SetLocking(value) ==
  /\ MayCall(relayer)
  /\ active = ~value
  /\ active' = value
  /\ UNCHANGED <<nonce, items, holdings, log, calls, donated>>

pauseLocking    == SetLocking(FALSE)
activateLocking == SetLocking(TRUE)

\* A user sends tokens to the address of the contract without calling it.
Donate(u, token, amount) ==
  /\ calls = << >>
  /\ amount > 0
  /\ holdings[token][u] >= amount
  /\ holdings' = Move(holdings, token, u, contract, amount)
  /\ donated' = [donated EXCEPT ![token][u] = @ + amount]
  /\ UNCHANGED <<active, nonce, items, log, calls>>

Init ==
  /\ active = TRUE
  /\ nonce = 0
  /\ items = [id \in {} |-> FALSE]
  /\ holdings = [c \in Currencies |-> [a \in Accounts |-> IF a = contract THEN 0 ELSE InitialFunds]]
  /\ log = << >>
  /\ calls = << >>
  /\ donated = [t \in Tokens |-> [u \in Users |-> 0]]

Lock ==
  \/ \E u \in Users, n \in Amounts : LockEther(u, n)
  \/ \E u \in Users, t \in Tokens, n \in Amounts : LockToken(u, t, n)
  \/ LockTokenReturns

Complete ==
  \/ \E op \in {"unlock", "withdraw"}, u \in Users, id \in DOMAIN items :
       CompleteEther(op, u, id) \/ CompleteToken(op, u, id)
  \/ CompleteTokenReturns

Next ==
  \/ Lock
  \/ Complete
  \/ Revert
  \/ pauseLocking
  \/ activateLocking
  \/ \E u \in Users, t \in Tokens, n \in Amounts : Donate(u, t, n)

Spec == Init /\ [][Next]_vars

-----------------------------------------------------------------------------
(* Properties.                                                              *)

\* Every variable has the type Solidity gives it: no balance goes below zero
\* and the nonce keeps its width.
TypeOK ==
  /\ active \in BOOLEAN
  /\ nonce \in 0..(2^NonceBits - 1)
  /\ \A id \in DOMAIN items : id \in ItemIds /\ items[id] \in BOOLEAN
  /\ holdings \in [Currencies -> [Accounts -> Nat]]
  /\ \A i \in DOMAIN log : log[i].event \in {"LogLock", "LogUnlock", "LogWithdraw"}
  /\ \A i \in DOMAIN calls : calls[i].op \in {"lock", "unlock", "withdraw"}
  /\ donated \in [Tokens -> [Users -> Nat]]

SumOfAmounts(ids) == SumFunctionOnSet([id \in ids |-> id.amount], ids)

LockedItems(token) == {id \in DOMAIN items : items[id] /\ id.token = token}

\* Calls in which the contract holds funds that no item stands for: a lock
\* that has been paid, and a payment that has not been made.
HeldByCalls(token) ==
  {i \in DOMAIN calls : calls[i].id.token = token /\ calls[i].moved = (calls[i].op = "lock")}

SumOfCalls(indices) ==
  SumFunctionOnSet([i \in indices |-> calls[i].id.amount], indices)

\* At every point of every call, also while a token runs foreign code, what a
\* user owns and what the contract keeps for him add up to what he started
\* with: nobody gains or loses by any order of nested calls and failures
\* (Processor.sol:134-142, Peggy.sol:107-120).
NobodyGainsOrLoses ==
  \A u \in Users, c \in Currencies :
    holdings[c][u]
      + SumOfAmounts({id \in LockedItems(c) : id.sender = u})
      + SumOfCalls({i \in HeldByCalls(c) : calls[i].id.sender = u})
      + (IF c = Ether THEN 0 ELSE donated[c][u])
    = InitialFunds

\* Peggy.sol:9-10: "users are empowered to withdraw their locked funds at any
\* time".  The contract can pay all the locked items at once, so canDeliver
\* never stops a withdrawal (Processor.sol:48-61).
CanPayEveryone ==
  \A c \in Currencies : holdings[c][contract] >= SumOfAmounts(LockedItems(c))

Positions(event, id) == {i \in DOMAIN log : log[i] = [event |-> event, id |-> id]}

Payouts(id) == Positions("LogUnlock", id) \cup Positions("LogWithdraw", id)

\* Between transactions the log tells the whole story of an item: it was locked
\* once, then paid out at most once, and is locked as long as it was not
\* (Peggy.sol:122-129, 160-166, 196-202).
LogTellsItems ==
  calls = << >> =>
    \A id \in DOMAIN items \cup {log[i].id : i \in DOMAIN log} :
      /\ \E i \in DOMAIN log : Positions("LogLock", id) = {i} /\ \A j \in Payouts(id) : i < j
      /\ \A i, j \in Payouts(id) : i = j
      /\ items[id] <=> Payouts(id) = {}

IsLogLock(i) == log[i].event = "LogLock"

\* The nonces of the LogLock events are 1, 2, 3, ... in the order of the log,
\* without gap or repetition: they identify the locks on the other chain
\* (Processor.sol:65, 89, README.md:38).
NoncesCountLocks ==
  \A i \in DOMAIN log :
    IsLogLock(i) => log[i].id.nonce = Cardinality({j \in 1..i : IsLogLock(j)})
=============================================================================
