# Verification of the Ethereum–Cosmos bridge

TLA+ models of the unidirectional bridge in this repository, the TLC runs that
check them on small instances, and TLAPS proofs of theorems about them for every
value of the constants. Paths are relative to `src/`; `keeper.go`, `prophecy.go`,
`errors.go` are those of `x/oracle`, `handler.go`, `msgs.go`, `querier.go`,
`ethbridgeclaim.go` those of `x/ethbridge`.

    tlasany M.tla                               # parse
    tlc -workers 2 -config X.cfg M              # model-check (the run table names X and M)
    tlapm M_proofs.tla                          # check proofs

## 1. The system

A user locks ether in the Peggy contract; the contract emits `LogLock`; every
validator of the bridge zone runs a relayer that sees the event and sends a
claim about it to the zone; the ethbridge module turns it into an oracle claim;
the oracle collects the claims of the validators under one id, and when enough
stake says the same, ethbridge mints the amount to the receiver.

| Component | State | Operations | Talks to |
|---|---|---|---|
| Oracle (`x/oracle`) | store: id → prophecy (status, final claim, validators by claim, claim by validator) | `NewKeeper`, `ProcessClaim` (with `checkActiveValidator`, `GetProphecy`, `AddClaim`, `FindHighestClaim`, `processCompletion`, `saveProphecy`) | asks staking for bonded status, live power, last total power |
| EthBridge (`x/ethbridge`) | none of its own; mints into accounts | `ValidateBasic`, `NewHandler`, `handleMsgMakeEthBridgeClaim`, `processSuccessfulClaim`, `queryEthProphecy` | calls the oracle and `bank.AddCoins`; runs inside a transaction of baseapp |
| Clients (`x/ethbridge/client`) | none | `make-claim`, `get-prophecy`, and the REST routes beside them | send transactions and queries to EthBridge |
| Application and `ebd` (`app.go`, `export.go`, `genesis.go`, `cmd/ebd`) | the stores; the genesis file | `init`, `add-genesis-account`, start from genesis, `EndBlocker`, export, zero-height preparation | staking, Tendermint |
| Peggy contract (`ethereum-contracts/contracts`) | `active`, `nonce`, items, funds | `lock`, `unlock`, `withdraw`, `pauseLocking`, `activateLocking`; getters | ERC20 tokens, which may run foreign code; emits events |
| Relayer (`cmd/ebrelayer`) | the subscription, `EventRecords`, the account sequence on the zone | `InitRelayer`, `NewLockEvent`, `ParsePayload`, `RelayEvent` | Ethereum node (logs), Tendermint node (broadcast) |
| `ebcli` (`cmd/ebcli`) | none | assembles the client commands | the above |

Where it is hard, and what makes each part correct:

* **Oracle.** A prophecy is decided while the stake moves. The numerator of the
  ratio is the *current* power of the bonded validators that made a claim, the
  denominator the total of the *last* EndBlock, and a prophecy is looked at only
  when a claim about it arrives. Correct means: no vote counts twice, the verdict
  is the one the votes justify, it never changes, it does not depend on the order
  of arrival, and every node that executes the block computes the same one
  although `FindHighestClaim` walks a Go map in random order.
* **EthBridge.** The oracle stores a success and only then `AddCoins` may fail;
  transactions bundle messages and are undone as a whole. Correct means: a lock is
  paid once, in full, to the receiver of the final claim, in the transaction that
  makes its prophecy successful; queries tell what the validators said.
* **Clients.** Everything typed is text, and the id of a prophecy is one text made of
  two. Correct means: who asks about a lock is told about that lock, however its
  nonce was typed and whatever other ids look like.
* **Genesis.** A file is changed by commands that fail half-way, started by code
  that reads the kind of an account off its times, and written again by an export;
  what was delegated is in it twice. Correct means: every file that can be made can
  be started, no stake is lost or made on the way, and accounts come back as they were.
* **Peggy.** A token runs foreign code in the middle of `lock`, `unlock` and
  `withdraw`, which may call the contract again, and any call may fail and undo
  itself and everything nested in it. Correct means: nobody gains or loses, the
  contract can always pay what it has locked, the events and the nonces tell the
  truth about the items.
* **Relayer.** Errors are formatted and dropped, nothing is retried, logs that
  appear while it is not connected are never fetched, and a claim still pending
  makes the next one of the same account unacceptable. Correct means: a relayer that
  meets no fault loses no claim, whatever fails around it; nothing that fails makes
  the zone mint what was not locked; and while relayers with the needed share of the
  stake work, every lock is minted in the end.

`PROJECT.json` lists the hazards line by line with the properties that watch them.

## 2. Modules

| Module | Models | Correspondence |
|---|---|---|
| `Prophecy` | `x/oracle/types/prophecy.go` | a prophecy is a record with the fields of the Go struct; maps are total functions whose default is Go's zero value; `FindHighestClaim` returns the *set* of claims the random map order may select |
| `OracleKeeper` | `x/oracle/keeper/keeper.go`, `EndBlocker`, the staking facts it uses | `store`; `power` (live) and `lastPower` (last EndBlock); `ProcessClaim`, `Restake`, `EndBlock` |
| `OneVoteOracle` | – (abstract) | what a caller of the oracle may rely on: one vote per validator while the id is open, one outcome per id, a success is on a claim somebody voted for |
| `OracleImplements` | the refinement | `votes` and `outcome` read off the store; the abstract specification is the property `ImplementsOneVote` |
| `Replicas` | two nodes executing the same transactions | `store` and `replica`, each with its own map order |
| `EthBridge` | `x/ethbridge` (handler, messages, querier), export/genesis | the handler is an operator from a chain state and a message to the possible chain states after it (none = error); `DeliverTx` folds it over a transaction; `ExportAndRestart` |
| `Client` | `x/ethbridge/client` (`cli`, `rest`), extending `EthBridge` | a request is a record of texts; a command refuses it or delivers one message, signed by the validator; REST requests may be bundled and signed by all; a query is an operator on the state |
| `Peggy` | `Peggy.sol`, `Processor.sol` | the contract variables; `calls` is the stack of calls waiting for a token, each with the state a failure goes back to; every external function is one action for ether and two (before/after the token) for tokens; `Revert` |
| `Relayer` | `cmd/ebrelayer` (`relayer.go`, `relay.go`, `parser.go`, `events/event.go`, `main.go`), composed with `EthBridge` | `chain` is what the contract has emitted; per validator, `process` is where its select loop stands (down, listening, waiting for a commit), `logs` the channel of the subscription, `mempool` its claims on the way into a block; `RelayEvent` is one turn of the loop, `Commit` the zone's answer; the faults are actions of their own (`RelayFails`, `TimeOut`, `Die`) that note the validator in the ghost `faulted`; `Reorg` takes logs off the chain again |
| `BridgeLedger` | – (abstract) | what a user may rely on: a lock stays made and is paid at most once, in full, in one step. `Relayer`, contract, relayers and zone together, implements it: `ImplementsLedger` |
| `Genesis` | `cmd/ebd/main.go`, `genesis.go`, `export.go`, the init chainer, ante handler and routes of `app.go`, and of the SDK what moves coins and stake and tracks vesting | `file` is `genesis.json` or none, `chain` the accounts, staking state, collected fees and height of the running network or none; the commands, the start and the export are actions, and so are the transactions of a chain (a fee, then a delegation, an unbonding, a payment, a claim, or a message that fails), the end of an unbonding and a block |
| `MCOracle`, `MCReplicas`, `MCEthBridge`, `MCRelayer`, `MCGenesis` | instances for TLC | sets of stakes, messages and transactions, symmetry |
| `Sums_proofs` | – (lemmas) | sums of natural numbers over finite sets |
| `Prophecy_proofs`, `OracleKeeper_proofs`, `Replicas_proofs`, `EthBridge_proofs`, `Relayer_proofs`, `Peggy_proofs`, `Genesis_proofs` | proofs | §5; the theorems about `Client` are in `EthBridge_proofs` |

Decisions a reader should know:

* **Power** is counted in units: a tally is the cardinality of a set of (entry,
  unit) pairs. It is the sum of the Go loop (a validator listed twice counts
  twice); TLC evaluates the assumption `CountingIsSumming` of `MCOracle`. The form
  makes the tallies provable with facts about finite sets.
* **Ratios.** The keeper compares `float64(power)/float64(total)` with the
  `float64` consensusNeeded. Division is correctly rounded, hence monotone, and the
  constant is the double nearest to NeededNum/NeededDen; a quotient equal to that
  rational rounds to the same double, and two different quotients with
  total × NeededDen < 2^52 round to different ones. So for powers a chain can have,
  `>=` and `<=` compare as the rationals do: `AtLeastNeeded`, `AtMostNeeded`.
* **Staking** is the SDK's (0.33): transactions change the power index at once; the
  bonded status and the last total power change in EndBlock only; a jailed
  validator leaves the index at once. The limit on the number of validators and
  the slashing module (which the app does not mount) are left out. EndBlock needs a
  non-empty new set, as Tendermint does.
* **Ids and claim strings.** An id is the digits of the nonce followed by the sender as
  spelled, a sequence of characters, as `CreateOracleClaimFromEthClaim` concatenates
  them; so two locks could share one. They do not, because `IsValidEthAddress` fixes
  the length of an address: the instance has the nonces 1 and 12 and a text that
  makes the id of the one look like that of the other. Two spellings of one address are
  two senders, as in the code. An address has `AddressLength` digits (40 there, 2 or 1
  in the instances). The claim string is the record it is the JSON of.
* **Clients.** `Atoi` takes signs and leading zeros, and the id is made from the number.
  The nonce of a REST claim is an integer in the code (`rest.go:35`) and a text here,
  which only adds requests.
  `ParseCoins` never yields an invalid `Coins`; a hand-made transaction may hold one
  (`Transactions`). The querier does not check the address it is asked about; queries
  about texts that are not addresses are left out.
* **Transactions** run on a cached store and are written back only if every message
  succeeds (baseapp). `AddCoins` refuses a `Coins` that is not valid.
* **Tokens** are honest about their books but may run the code of the users in
  `Reentrant` before or after moving the funds, may fail, and may return false.
  Tokens that take a fee or change balances by themselves are not modelled: the
  contract's own accounting would be wrong with them from the start. `transfer` of
  ether forwards 2300 gas, so it cannot call back.
* **Relayer.** `ParsePayload` is modelled by what its conversions do: a recipient that
  is not bech32 becomes the empty address, which `ValidateBasic` refuses on the zone; an
  amount that `ParseCoins` refuses becomes no coins, and the claim goes out; the token
  is ignored. The nonce always fits (the contract counts up from 1). The broadcast
  waits for the commit (the default of SDK 0.33). The account sequence is read from
  committed state, and a transaction is admitted only with the next one: in the model,
  only if no claim of the account is pending. Validators use their accounts for nothing
  else. `EventRecords` is written and never read, and left out. In
  `RelayerSpec` the Ethereum chain is final. In `ReorgSpec` the last logs may leave it;
  the subscription then delivers them again, flagged as removed, and the code does not
  read the flag. `Reorg` is as mild as it gets: no claim about a dropped log is on the
  zone yet.
* **Genesis.** Addresses are numbers in the order of their bytes, times and amounts are
  small numbers, coins have the bond denomination and `ethereum`. How much of an account
  is still vesting when it delegates is any amount up to the original one. An account
  has one unbonding entry at a time, which stands for redelegations too; validators are
  bonded and are not slashed (the app mounts no slashing). An export reads the database
  and leaves the chain as it is; the network goes on with it or starts from the file.
  A transaction carries one message; what its ante handler has done (the fee, the
  sequence) stays when the message fails. How much of its coins a vesting account may
  spend at a given time is left out: it may spend all, which only adds behaviours. The
  collected fees are kept and never given out, since the app mounts no distribution module.
  A claim may name any denomination (`handler.go:52-63`), and one in `stake` is minted
  without the pool being told. The ghost `minted` counts what the bridge has paid, so
  that `PoolCountsStake` can say that nothing else makes stake. The SDK panics when
  less than nothing would be not bonded, hence the guard of `Delegate`: where stake has
  been paid by the bridge and delegated, others may be unable to delegate their own.
* The pause/activate events and the getters of the contract, error texts, logging,
  JSON and REST layout are left out.

## 3. Runs

| Run | Question | Result |
|---|---|---|
| `oracle_live` | 3 validators of power 0..2, 2 claims, 1 id, proportion 7/10, delegations and EndBlocks anywhere: types, ledgers, finality, backed successes, no failure without dissent, refinement of `OneVoteOracle` | holds |
| `steady` | 3 validators of power 0..4, 3 claims, 2 ids, proportion 1/2, stake stands still, two nodes: the status is the verdict of the votes at every moment, all voted means decided, no order of arrival takes the success away from a claim above the proportion, replicas agree | holds |
| `ethbridge_bundles` | 2 validators, 2 locks whose ids could be confused, 2 accounts, payable and unpayable claims, every hand-made transaction of one message (also malformed ones) or two, every request of a small grammar at the command line, bundles from REST, live stake | holds |
| `relayer_faults` | 3 validators (one of them needed, or one not bonded), 2 logs out of 3 kinds of lock of amounts coins can hold and another event, relayers that fail, time out, die and come back: what is minted is what was locked, no claim of a faultless relayer is lost, the whole implements `BridgeLedger`, every lock is minted as long as the faults are tolerable | holds |
| `peggy_reentrant` | 2 users (one runs code inside the token), ether and one token, amounts 1 and 2, two locks, two nested calls, failures anywhere, donations | holds |
| `genesis_cycle` | 2 addresses, plain and vesting accounts, additions that are refused for each reason, transactions with and without a fee in stake, sends, delegations, unbonding, bridge payments in stake and `ethereum`, exports with and without the zero-height preparation and any whitelist, restarts and overwritten files in any order | holds |
| `oracle_moved_stake` | can a claim succeed without the threshold in either validator set? | yes, finding |
| `oracle_stuck` | can a claim have the threshold and stay pending? | yes, finding |
| `replicas_live` | can two nodes store different outcomes? | yes, finding |
| `ethbridge_restart` | can a lock be paid twice across an export? | yes, finding |
| `relayer_reorg` | can coins be minted for a lock that left the Ethereum chain before the zone heard of it? | yes, finding |
| `relayer_oversize` | is a lock of more than coins can hold minted? | no, finding |

Every property of a passing run has a mutant: an operator written next to the one
it replaces, changed as a plausible bug would, with which TLC finds the property
violated.

**Why these bounds.** A verdict compares one claim, the others and the missing
votes; three validators and two or three claims give every relation between the
three (lead, tie, minority, dissent), and powers up to 4 put the ratios below, at
and above the proportion. One id suffices where ids are independent; two are used
where one transaction or one store can mix them up. At 7/10 two claims cannot both
have the threshold while the stake stands still; the run `steady` uses 1/2, where
they can, so that agreement of the replicas is not a matter of arithmetic. In the
bridge runs two messages per transaction are the least in which one is undone by
the other. In the relayer run two locks are the least in which a late claim on a
decided lock delays the next one, a pending claim blocks the next one, and a relayer
dies between two logs; amounts reach the largest that coins can hold, and `relayer_oversize` has one beyond. One
lock is enough to lose one in a reorganisation, or to have one paid nothing. In the genesis run two transactions of an account are the least that
leave it with stake delegated or unbonding across a restart, two addresses the least
whose order in a file can differ from that of their bytes, and one block lets a height
lie behind; one payment in both denominations and a fee in stake or none are enough to
put every term of the pool's equation out of step. In Peggy, depth 2 is a call nested in a call, and two locks are the
least that can race for a nonce. The bounds are the constants `MaxPower`,
`MaxAmount`, `Transactions`, `CommandRequests`, `BundledRequests`, `MaxLocks`,
`MaxLogs`, `MaxDepth`, `NonceBits`, `InitialFunds`, `Additions`, `Fees`, `Payments`,
`MaxMint`, `MaxSequence`, `MaxHeight`.

Deadlock checking is off where the stake stands still (when all have voted nothing
can happen) and in the relayer runs (when `MaxLogs` logs are dealt with nothing need
happen).

**Fairness.** Only `RelayerSpec` assumes any: weak fairness of `Handle(v)`, because the
select loop of a live process takes the next log that is ready, and of
`LeavesMempool(v)`, because Tendermint commits what CheckTx has admitted while it
makes blocks. Nobody has to lock, to restart a relayer or to stop failing, and a relayer
that meets a fault owes nothing. `EveryLockIsMinted` therefore has a premise: for ever,
the validators without a fault hold the needed share. It says that the prophecy of the
lock succeeds; that coins come with it, as much as was locked, is `BalancesAreLocks`. The premise is satisfied by
behaviours of the run with faults in them, since `v2` and `v3` can stand in for each
other. It is as strong as the code allows: one fault loses its lock for good.

## 4. Findings

* **A success without the threshold** (`keeper.go:128`; `oracle_moved_stake`). The
  live numerator and last block's denominator belong to different validator sets;
  a delegation earlier in the block lifts a claim over 0.7 that has 1/2 of the old
  set and 2/3 of the new one. README.md:49 speaks of the active validator set.
* **Stuck at the threshold** (`keeper.go:106`; `oracle_stuck`). Nothing re-evaluates
  a prophecy when the stake changes, and its voters cannot vote again.
* **Replicas can part** (`prophecy.go:102`; `replicas_live`). Because of the mixed
  numerator two claims can reach the threshold together, and the random map order
  picks one. `SteadyReplicasAgree` proves it needs a change of stake in the block.
* **An export forgets the prophecies** (`export.go:36`; `ethbridge_restart`): minted
  coins survive a restart from the exported genesis, finished prophecies do not.
* **A removed log is relayed** (`relayer.go:90`; `relayer_reorg`). A log is claimed at
  zero confirmations, and claimed when it is delivered as removed: in the run the lock is
  off the Ethereum chain before any claim is on the zone, and is minted. README.md:24
  has the validators attest to events that have occurred.
* **An amount coins cannot hold is paid nothing** (`parser.go:48`; `relayer_oversize`).
  The error of `ParseCoins` is formatted and dropped, and the claim goes out without
  coins; it is valid, its prophecy succeeds, and `AddCoins` adds nothing. Ether cannot
  get there, but the contract locks any `uint256` of a token (`Peggy.sol:95-111`), and
  coins hold 255 bits. README.md:12 and :58 promise tokens for what is locked; that
  ERC20 tokens are "not currently supported" (README.md:190) is enforced by nothing.
  `CoinsAreLocks` proves that for amounts coins can hold the promise is kept.

Not findings, but met on the way. consensusNeeded = 1 is admitted ("must be > 0 and
<= 1", `errors.go:32`), but the failure test `highestPossible <= consensusNeeded`
(`keeper.go:136`) is then true after the first claim of one of several validators, with
nobody disagreeing. No run has that proportion, and the application passes 0.7
(`app.go:106`, `oracle.go:9`); `FailureNeedsDissent` proves that it happens at no proportion below one. At exactly the threshold the order of arrival does
matter: `<=` (`keeper.go:136`) fails what `>=` would accept, so with seven tenths of
the stake for a claim an early dissenting vote fails the prophecy;
`OrderCannotMatter` is stated, and holds, for anything above. The contract tests
`availableNonce` before it calls the token, so a lock nested in `transferFrom` at the
very last nonce would let the outer one wrap; at 256 bits no chain gets there.
`IsAllGT` (`main.go:293`) refuses only a vesting amount that is greater in *every*
denomination that differs, so with two of them more may vest of one than the account
has ("vesting amount cannot be greater than total amount" says the error): `Genesis`
has it so. The zero-height export with a whitelist that leaves out a validator in the
power index does not come to an end (`WhiteListPanics`): the record is jailed and the
index is not told (`export.go:114`). And an address typed in another case or without
`0x` makes another id (`ethbridgeclaim.go:46`), so that votes about one lock can be split,
or the lock paid once for each spelling that enough validators use; the relayers all
spell alike (`parser.go:34`). A claim that names `stake` is paid in stake that the
staking pool has no record of (`handler.go:59`): `PoolAlwaysBalanced` counts it.

## 5. What is proved

Every invariant, action property and refinement that a passing run checks is also a
theorem; the one property left to TLC alone is `EveryLockIsMinted`, since liveness under
fairness is out of the prover's reach. The violations of §4 are counterexamples and need
no proof.

Everything rests on the named assumptions on the constants, which TLC evaluates in every
run that extends their module:

* `Prophecy`, `OracleKeeper`: finite sets of validators and claims; the empty string is
  neither a claim nor an id; 0 < needed <= 1; an initial validator set with power.
* `EthBridge`, `Client`: finitely many accounts and nonces; addresses are sequences of
  characters; the ids are the texts the nonces and addresses make; and a nonce text
  that is a number stands for one of the nonces, if it is not negative. `Relayer`: locks
  are well typed, and the nonces reach as far as the logs. `CoinsAreLocks` and
  `BridgeKeepsTheLedger` have the premise `LocksAreHoldable` in their statements: coins
  can hold every amount locked. Without it they are false (§4).
* `Peggy`: the contract is not a user; amounts and initial funds are natural; and
  `NonceAssumption`: `MaxLocks + MaxDepth < 2^NonceBits`, so that no run of the model
  gets to the last nonce, where a nested lock could make the nonce wrap (§4). With 256
  bits no chain gets there either. The bounds themselves are arbitrary.
* `Genesis`: finitely many addresses, which are numbers, and validators; well-typed
  arguments of the commands; fees and payments that are coins, of any denomination.

| Theorem | Says |
|---|---|
| `TypeCorrect` | types; the total power divided by is never zero; nothing is stored under the empty id |
| `LedgersAlwaysAgree` | the two indexes of the votes agree and list nobody twice |
| `VerdictsAreFinal` | no step changes a final prophecy or loses one |
| `FailureNeedsDissent` | below unanimity a failure has two different claims |
| `SuccessNeedsThreshold` | a success is backed by the needed share, each backer counted once, and by more than any other claim |
| `KeeperImplementsOneVote` | the keeper implements `OneVoteOracle` |
| `SteadyReplicasAgree` | while the stake stands still, two nodes store the same |
| `StatusIsTheVerdict` | while the stake stands still, the status is at every moment the verdict of the votes |
| `AllVotedDecides` | while the stake stands still, a prophecy on which all have voted is decided |
| `ArrivalOrderCannotMatter` | while the stake stands still, no order of arrival takes the success away from a claim above the proportion |
| `BridgeTypeCorrect` | the oracle stays well typed inside the handler, whatever is delivered to it |
| `CoinsAreVerdicts` | every account has the sum of the final claims of the successful prophecies that name it |
| `PaymentsAreSuccesses` | a lock is paid in the step that makes its prophecy successful and in no other |
| `QueriesTellWhatWentThrough` | a query reports the messages that went through about that lock, and no others |
| `RelayersTypeCorrect` | a relayer that waits has a claim pending, and no account has two |
| `CoinsAreLocks` | if coins can hold what is locked, every account has the amounts of the accepted locks made for it, each once |
| `ClaimsAreNotLost` | a relayer without a fault loses no lock |
| `BridgeKeepsTheLedger` | if coins can hold what is locked, contract events, relayers and zone together implement `BridgeLedger` |
| `ContractTypeCorrect` | types; no balance of ether or a token goes below zero |
| `FundsAreSafe` | what a user owns and what the contract keeps for him stay what he started with, at every point of nested and failing calls |
| `ContractIsSolvent` | the contract holds at least the sum of its locked items |
| `LogIsTrue` | the log tells of every item that it was locked, and paid out at most once |
| `NoncesAreCounted` | the nonces of the lock events are 1, 2, 3, ... in the order of the log |
| `GenesisTypeCorrect` | files and chains are well typed; the kind of every account of a chain can be read off its books |
| `EveryFileStarts` | every file of the commands and of an export starts a chain and lists no address twice |
| `NumbersAlwaysIdentify` | no two accounts of a chain sign with the same number |
| `HeightsAlwaysPast` | a chain started from a file for height zero has no height of the future in it |
| `RestartsKeepAccounts` | a restart keeps every exported account, but for its number |
| `PoolAlwaysBalanced` | in every file and chain the pool, with what the bridge has paid in stake, is what accounts hold, wait for, have paid as fees and have delegated |
| `DelegationsAlwaysTracked` | a vesting account keeps book of exactly what it has delegated or waits for |

The arguments:

* **Votes.** `Prophecy_proofs` has the lemmas about the data. `AddClaimIndexes`: a first
  vote of a validator keeps `IndexesAgree`. `TallyIsStake`: when the indexes agree, the
  power the nested loops add up for a claim is the stake of the *set* of its makers (a
  bijection between list entries and validators).
* **The keeper.** `TypeOK /\ LedgersAgree` is inductive: the duplicate check reads one
  index, the append writes both, and completion writes neither. `LedgersAgree` is what
  turns tallies into stake in `SuccessNeedsThreshold` and what makes a final claim
  somebody's vote in the refinement. `FailureNeedsDissent`: with one claim made, its
  tally is the total of the tallies, so the highest possible power is the whole
  denominator, and a proportion below one leaves it above the threshold
  (`LoneClaimIsNotFailed`), whatever the live stake is. `KeeperImplementsOneVote` needs
  one invariant more, `FinalClaimMeansSuccess`: the abstract outcome has no final claim
  unless it is a success.
* **Stake that stands still.** `SteadyReplicasAgree` rests on `PendingMeansUndecided`: no
  claim of a pending prophecy has the threshold. So when a vote arrives only *its* claim
  can reach it, and then it is the only highest one; if none does, only the highest power
  matters and not whose it is (`CompletionIsUnique`). `StatusIsTheVerdict`,
  `AllVotedDecides` and `ArrivalOrderCannotMatter` follow from the same fact and its
  counterpart for decided prophecies. The invariant breaks as soon as the stake moves,
  which is what `replicas_live` exhibits.
* **Sums.** What accounts own and what the pool holds are sums, which the community
  modules define by recursion over sets, and induction over data cannot be used
  here. `SumIsCount` goes around it: the sum of natural numbers is the number of points
  under their graph. Counting the points solves the recursion, and two solutions cannot
  differ, for there would be a least subset on which they do (subsets of a finite set are
  well founded). The rest, from `SumAddsOne` to `SumRenamed`, is about cardinalities.
* **Ids.** `QueriesTellWhatWentThrough` rests on `OneIdPerLock`: the digits of a nonce and
  an address, run together, determine both. An address has one of two lengths, and the
  longer kind has an `x` where the shorter kind would leave a digit of the nonce, so both
  texts are cut at the same place; and `Itoa`, a recursive function, is injective, since
  there is no least number that shares its digits with another (`ItoaIsInjective`).
* **Transactions** are folds of the handler over sequences of messages. `TxKeeps`: a set
  of chain states that one message cannot leave is not left by any sequence of them, for
  there is no first message that does. The sets are `Sound` (votes agree, and the coins of
  every account are the verdicts that name it) and, with it, the states in which payments
  match new successes. `BridgeInv` adds `IsReported`: the votes in the store are the
  messages that went through.
* **Relayers.** `RelayerInv` says of the chain that its nonces number the locks; of every
  claim on the way or on the zone that it is about a lock of the chain and says what the
  log says; of every relayer that at most one claim is pending, and one is while it waits;
  and of a relayer without a fault that none is pending when it takes a log, and that every
  readable lock is in its queue, pending, accepted or decided (`NothingLost`). What makes the last part
  inductive is `RefusedClaim`: a claim of a bonded validator is refused by the zone only
  if the prophecy is decided or the validator has voted on it. A verdict is somebody's
  vote, a vote is a claim about a lock, and a lock has one id: hence, where
  the parser cuts nothing off (`NothingIsCut`), `CoinsAreLocks`, and
  the refinement, in which a payment of the ledger is the commit that decides a prophecy.
* **Peggy.** A call that fails takes the contract back to where the call began, so the
  invariant has to hold of every state on the stack: `Good(s, calls, k, donated)` says of
  the state s below which k calls wait that funds, nonces and log are in order *given what
  those calls have done so far*: a lock that waits has or has not moved its funds, and has
  no item yet, a payment that waits has closed its item without the funds being
  moved. A call that begins pushes a state that was good, one that fails uncovers one, one
  that returns replaces the uppermost two. What a user has sent to the contract without a
  call (`Donate`, between calls) counts as his, so that it cannot hide a loss.
* **Accounts.** `GenesisInv` serves the five theorems of `Genesis` that are not about
  stake. Three parts of it are not properties: account numbers are below the next one,
  without which a payment could give a number out twice; the heights of a file for height
  zero are zero, without which a start could set the height back below them; and `Holds`,
  by which the file has an entry for every exported account. The lemma that matters is
  `RoundTrip`: an account whose kind agrees with its books (`Sound`) is the same after
  `NewGenesisAccountI` and `ToAccount`, although its kind is not written down.
  `OrderVisitsAll` adds that an export in the order of the addresses leaves nobody out.
* **Stake.** `StakeInv` says of files, too, what `DelegationsAreTracked` says of chains,
  and of both that nobody without an account has delegated anything: otherwise a command
  could add a vesting account whose books start at zero to an address that owes more. An
  export and a start rename the terms of the sum (`HeldRenamed`). A transaction is taken
  in its steps, the fee first: coins that come into an account or leave it move one term
  against fees, payments or coins in the middle of a transfer (`CoinsMoveStake`; the
  amount in the middle is the second argument of `ChainStakeOK`, zero between
  transactions), and a message on stake moves a term or two (`WorkKeepsStake`). The end
  of an unbonding strikes out no more than the account has written down, because what it
  gives back is a part of what is tracked.

## 6. What is not modelled

* The contract of `Peggy` inside `Relayer`: `Relayer` has the contract's events,
  numbered as `NoncesCountLocks` of `Peggy` shows they are. An ERC20 lock is minted as
  `ethereum`, since the parser does not look at the token; README.md:190 says that the
  transfer of ERC20 tokens is not supported yet.
* Genesis transactions (the commands here make none) and an export at an older height;
  slashing, which the app does not mount; the validator in the Tendermint document.
* Names, keys and flags of commands, HTTP statuses, codec registration, error texts,
  dialling and ABI loading: wrappers and I/O. `ebcli` only assembles commands.
* The JSON of the two maps of a prophecy in the store: the maps are what they decode to.
* Changes of stake while relayers work: `EthBridge` and `OracleKeeper` have them.

## 7. Reading order

`Prophecy`, `OracleKeeper`, then `OneVoteOracle` with `OracleImplements`;
`Replicas` for the nodes that have to agree; `EthBridge`, and on top of it `Client`, and
`Relayer` with `BridgeLedger`; `Peggy` and `Genesis` stand alone. The proof modules
follow the modules they extend.

## 8. Plan

Every safety property of the passing runs is proved. What is left:

1. The proofs leave the models' simplifications where they are (§2, §6). Worth adding to
   the models next: stake that moves while relayers work, and an account with several
   unbonding entries, which `StakeInv` would take as a sum over entries.
2. Of `ReorgSpec`: what still holds when logs leave the chain, such as the types and that
   no account has two claims pending.
3. Positive counterparts of the findings: the weakest condition on the stake in a block
   under which `SuccessHasThreshold` and `PendingBelowThreshold` hold.
