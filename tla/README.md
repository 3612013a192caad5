# Durable settlement: TLA+ models and proofs

This directory specifies the part of the interoperability layer that moves value:
the settlement of one swap and its store, the route of two legs and the processes
that drive it, the coordinator of a leg's transactions with its child ports, and the
EVM escrow contract. TLC checks the modules on small instances; TLAPS proves safety
properties of five models (settlement writers, engine, route, ports, contract) for every
value of the constants.

Paths below are relative to `src/crates/` unless they start with `src/`.

## 1. The system

The repository holds two systems.

**DOM, a proof-of-work chain**: `dom-core`, `dom-consensus`, `dom-chain` (connect,
reorg, headers-first download), `dom-mempool`, `dom-pmmr`, `dom-store`, `dom-wire`,
`dom-node` (orphan pool, future block queue, missing block tracker, peer scoring,
miner), `dom-pow`, `dom-rpc`, transactions, slates, wallets, explorer, faucet.

**The interoperability layer**, which settles swaps between DOM and other chains:

| part | state | operations |
|---|---|---|
| settlement state machine (`kaystra-core/src/state.rs`) | state, refund armed, claim verified, funding height, revision | `transition` on nine kinds of event |
| ingestion (`kaystra-core/src/ingest.rs`) | the reorder buffer | `ingest_event`, `drain_parked`, `drop_from`, `adopt` |
| settlement store (`store/src/settlement.rs`, `kaystra-core/src/store_port.rs`) | snapshot, journal, evidence, outbox, cursor, terminal, late evidence | create, commit with compare-and-swap, park, reaffirm, invalidate, record late, lease, complete |
| settlement engine (`kaystra-core/src/settlement_engine.rs`) | scan cursor, pending refunds, timelock flag | `open`/`recover`, `arm_refund`, `tick` = drain, scan, ingest, policy, dispatch |
| DOM adapter (`adapters/dom-real`) | cursor of block hashes | `scan`, `cursor_at`, `tip_height`, `execute` |
| route executor (`route-executor`) | snapshot of two legs, lease, outbox, timers | reducer events; lease, dispatch and timer transactions |
| route driver and supervisor (`dom-interopd/src/driver.rs`, `supervisor.rs`) | the call in progress | `drive_route_once_v1`, takeover, operator calls, observations |
| settlement coordinator (`settlement-coordinator`) | plan of two children, secret state, requests | call, reconcile, materialize, observe, refence, audit |
| settlement bridge and child ports (`dom-interopd/src/production_*.rs`) | the call in progress | externalize, reconcile, materialize, observe |
| Solana actuator and RPC pool (`solana-actuator`, `adapters/solana-rpc-pool`) | one row per operation | sign, broadcast, observe, reconcile; status and height by quorum |
| EVM contract (`src/contracts/src`) | locks, credits, pooled custody | open, claim, refund, withdraw |
| Solana escrow program, other actuators and adapters, relay, RFQ, solver, vaults | mailboxes, reservations, keys | delivery, quoting, custody |

How the modelled parts interact. *Below one settlement*: the adapter turns blocks
into records; the engine turns records and its policy into events; ingestion chooses
one store transaction, which writes snapshot, journal, evidence, outbox, terminal and
cursor together; dispatch leases outbox rows and executes them. *Above it*: a route
has an upstream and a downstream leg. A driver with the route lease picks one action
(fund, claim or refund a leg), journals it, claims its outbox row and hands it to
custody. Custody is the bridge: it turns an action into a plan of two child
transactions, one per face of the leg, and has each child's port send it. The answer
travels back as a receipt. Claiming downstream publishes the secret that the upstream
claim needs. On an EVM chain the funds lie in `ConditionLockCoreV2`.

What makes it hard: several processes on one database; leases that run out while
their holder still works; reads and the write that depends on them in separate
transactions; crashes between any two transactions and between a call and its record;
answers that are lost; RPC nodes that lag or follow a fork; reorganisations that are
undone, repeated, deeper than one block, or fall between two reads of one tick; payout
targets that fail or call back.

`PROJECT.json` lists every component, modelled or not, and every hazard with the
line where it bites and the properties that cover it.

## 2. Modules

| module | models |
|---|---|
| `SettlementMachine` | `transition`: contexts, events, verdicts, next context, effects |
| `SettlementStore` | the tables, each transaction on them as one action, and `ingest_event` as the choice of a transaction |
| `SettlementWriters` | several engines ingesting and several dispatchers on one store, crashing at any point |
| `Settlement` | the abstract promise of a settlement: orders and outcome seen from outside; `SettlementWriters` and `SettlementEngine` implement it |
| `SettlementEngine` | one engine tick by tick, the adapter, the chain with reorgs, failed reads, crashes |
| `RouteMachine` | `reduce_route_v1`: every event as an action, with the validation that follows it |
| `RouteStore` | the route's lease, outbox and timer transactions around the snapshot |
| `RouteDriver` | the processes that drive a route over `RouteStore`, custody and chains as they see them |
| `Swap` | what a route promises to the chains: in which order the six actions and the secret come out; `RouteDriver` implements it |
| `SettlementCoordinator` | the plan of two children, one operator per transaction, and the audit |
| `SolanaActuator` | the operation row, the quorum pool, the cluster (external) |
| `ChildPorts` | the bridge and the DOM, EVM, Bitcoin, Monero and Solana ports: composes `SettlementCoordinator` and `SolanaActuator`, step by step with crashes |
| `ConditionLock` | the contract for ether and for a token, with reentry, reverts and partial transfers |
| `Escrow` | what an escrow promises to the protocol; `ConditionLock` implements it |
| `StoreProofs` | lemmas on `SettlementMachine` and `SettlementStore`, shared by the proofs of writers and engine |
| `SettlementProofs`, `EngineProofs`, `EngineScanProofs`, `EngineFinalityProofs`, `RouteProofs`, `ChildPortsProofs`, `ConditionLockProofs` | the theorems |
| `MCSettlementWriters`, `MCSettlementEngine`, `MCRoute`, `MCChildPorts`, `MCConditionLock` | instances for TLC |

**Settlement: state.** `ctx` is the snapshot row, `journal` the journal with the
context each row led to (the code stores its hash), `evidence` a function from
observation to status, `outbox` from effect to status, `leased` the effects under a
running lease, `terminal`, `late` and `cursor` the tables of those names. In
`SettlementEngine`, `scan`, `pending`, `parked` and `timelock` are the fields of the
engine struct; `pc`, `target`, `records`, `todo`, `tip`, `budget` and `batch` are the
locals of `tick`. `pending` is a set, so refunds that are due are taken in any order.
`SafeCursors` is `safe_cursor`: a set of one anchor, the target or the last block below
the lowest pending refund.

**Settlement: identifiers.** Event and effect identifiers are hashes of their contents
in the code (`derive_event_id`, `OutboxEffectV1::derive`), so an event is its own
identifier in the models. A refresh event derives another identifier from the event
and the revision; the journal then holds a second row of the same event, and its
effects keep their keys.

**Settlement: steps.** One SQLite transaction is one step. `SettlementWriters` keeps
the three transactions of `ingest_event` apart (`Load`, `Lookup`, `Commit`, and
`InvalidateAgain` for reorgs), so that other processes act in between.
`SettlementEngine` has one writer and takes them together; there every store
transaction and every chain read of a tick is a step. The second invalidation, which
`ingest_event` itself makes, is idempotent with one writer and is part of the step.

**Settlement: chain.** A block is the one transaction of this settlement it holds, or
none, and the fork it was mined on. A block hash commits to its ancestors, so the hash
at height h is the chain up to h, and an adapter cursor is such a prefix. The cursor
remembers only its last `HistoryLimit` hashes (`dom_history_limit`, 1 to 4096 in
production); `scanLow` and `cursorLow` are the lowest heights that the scanner's and the
stored one remember. A scan that has to step back and remembers no lower hash takes the
block below from the canonical chain (`adapters/dom-real/src/lib.rs:1836`). Heights start
at 1; the genesis block is the empty prefix. A reorg replaces the last blocks by a
branch one block longer, and `Reactivate` makes the abandoned branch canonical again.
Chains never get shorter. The chain may move between two ticks, and up to `MaxMoves`
times in the middle of one, since scan and tip are separate reads. After funding, anyone
may mine the claim, or the refund from its height on.

**Route.** `prog`, `fence`, `compensated`, `public`, `health` and `aborted` are the
fields of `RouteSnapshotV1` that decide anything. An effect is its action and the
epoch it was committed in. An event whose result fails the reducer's validation is not
enabled, which is the code's refusal. `row`, `holder` and `live` are the newest outbox
row of an action with its dispatch claim. `job` is where a call of
`drive_route_once_v1` stands, `sent` what custody has put on the chains: nothing, one
child or both. The bytes of an action are fixed, so sending twice is harmless; that is
what `ChildPorts` models in detail. Custody checks a capability when it is called
(`dom-interopd/src/production_settlement.rs:811`) and sends with that same time at line
883: `CheckCapability` and `Send` are two steps, and lease, claim and timer may lapse
between them. What stays is the process lock: route store and coordinator store are
opened under exclusive lock files, which a process keeps until it ends
(`acquire_process_lock` in `route-executor/src/store.rs:2612`, the same in the
coordinator). So `Acquire` waits until no other process has them open (`StoresFree`); a
lease that lapses does not make its owner lose the stores. `ObserveReorg` and `ObserveSecret` stand for
callers of the supervisor's public `record_chain_observation` with invalidation and
secret-exposure queries. The shipped driver itself only asks for finality
(`dom-interopd/src/driver.rs:804`).

**Coordinator and ports.** Digests and attempt identifiers are abstracted to what the
code compares them for. `job` holds the call in progress: the port's step and the
answer it carries. A crash resets `job` and nothing else. One child is on DOM, the other
on Solana, an EVM chain, Bitcoin or Monero; `world` is where the bytes of a child that
is not on Solana are.

* *EVM and Bitcoin* record the send in the operation's row, then offer the bytes to a
  node once. A reconciliation answers "not sent" from a row that is still signed, else
  Externalized if the node knows the transaction, else Unknown. Bytes that were lost on
  their way are not offered again, so Unknown may last for ever
  (`evm-actuator/src/store.rs:2657`).
* *Monero* does the same but takes the absence of the transaction and of its key image
  for "not sent", a statement about that moment only.
* *DOM* broadcasts the retained bytes each time it is called or reconciled, and never
  proves absence (`production_child_dom.rs:2541`).
* *DOM and Bitcoin* refuse to reconcile under a route fence newer than the dispatch's
  (`production_child_dom.rs:2183`, `production_child_btc.rs:2424`).

`row` is the row of the counterparty's operation, whichever port it has; of the EVM,
Bitcoin and Monero rows "attempted" stands for all stages after the first send, and what
the chain knows is read from `world` instead. Execution that fails is modelled on Solana
only. RPC nodes are truthful and lag; the Solana pool believes what a quorum says alike.

**Contract.** An entry point that calls out is two steps with a call frame between them;
the frame keeps the state a revert restores. While a frame is open, the callee may
deposit and may call any entry point again, which the reentrancy guard refuses. `paid`,
`owed` and `exact` are history variables. The asset keeps a true ledger and moves at
most what it is asked to. There is one asset per contract state, since the credits and
the custody of two assets never meet. Running out of gas, or an outer revert, is a
transaction that never happened. The target of `withdrawTo` is left out, because only
the owner's credit decides. A lock id commits to the terms and the funder, so a lock is
a constant with its terms.

## 3. Runs

All runs switch deadlock checking off, because a settlement, route, plan or lock that
has ended, and a chain at its bound, may stop.

| run | question | answer | distinct states |
|---|---|---|---|
| `writers` | two engines, a claim path with reorg and refresh, crashes: does the database always recover, is only committed evidence Applied, does no commit, first or refresh, meet a taken key? | yes | 1.5 M |
| `race` | two engines, claim against refund, timelock and withdrawn funding: one outcome, never revised, abstract promise kept? | yes | 790 k |
| `dispatchers` | one engine, two dispatchers, leases that run out, a claim committed twice: does every executed effect come from the journal, does completed stay completed? | yes | 90 k |
| `engine_crash` | a cursor that remembers one hash, one reorg of one block, `min_confirmations` 2, one failed read, one crash: no rejected event, no observation behind cursor or scanner without a row, and until a crash or a failed read no terminal that leaves the chain, abstract promise kept? | yes | 1.2 M |
| `engine_reorgs` | two reorgs of up to two blocks, a history of two hashes, branches that come back: is the observation the machine rests on canonical? | yes | 2.1 M |
| `engine_live` | `min_confirmations` 3, fair ticks with a crash, a failed read, a reorg and a move of the chain in the middle of a tick: does a claim that is final for good end the settlement, does the database recover at every point? | yes | 443 k |
| `condition_lock` | three locks, one custody, targets and tokens that fail, move less, reenter and deposit: solvent, nobody short-changed, every lock settles, abstract escrow implemented? | yes | 64 k |
| `route` | two processes, lapsing leases, a crash, sends long after their check, lost answers, operator calls, timer, compensation, reorg: one exit per leg, no split outcome, nothing stale sent, no receipt refused? | yes | 927 k |
| `route_live` | one process that crashes and loses its lease: public secret claimed, funded leg in recovery refunded, due timer fired, abstract swap implemented? | yes | 111 k |
| `children` | two-child plan on each of the ports, bytes that get lost, three lagging Solana nodes, dropped forks, expiry, crashes, takeovers: nothing leaves unrecorded, exposure admitted first, finality real, audit content, landed becomes final, a due counterparty claim handed to its port? | yes | 65 k |
| `finality_deep` | reorg of two blocks, `min_confirmations` 3: does a terminal stay on the chain? | no | |
| `solana_claim` | the secret is public: does the Solana claim leave? | no | |

### Where code and documentation disagree

`PROJECT.json` quotes the sentences that the two runs answered with "no" refute.

* *Finality* (`kaystra-core/src/settlement_engine.rs:33`). The adapter undoes one block
  per tick, but the policy of that tick counts confirmations from the new tip. A reorg
  shallower than `min_confirmations` can so leave a terminal on a block that has left
  the chain.
* *Staged Solana claim* (`dom-interopd/src/production_child_solana.rs:768`). In a plan
  whose DOM claim exposes the secret, the counterparty child is materialized after the
  exposure. The Solana port labels a freshly signed claim a first exposure, and the
  materializer refuses a deferred child with that label. The tick is repeated without
  end. For the other ports `children` checks a weaker property, `ExposureIsHandedOver`:
  the claim is materialized and its port is called. That it leaves cannot be promised
  there either, since an EVM or Bitcoin port may answer Unknown for ever.

### Known counterexamples without a run of their own

The definitions named here are in the modules, so each can be checked again with the
constants given. They are not part of the regular set of runs.

* `TerminalStaysOnChain` (engine) also fails after a crash: `engine_crash` with that
  property. Commits from the reorder buffer carry no cursor, so the scan resumes below
  Applied rows and never hears of their reorg. It fails too when the chain moves
  between scan and tip: `MaxMoves = 1`, no crash. And it fails after a failed
  read alone: `MaxFailures = 1`, `MaxReorgs = 2`, `MaxReorgDepth = 1`,
  `MinConfirmations = 2`, `MaxHeight = 5`, `RefundNotBefore = 3`, no crash, no moves
  during a tick. The failed tip read leaves a `RevalidateFrom` undispatched; dispatched a
  tick later, it rewinds the scanner below a refund it still holds, and the next reorg of
  that block is not reported.
* `CursorCoversRefunds` (engine) fails in the instance of `engine_crash`. In a batch
  with funding and refund, the funding's commit carries the cursor past the refund, and
  a crash loses the refund (`settlement_engine.rs:24` says the cursor is held below it).
* `ObservationIsCanonical` (engine) fails with `MaxReorgs = 3`, `MaxReorgDepth = 3`,
  `MinConfirmations = 4`, no refunds and no crash: a branch left twice at the same block
  yields the same event twice, and the second is a duplicate.
* `CursorCoversObservations` and `ScannerSkipsNothing` (engine) fail in the instance of
  `engine_crash` with `MaxReorgDepth = 2` and `HistoryLimit = 1`, with or without faults.
  The scanner steps back to a hash it has just read from the new branch, and the blocks
  of that branch up to there are never scanned. With a history as long as the deepest
  reorg, `HistoryLimit = 2`, both hold there too (5.2 M states, 4 minutes).
* `ScannerSkipsNothing` (engine) fails with a crash, `MaxReorgDepth = 3`,
  `MinConfirmations = 4` and a history longer than the chain: a `RevalidateFrom` left from before the crash replaces a
  stale cursor by a canonical one above blocks not scanned (`settlement_engine.rs:889`),
  where the comment at line 459 promises a reorg record.
* `RecoveryRefunds` (route) fails in the instance of `route_live` with
  `Compensable = {"downstream"}`, already with `MaxEpoch = 1` and no crash or reorg. A
  compensated leg counts as terminal (`route-executor/src/model.rs:258`), but the driver
  still picks its refund before the upstream one (`dom-interopd/src/driver.rs:566`), and
  the reducer refuses to authorize it (`route-executor/src/reducer.rs:514`). With
  `Compensable = {"upstream"}` it is the compensated leg's committed refund, whose row is
  superseded, that keeps the driver from the downstream refund.
* A takeover after a compensation can stop for good. The compensation supersedes the
  leg's row and leaves its action committed; `committed_action_intent`
  (`route-executor/src/store.rs:593`) then answers EffectNotFound and ends the
  reconciliation before the actions behind it. In the model, `Reached` is false for them.
* `SentFundingComesBack` (route) fails in the instance of `route_live`, already with
  `MaxEpoch = 1` and no crash or reorg. Funding is sent,
  the answer is Unknown, and the route goes into recovery: funding is not dispatched
  again, and the refund needs an externalized funding. A lapse of the lease heals it,
  because the takeover reconciles.
* `AuditAccepts` (coordinator) fails with `Queries = {"finality", "invalidation"}`. A
  child observed as invalidated and then as final again leaves the aggregate invalidated
  with no invalidated child, a plan the audit refuses. Only the supervisor's public
  operation can ask so; the shipped driver does not.
* A child whose call is unanswered need not be answered ever, that is,
  `stage[c] = "pending" ~> stage[c] # "pending"` fails under `FairSpec` in the instance of
  `children`. A Solana row reconciled as expired answers every later absence with a
  conflict (`src/docs/interop/engine/CHILD_SOCKETS_DESIGN.md:93` designs expiry as the
  way to a new call). An EVM or Bitcoin port whose bytes were lost answers Unknown. And a
  DOM or Bitcoin child that was pending at a takeover is refused at the newer route fence,
  while the plan is adopted at that fence only once the child is answered; the comment at
  `dom-interopd/src/production_child_evidence.rs:245` says a takeover may reconcile the
  same dispatch at a newer fence.
* Four limits of `LandedBecomesFinal` (coordinator) are written into the property or
  its neighbours: a failed execution closes the row at any commitment; status and height
  floor are two reads, so bytes executed in between look expired; after a crash a
  mistaken expiry is answered again by its attempt, which leaves the row reconciled; and
  a plan taken over with its DOM child pending stays where it is, as above.
* `NothingLeavesUnrecorded` (coordinator) excepts a Monero sweep: its absence is believed
  when it is seen, so the child is planned again while the bytes may still be on their
  way. The row keeps the record of the send.
* A reorg of the claim's block alone does not clear `claim_evidence_verified`, unlike
  the comment at `store/src/settlement.rs:1183` says; the claim's row is invalidated, so
  the policy does not confirm it.

### Bounds

*Writers.* `MaxJournal` 5 to 6 rows are enough for a settlement to be armed, funded,
confirmed and ended, or regressed and refreshed once; the sets of deliverable events
name one block or two, because what matters is whether two events lie on the same side
of a reorg. Two writers are the smallest number that can race; the proofs cover any
number. Writers and dispatchers are symmetric.

*Engine.* Chains of `MaxHeight` 4 hold funding, a spend and a confirmation with a reorg
in between. `MaxPolicyIngests` 4 stands for 16: no tick of these chains has more than
four useful policy events. `MaxReorgs`, `MaxReorgDepth`, `MaxCrashes`, `MaxFailures` and
`MaxMoves` bound the environment. `HistoryLimit` is no bound of the model but a parameter
of the daemon; the runs take the smallest for which the properties hold, which is the
depth of the reorgs. `engine_crash` without moves is repeated with `MaxMoves = 1` outside
the regular runs and holds (3 minutes and a half). `engine_live` asks for three
confirmations, so that a claim can be seen, and parked, several ticks before the funding
below it is confirmed.

*Route.* `MaxEpoch` 2 is one takeover. Another process takes over only when the first one
has died or given up, so `route` has a crash, at any step of a call; `route_live` has one
too. The health targets differ: `route` needs the operator's stop,
`route_live` recovery. `MaxReorgs` 1 withdraws one observation. The proofs have no bound
but `MaxEpoch`, `MaxReorgs` and `MaxCrashes`, which they leave arbitrary.

*Ports.* Three nodes with a quorum of two let one node lag, fail or disagree.
`LastValid` 1 and `MaxHeight` 2 give a height at which the bytes can execute and one
past it; `MaxSpread` 1 makes both a refused and an accepted floor reachable. The plans
are all combinations of secret requirement and port that the materializer installs.

*Contract.* Locks of 2, 1 and 1 units under `MaxUint` 4 let one push be split and one
lock be paid from another's funds if the contract erred; deadlines 1 and 2 within
`MaxTime` 2 leave a claim and a refund window for each. The model does not bound the
call depth; the reentrancy guard does.

### Fairness

*Engine.* Weak fairness of `EngineStep`, because the daemon calls `tick` for ever, and
of `Expire`, because leases are wall-clock times. Chain moves, crashes and failed reads
owe nothing. `engine_live` has no refunds (`RefundNotBefore` above the chain): with
refunds the property fails for the reason given under `CursorCoversRefunds`.

*Route.* Weak fairness of a process's own steps, because the daemon drives for ever, and
of lapsing claims, because they are wall-clock times. Strong fairness of
`CheckCapability` and `Delivered`: a call that is repeated for ever at some time reaches
custody before its claim lapses, and is answered. And from some time on a timer's
claim does not lapse while its holder is at it, since a claim lasts far longer than the
two transactions it covers.

*Ports.* The driver ticks for ever, chains finalize, nodes catch up, and from some time
on it is calm (`Calm`): no further takeover or failed call, no reorg of what is final,
and a DOM node that answers. Of the EVM, Bitcoin and Monero ports nothing is asked, nor of
the cluster executing anything.

*Contract.* Block time goes on, a call that was made comes back, and somebody asks for a
refund that is due, which needs no permission. Nothing is assumed of the beneficiary.

## 4. Proofs

Each theorem holds for any value of the constants under the named assumptions of the
modules: non-empty or disjoint sets, numbers that are numbers, terms with a positive
amount, a quorum no larger than the pool, `NoCursor` not an anchor, `Nobody` not an
owner, finitely many locks and accounts, and in the engine anchors that are the prefixes
of chains. Hypotheses beyond these are in the statement.

| module | theorem | statement |
|---|---|---|
| `SettlementProofs` | `TypeCorrect`, `Invariance` | `TypeOK` and `IInv` are invariant |
| | `RecoveryAlwaysSucceeds` | the journal replays to the snapshot and agrees with the terminal row |
| | `KeysNeverConflict` | no commit meets an outbox or terminal key that is taken |
| | `AppliedAlwaysCommitted` | Applied evidence was committed |
| | `EffectsAlwaysJournalled` | an executed effect comes from a journalled event |
| | `TerminalNeverRevised` | nothing economic changes after a terminal |
| | `CompletedForEver` | completed effects stay completed |
| | `StoreKeepsThePromise` | `SettlementWriters` implements `Settlement` |
| `EngineProofs` | `EngineInvariant`, `EngineTypeCorrect` | `IInv` and `TypeOK` are invariant |
| | `EngineIsNeverRejected` | no event of a tick is rejected, whatever chain, reads and crashes do |
| | `EngineRecovers` | at every point of every tick the journal replays to the snapshot and agrees with the terminal row |
| | `EngineKeepsThePromise` | `SettlementEngine` implements `Settlement` |
| `EngineScanProofs` | `CursorIsSafe` | until a reorg of two blocks or more, through crashes, failed reads and moves during a tick: no observation of the canonical chain at or below the stored cursor lacks its row |
| | `ScannerIsComplete` | the same for the scanner's own cursor |
| | `NothingSkippedUntilAFault` | history no shorter than the deepest reorg: both, until a crash, a failed read or a move during a tick |
| `EngineFinalityProofs` | `ObservationStaysCanonical` | until a crash, a failed read or a reorg of two blocks or more: the funding the machine rests on is canonical |
| | `TerminalIsFinal` | `min_confirmations` at least 2: until one of the four disturbances, a terminal stays on the chain |
| `RouteProofs` | `Inductive`, `RouteTypeCorrect` | `IInv` and `TypeOK` are invariant |
| | `LegsLeaveByOneDoor` | never part of both claim and refund of a leg is sent |
| | `OutcomeIsNotSplit` | never downstream claim and upstream refund |
| | `CustodyFollowsTheJournal` | what is sent was journalled before |
| | `OutboxIsConsistent` | pending rows are the committed effects of uncompensated legs |
| | `ReceiptsAreNotRefused` | the holder of a good lease can journal its receipt |
| | `StaleWorkIsNotSent` | what is sent is of the current epoch and still dispatchable, however long after its check |
| | `RouteKeepsThePromise` | `RouteDriver` implements `Swap` |
| `ChildPortsProofs` | `BridgeInvariant`, `BridgeTypeCorrect` | `IInv` and `TypeOK` are invariant |
| | `UnsentIsUnsent` | a child recorded as not called has no bytes out that can take effect (Monero: or its row admits the send) |
| | `ExposureIsAdmitted` | the plan admits the exposure before the bytes leave |
| | `FinalityIsReal` | a final Solana child executed in a finalized block |
| | `AuditNeverRefuses` | with finality queries only, the audit accepts every stored plan |
| `ConditionLockProofs` | `LockTypeCorrect` | `TypeOK` is invariant |
| | `AlwaysSolvent` | custody covers what is owed, in the middle of calls too |
| | `DebtsAddUp` | what is owed is the sum of funded locks, credits and the payment under way |
| | `EveryoneGetsTheirShare` | between transactions every account has been paid, or is credited, exactly what its settled locks gave it, as long as transfers could be measured |
| | `KeepsThePromise` | `ConditionLock` implements `Escrow` |

**Settlement.** Recoverability alone is not inductive: a commit is decided from a
snapshot that was loaded earlier, so the invariant has to say what such a snapshot can
be. `IInv` adds

* `SnapshotsAreHistory`: a writer's snapshot is the context after some prefix of the
  journal. With the compare-and-swap on the revision, which grows by one per row, a
  commit that passes has the current context (`CommitIsCurrent`);
* `LookupsAreTrue`: what a writer found in the journal is there;
* `OutboxFollowsTheJournal`: each effect in the outbox or in the outside world is an
  effect of a journal row in the context before that row. With it, a first commit
  meets no key, since effect keys contain their source event;
* `AppliedWasCommitted`.

The proof splits every step into a commit or a quiet one (`StepCases`), shows that a
commit appends one row and keeps the earlier ones (`CommitAppends`), and preserves
each conjunct separately. The refinement needs one more conjunct,
`OrdersMatchContext`: what the context says has happened has been ordered. What a commit
does to journal, orders and outcome does not depend on who makes it, so these facts are
about `StoreCommit`, a first commit decided from the current context, and are proved once
in `StoreProofs` (`StoreCommitAppends`, `StoreCommitRecoverable`, `StoreCommitMatches`,
`StoreCommitIsPromised`). The writers owe that a commit which passes the compare-and-swap
is one (`CommitByIsStoreCommit`); the engine owes the same.

**Engine.** One engine has no stale snapshot, so its `IInv` is about the tick. `StoreInv`
relates the tables to each other and to the reorder buffer, `ControlInv` says where in a
tick which locals mean what: while records are ingested, the batch either goes forward
from the scanner, or is the reorg record of the scanner's last block and nothing else.
That no event is rejected follows from it alone, with no hypothesis on the environment.

So do recovery and the promise. `EngineWrites` says that each step of the daemon makes at
most one transaction, `EngineCommits` that a commit among them is a `StoreCommit`, and
`KeptInv` adds `Recoverable` and `OrdersMatchContext`, which `StoreProofs` shows to
survive it. `EngineRecovers` also justifies the model's own `Crash`, which starts again
from the tables without asking whether `recover` accepts them. It always does.

The scan theorems rest on what the scanner knows of the chain. As long as no reorg took
more than one block (`~deep`), all of a cursor but its last block is canonical, and the
last one too unless a longer chain has replaced it; that is `NearInv`. A cursor then never
steps back twice in a row, so its history does not matter, and the bounded one of the code
can be as short as one hash. `CoverInv` says that each observation on the stored cursor,
on the scanner's and on the target of the batch has its row, or its record is still to be
ingested.

Deeper reorgs need the history: `HistInv` says that what lies below the hashes a cursor
remembers is canonical, and so far below the tip that no reorg within the history's length
reaches it. It is kept when the history is no shorter than the deepest reorg. With either of the two,
a scan steps back to the block below its own last one (`BackInv`), and never to a block
it reads from the new branch. `BranchInv` then says that all rows that are not
invalidated, all parked envelopes and all held refunds are on one branch, the one of the
scanner or, from a point of the tick on, of its target; and that a `RevalidateFrom` that
is due points just above the scanner, so that dispatching it moves nothing. This is what a
crash or a failed read breaks, since both leave such an effect for a later tick.

`CtxInv` adds that each reorg is told once, and that the funding the context rests on is on
that branch; `FinalInv` that the evidence of a terminal, and of each refund confirmation
still parked, lies below the tip of the canonical chain, out of reach of a reorg of one
block.

The conditions of these theorems are predicates of the state, not restrictions of the
environment: `deep`, `crashes`, `failures` and `moves` remember what has happened, the
specification allows all of it at any time, and a theorem says what holds up to the first
such event. Nothing in the code prevents these events. The counterexamples of section 3
show that each condition is needed: a deep reorg (`finality_deep`, with a confirmation
left to spare), a move during a tick, a crash and a failed read each break
`TerminalStaysOnChain`, and a reorg deeper than the history breaks the coverage of cursor
and scanner. So `TerminalIsFinal` delimits what the code gives today; the sentence of the
source that the finding quotes promises more. `engine_reorgs` checks
`ObservationIsCanonical` for reorgs of two blocks, which the theorem does not cover; with
three reorgs it is false.

**Route.** Whether the snapshot forbids two exits of a leg says nothing of custody: a
process may have checked its work before the snapshot changed. So the invariant follows
the work in progress. `SentInv` relates what custody sent to the snapshot, and
`FullIsSent` says that a receipt in hand is true. `LockInv` says that whoever has the
stores open is the owner of the newest lease, lapsed or not, and that nobody else has them
open. Hence `JobInv`: from the claim of an effect until its receipt, the action stays
committed in the epoch of the process and its row stays pending and in its hands; until
the bytes are out, the action also stays dispatchable. No lease or claim needs to be good
for that, which is as well, since custody does not look again. The mutation that opens
the stores without their lock breaks it. `Valid` is the reducer's own
validation. `NoSplit` is needed because the reducer accepts an upstream refund next to a
committed downstream claim. It is the driver that never asks for it.

`Swap` is the same safety seen from the chains alone: no lease, journal or epoch, only
how much of each action is out and whether the secret is. It relates all six actions,
where the invariants take them in pairs. For the refinement, `sent` is how much is out
and the snapshot's `public` whether the secret is. Each send must meet the conditions of `Swap` when it
is made, long after the reducer checked them, and each publication must follow a
downstream claim unless others may publish (`Leaks`). The latter needs `PartIsSent`: an
answer that reports a part of an action is about something that was sent.

**Bridge.** `Ordered` (the second child is called only after the first has left),
`SecretAudit` (the secret state is what the stages say), `JobStage` (a call in progress
has its record, so a crash loses nothing), `Sends` (no bytes are out where the record
says, or an answer in hand is about to say, that they are not, on each port for the reason
its row gives) and `Finality` (no node
is ahead of the cluster, so what a non-empty quorum calls final is final, in the row and
in every answer still on its way). The audit needs a further invariant, `Aggregate`,
that holds only without invalidation queries.

**Contract.** Solvency is not inductive because a revert restores an earlier state.
`FrameInv` says that the guard keeps the stack at one frame, and that the state saved in
it owes what is owed now, covers it, and has the same exits (for `open`, all but the
lock's own). The refinement maps a lock whose `open` has not returned to "absent".

The sums over locks and accounts are written as the number of units, the cardinality of
the set of pairs of an index and a unit of it, so that facts about finite sets take the
place of an induction. `DebtInv` adds that custody fits an integer. With `AlwaysSolvent`
every credit then stays below `MaxUint`, so `_addSaturating` never saturates and no debt is
lost to it (`NoSaturation`). `CallDebt` says what a revert gives back: credits and payments
as the call found them. `ShareInv` extends `NobodyShortChanged` to the middle of a call,
where what is on its way counts as due, and where the measurements are judged by the state
that a revert would restore.

**Only model-checked.** Every liveness property (`FinalSpendEnds`, `EveryLockSettles`,
`PublicSecretIsClaimed`, `RecoveryRefunds`, `DueTimersFire`, `LandedBecomesFinal`,
`ExposureIsHandedOver`), since neither fairness nor ENABLED is within the prover's
reach; and `ObservationIsCanonical` for reorgs of exactly two blocks.

**Only proved.** `TypeOK` of `SettlementWriters`, which no run repeats. Every safety
property that a passing run checks has its theorem in the table above, for the engine's
scan and finality under the hypotheses stated there.

## 5. Not modelled

* Store errors in the middle of an engine tick: the transaction is rolled back and the
  tick ends, as after a crash but with the memory kept. Failed chain reads are modelled.
* The block page of a scan (64): larger than the chains explored.
* Several settlements on one outbox, the external-custody variants of commit and lease,
  schema migrations, counters at 2^63.
* `max_reorg_depth` of the terms, which the engine does not read.
* Route: the journal's hash chain and replay, order of outbox rows by priority and age
  (any dispatchable row may come first), more than one timer, renewal of a lease as a
  step of its own.
* Coordinator: creation and validation of a plan, the bound of 65536 observations per
  child and as many reconciliations, `FailedClosed` (it takes two outcomes of one attempt, and the attempt's token
  is consumed by the first).
* EVM, Bitcoin and Monero actuators: replacement by fee, nonces, construction of sweeps,
  executions that fail, the stages of a row after the first send.
* Signatures, evidence verification, encodings: an observation is what the adapter has
  verified.
* The DOM chain and its node, and the remaining interoperability crates, for the reasons
  listed in `PROJECT.json`. They are most of the repository's lines. A large share of
  them is cryptography, encodings, command lines and test harnesses; the rest is ahead in
  the plan.

## 6. Plan

Done: settlement machine, store, writers and engine; route machine, store and driver;
coordinator with its five child ports; EVM contract and abstract escrow; safety proofs of
all of these. Next, in this order:

1. **Solana escrow.** `src/programs/dom-solana-escrow` as a second implementation of
   `Escrow`, with claims that do not expire.
2. **Actuators.** Monero delivery, Bitcoin replacement by fee and EVM nonces behind the
   rows of `ChildPorts`.
3. **Route over settlements.** The custody of `RouteDriver` as an abstraction that
   `ChildPorts` implements.
4. **Engine, larger.** Scan pages as a parameter, two engines with reorder buffers,
   several settlements on one outbox, the other adapters.
5. **DOM node.** Mempool at its limit, reorg with undo and crash sentinel, orphan pool
   and future block queue.
6. **Proofs.** What of the engine's finality still holds after a crash or a failed read,
   and the observation it rests on under reorgs of two blocks.
