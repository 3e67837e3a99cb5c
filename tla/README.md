# Verification of the sigmalok indexer

The sigmalok indexer follows the Ergo chain through three Kafka topics, picks out
the transactions of the lok contract, keeps them in SQLite and serves them over
HTTP. This directory holds TLA+ models of its actors and its database, TLC
configurations that check them on small instances, and TLAPS proofs of their main
properties for every instance.

    tlc -workers 2 -config MCIndexerReorg.cfg MCIndexer      # any run below
    for m in FeedProofs IndexerProofs StreamProofs CursorProofs ResumeProofs \
             StoreProofs ManagerProofs HealthProofs
    do tlapm $m.tla; done                                     # the proofs

`PROJECT.json` lists the components, runs, mutants, the source lines behind every
definition, the findings, the hazards and the theorems.

## 1. Inventory

All paths are below `src/internal/` unless they say otherwise.

    Ergo node -> streaming service -> Kafka: block, transaction, mempool topic
        |                                         | one reader goroutine each
        | GetNodeInfo                             v
        +------------------------------->  IndexerActor
        |                                         | IndexerBlockEvent, IndexerRollbackEvent,
        |                                         | IndexerTransactionEvent, ...UnappliedEvent,
        |                                         v IndexerMempool...Event
        |                                StrategyManagerActor (broadcast)
        | GetSpendingProof                        v
        +------------------------->  ChainEventProcessorActor      HealthCheckActor
                                                  | one gorm transaction per write
                                                  v
                                     SQLite: lok tables, cursor table  <- API

| Component | State it keeps | Operations | What makes it correct |
|---|---|---|---|
| IndexerActor (`actors/indexer.go`) | three readers, cursor `lastProcessedHeight`, `tipHeight`, `completed`, early-transaction buffers, `emittedBlocks`, offset sets, `pendingDownstream` | startKafka with seek, Receive: reader messages of three kinds, reader errors, RestartReader, SetDownstream, GetStatus | a transaction is sent while its block is the current one; nothing is sent twice; the cursor passes only what was sent, and does pass it; at rest the stream equals the node's chain |
| Resume (same file: seekToLiveCursor, seekUsingStoredOffsets, seekToCursorPoints) | the same, from the cursor table | verify a stored point with the node and the topics, or scan | nothing between the point and the crash is lost or skipped |
| StrategyManagerActor (`actors/strategy_manager.go`, `strategy_registry.go`) | strategy instances and configs, indexer pid, restart history | load, unload, broadcast, restart protocol; an automatic restart that no message ever reaches | nothing but its own failure takes a process away from the manager; a restart request brings indexer and critical strategy back under the process id the manager sends to; the circuit breaker trips exactly on time |
| ChainEventProcessorActor (`strategy/chain_event_processor_strategy.go`, `action_handlers.go`, `filter.go`, `helpers.go`, `mempool_cache.go`) | `processingFailed`, `blockInfoMap`, `mempoolTxMap` | block, transaction, unapplied, rollback and mempool events; genesis, mint, funding and redeem handlers | rows tell the truth about the chain, each effect is written once, a cursor point never runs ahead of the rows |
| Database (`database/`) | SQLite tables block, contract, mint_tx, key, designate, funding_tx, token_event, redeem_tx, cursor | Check..., Write..., ...Mempool, Update...ToConfirmed, Rollback..., cursor functions | tables agree with each other after any sequence of calls |
| HealthCheckActor (`strategy/health_check_strategy.go`) | last height and time, failures in a row, last alert | ticks, alerts | an alert exactly when the answers call for one, at most one per cooldown |
| API, ApiActor (`api/`, `actors/api_actor.go`) | none of its own | reads | readiness answer agrees with its reasons |
| Queries, aggregates, mapper (`database/`) | none | read-only SQL | - |
| Startup, configuration (`src/cmd/indexer/main.go`, `config/`) | configuration | run once | defaults and validation |
| Types, metrics, logging, notifier, docs | none that matters | output | - |

Behaviours that are hard to test, and that the properties are for:

- **Interleaving.** Two goroutines read the block and the transaction topic; only
  the order within each is fixed. Transactions come long before or after their
  block, and fork switches come in between. The manager waits for its children to
  stop in the middle of a handler, while others fail.
- **Redelivery.** A restarted reader reads its topic again from the position
  remembered at the start of the process, or from the beginning.
- **Crashes.** Rows and the cursor point behind them are written in separate
  database transactions, as are the cursor points and the blocks that a rollback
  deletes, and the deletion of a superseded mempool row and the row that takes its
  place. The actors die one by one too: the engine replaces a
  receiver that panicked under the same process id.
- **Forks.** Two branches share heights; `blockInfoMap` and `completed` are keyed
  by height alone. A block may come back after it was taken off the chain.
- **Mempool.** A transaction may be announced before it is mined, together with
  competitors, or late, after it was mined, and its confirmation must find or
  replace the right row.
- **Partial failure.** GetNodeInfo and GetSpendingProof fail, a read of the seek
  times out half way, messages do not decode, a row cannot be written and the
  strategy latches `processingFailed`.

`PROJECT.json` lists 40 such hazards at their lines with the properties that
cover them, and says of the others why none does.

## 2. Modules

| Module | Models | Extends |
|---|---|---|
| `ChainFeed` | external: the node's best chain and the three topics, as the indexer decodes them | - |
| `Indexer` | IndexerActor, a fresh start, every message handler | `ChainFeed` |
| `StrategyStream` | abstract: what the strategies rely on, blocks known and transactions delivered | - |
| `IndexerStream` | the refinement mapping from `Indexer` to `StrategyStream` | `Indexer` |
| `Resume` | IndexerActor over several lives of the process: cursor table, seek | `Indexer` |
| `EventStream` | the stream as the processor meets it, with resumes from a cursor point | `ChainFeed` |
| `LokDatabase` | the tables and the functions of `database/` that write them | `ChainFeed` |
| `ChainEventProcessor` | the strategy over the stream and the tables, crashes and panics | `EventStream`, `LokDatabase` |
| `StrategyManager` | StrategyManagerActor, the engine's processes | - |
| `HealthCheck` | HealthCheckActor over arbitrary answers at arbitrary times | - |
| `MCIndexer`, `MCResume`, `MCProcessor`, `MCManager` | instances for TLC (`HealthCheck` needs none) | |
| `FeedProofs` | facts about the topics and the chain that other proofs share | `ChainFeed` |
| `IndexerProofs` | proofs about `Indexer`: types, cursor, order, deduplication | `Indexer`, `FeedProofs` |
| `StreamProofs` | the refinement, and MirrorsChain | `IndexerProofs`, `IndexerStream` |
| `CursorProofs` | CursorBacked | `StreamProofs` |
| `ResumeProofs` | proofs about `Resume`, with an instance of `StreamProofs` for each life | `Resume`, `StreamProofs` |
| `StoreProofs` | proofs about `ChainEventProcessor` | `ChainEventProcessor`, `FeedProofs` |
| `ManagerProofs`, `HealthProofs` | proofs about `StrategyManager`, `HealthCheck` | |

### ChainFeed

A topic is an append-only sequence; a position in it is an offset. Offsets count
from 1, so that 0 keeps its meaning of "none" in the code. `PublishApply(b)`
appends one BlockApply and the AppliedEvents of `b`, `PublishUnapply(b)` takes the
best block off the chain; a fork of depth two is two of the latter, and a block may
join the chain `MaxApplies` times. Publishing is atomic over the topics: a reader
lags behind each topic by as much as it likes, so no order that a reader could see
is lost. `malformed` messages do not decode. The field `chain` of a block message is
history for the properties.

### Indexer

The variables carry the names of the fields of `IndexerActor`. A handler runs
alone in its actor and becomes one action; the early returns of `emitBlockApply`,
`bufferOrProcessTx` and `processMempoolMessage` become actions of their own
(`SkipDuplicateApply`, `DropApplyOnNodeError`, `BufferAppliedTx`, ...) whose guards
exclude each other. The loops of a handler are closed forms:

- `tryAdvanceCursor` is `TryAdvanceCursor(comp)`: the cursor moves to the only `k`
  up to which all heights are done and behind which one is not.
- The replay of early transactions in `emitBlockApply` calls `tryAdvanceCursor`
  after every one. Where the block is next to the cursor, the height is passed at
  the moment the expected count is reached, and what is replayed after that no
  longer finds its state: `StateAfterReplay`.
- `pruneOldBuffers` runs at the end of both block handlers: `PruneOldBuffers`.

A reader goroutine and its part of the mailbox are one index, because both are
FIFO. `downstream` is a history of what was sent, `Produced` adds what is still
held back before SetDownstream.

### StrategyStream, IndexerStream

`StrategyStream` is all that a strategy needs: a set `known` of blocks, one per
height, and the transaction messages `delivered`, each of a block that is known and
none twice. It knows nothing of topics, offsets' order, buffers or cursors.
`IndexerStream` reads both variables off the events produced, so that an event held
back until SetDownstream counts when it is produced. `ImplementsStream` is checked
by `reorg` and proved in `StreamProofs`.

### Resume

`startKafka` is one handler, but it reads the topics while it runs, and the node
goes on meanwhile: each attempt at a cursor point is an action, in the order of the
code: does the node know the block (`SkipPoint`), are block and transaction where
the stored offsets say (`SeekUsingStoredOffsets`, or `StoredOffsetsFail`, which has
moved one or both readers by then), a scan from there on (`ScanFinds`,
`ScanGivesUp` on a timeout, `ScanFails` on any other error), the next point, and
`NoValidPoint` behind the last. Then the handlers of `Indexer` run with
`cursorLoaded`. The cursor table at a crash is derived from `downstream`: a point
for every block whose transactions were all sent and that was not rolled back,
which is what `ChainEventProcessor` establishes. A transaction that does not parse
latches the strategy's `processingFailed`, so what a process sends from there on
writes and deletes no point (`Handled`). `StoredPlace` is all that
seekUsingStoredOffsets compares: the apply message of the point's block, and an
applied transaction that parses and is the point's own. A strategy that lags behind is a
crash at an earlier point of the stream over topics as long. A row's id is its
place in the stream, which orders the rows as their insertion does; `Newest` is the
row that GetCursorPoints (ORDER BY id DESC) puts first. `lives` is a history
of how each seek ended. `Gap` names the starts that reached no point and yet did
not begin at the first message of either topic, `TxReaderAhead` the start that
reached a point while the transaction reader stood beyond it (section 6).

### EventStream, LokDatabase, ChainEventProcessor

In `EventStream` a transaction waits at the head of its topic until its block has
been emitted, and is skipped when its block was rolled back before.
`TxWithinItsBlock` and `ImplementsStream`, proved for `Indexer`, are what justifies
it. Two things of the indexer that a strategy notices are kept. A resumed indexer
compares a transaction with its cursor when it reads it, not when it delivers it:
one read early (`BufferTx`) keeps the answer it got, although the cursor may be past
it by then. And a block is lost when GetNodeInfo does not answer (`DropBlock`): it
and its transactions are never sent, the blocks behind it are, and get their cursor
points; `dropped` remembers it. Sending an event and handling it are one step,
because the mailbox of the strategy is FIFO and the strategy does not send anything
back. `RestartAt(point)` is a resume whose verification succeeds.

`LokDatabase` has one operator per function of `database/`. gorm runs each write in
one SQLite transaction: it happens as a whole, or it reports an error and nothing
changes, which is why the `Can...` predicates (primary keys, rows that must exist)
stand apart. Foreign keys are not enforced: SQLite does so only when the
connection asks, and `connOpts` (database.go:43) does not; so the CASCADE
constraints of the models delete nothing. `key` stands for the tables key and
designate, which every function writes, moves and deletes together. The cursor
table is a set of rows with ids, because the order of the points is that of
insertion; only that order is used.

`ChainEventProcessor` has one action per event. `RecordTx` is the body of
the four handlers for a confirmed transaction, `RecordMempoolTx` for an
unconfirmed one. The volatile state (`failed`, `info`, `cache`) is lost in a
crash, the tables stay. `CrashBeforeCursorPoint`, `CrashInRollback` and
`CrashAfterEvict` are the three places where a crash falls between two database
transactions of one event.
`PanicOnWithdrawn` is a panic the code has outside its recovers
(chain_event_processor_strategy.go:280): the engine runs a fresh actor in the
middle of the stream, with no block known and `processingFailed` forgotten; the
history variable `cleared` says that this wiped out a failure.
Two choices over-approximate the code: mempool events may reach the strategy at
any time and in any order (the code drops them below the tip), and
`AddCursorPoint` may keep any suffix of at most `MaxCursorEntries + 1` points,
because the cleanup is random and ids have gaps after rollbacks. `Unwritable`
transactions are those on which a write function returns an error or panics, such
as a redemption with a single input (`filter.go:457`).

### StrategyManager

The handlers of the manager are actions; `handleIndexerRestartRequest`, which waits
twice in the middle, is three (`DecideRequest`, `StrategyStopped`,
`IndexerStopped`), and `handling` keeps every other handler out meanwhile, while
processes go on stopping and failing. The engine is external: a process id names at
most one process, spawning one that exists does nothing. Spawning and tracking are
one step, because a new child cannot stop within those statements. A child fails in
one of two ways: the engine runs a new receiver under its process id, which has
forgotten what it was told by message (`ChildPanics`), or gives it up (`ChildDies`);
`broken` remembers both until a process is spawned in its place.

The handler of ActorStoppedEvent (strategy_manager.go:135-176) and the two automatic
restarts behind it (343-401) are not modelled, because they never run: in the
pinned version of the engine (hollywood v1.0.5) stops go to subscribers of its
event stream only, and nothing in `src` subscribes. A process that the engine gives
up stays tracked and stays away until a restart request. Nothing sends
UnloadStrategyCommand either, and the sender of restart requests is unused
(`nolint:unused`); their handlers are modelled, whoever calls them. `clock` is the
time of the last restart request. `Unknown` strategies are of a kind the registry
does not have: loading one spawns the indexer and nothing else.

### HealthCheck

A tick is handled whenever the mailbox gets to it, so each check happens at an
arbitrary later time with an arbitrary answer: none, a height, or an answer without
a height, on which the handler dereferences nil and the engine replaces the actor
(`CheckPanics`). `checks` and `alerts` are histories; the properties compare the
two without using the actor's timers.

## 3. Runs

Deadlock is not checked: the node may stop publishing, and every bound ends a
behaviour.

| Run | Expect | Properties | Instance (distinct states) |
|---|---|---|---|
| `reorg` | pass | TxWithinItsBlock, CursorBacked, MirrorsChain, ImplementsStream | two branches from height 2, two unapplied blocks, a block that joins twice, one failed GetNodeInfo (587,247) |
| `faults` | pass | TypeOK, TxOffsetSentOnce, CursorTight | one fork, blocks of one transaction and of none, one restart of any reader, one malformed and one mempool message, a transaction that does not parse (1,269,548) |
| `block_restart` | violation | BlockOffsetSentOnce | one fork, a restarted block reader |
| `resume` | pass | ResumeTypeOK, TxKnownSinceStart, LivesMirrorChain, CursorReachesTipAgain | one fork, one crash, two failing reads of the seek, one restart of the transaction reader, a transaction that does not parse on the new branch, fairness (1,179,235) |
| `resume_fallback` | violation | FallbackStartsOver | no fork, one crash, three failing reads |
| `store_crash` | pass | TypeOK, ResumeLosesNothing, TokenEventsOnce, KeyMatchesMint, EventuallyRecorded | no fork, two crashes, one panic, one failed lookup, one dropped block, two of five announcements, fairness (574,596) |
| `store_fork` | pass | CursorPointExact, CursorOnBranch, ConfirmedWasMined | two branches, two unapplied blocks, one crash, one panic, one of two announcements, one of them unwritable (969,621) |
| `store_rollback` | violation | RollbackCascades | one fork |
| `store_funding` | violation | ReplayedFundingSkipped | one crash |
| `store_resume` | violation | SkippedWasProcessed | one fork, one crash |
| `manager` | pass | TypeOK, BreakerTrips, OnlyFailuresDisconnect, RequestHeals | threshold 2, window 2, four requests, two deaths, two panics, two commands, one strategy of an unknown kind, fairness (497,891) |
| `health` | pass | TypeOK, AlertsJustified, CriticalAlerted, AlertsSpaced | two failures, cooldown 1, stagnation 2, heights 0 to 2, one restart, five checks until time 5 (593,557) |

What the properties say:

- **TxWithinItsBlock**: a transaction is sent after the event of its own block,
  with no rollback of its height or a lower one and no other block of its height in
  between. It carries a height only, so otherwise a strategy would write it into
  the other branch, or fail for good.
- **ImplementsStream**: every step of the actor is one announcement, delivery or
  rollback of `StrategyStream`, or invisible to the strategies. In particular a
  handler that sends a block and replays its early transactions sends nothing else.
- **MirrorsChain**: when both topics have been read to the end, the strategies know
  exactly the node's chain, and every transaction of it from the intercept height on
  was sent, after the last announcement of its block if the block joined once.
  Two limits are the code's. When GetNodeInfo fails, the block at the tip is
  dropped and never read again (`DropApplyOnNodeError`); the property excludes
  that. When a block joins twice and the transaction reader is ahead, the second
  transactions are sent to the first announcement (indexer.go:949-950), the rollback
  takes both, and nothing follows the second announcement; of such a block the
  property asks only that its transactions were sent at some time.
- **CursorBacked** and **CursorTight**: the cursor passes a height only after a block
  there was announced and as many transactions of it sent as it has; and it never
  rests next to a height that is done. CursorBacked says nothing of a height at which
  the strategies ever heard a rollback: the code counts it as done, and passes it
  before the new block is announced. A block without transactions satisfies it
  unannounced.
- **TxOffsetSentOnce**: no transaction message is sent twice, after the restart of
  any reader. The instance keeps the offset set below its limit: over it, the code
  forgets the oldest half and the redelivered messages count as new.
  **BlockOffsetSentOnce** is the same for blocks, and fails (section 6).
- **TxKnownSinceStart**: whatever the seek did, a process sends a transaction only
  after it announced the block itself: the strategy that started with it knows
  nothing else. A restarted block reader would break this too, for the reason
  `block_restart` shows, so the instance restarts the other reader.
- **ResumeTypeOK**: besides the types, every cursor point can be verified: block
  and transaction are where a seek will look for them, so it is given up only
  for a call that fails.
- **LivesMirrorChain**: over all lives of the process every transaction of the
  node's chain was sent once the last one has caught up. It excludes a `Gap`, a
  rollback read by any process that had resumed (`ForkAfterResume`, for
  SkippedWasProcessed shows the loss), and a failed GetNodeInfo. What forks up to the
  first resume is covered, and what forks while no process runs as far as the seek
  takes the next one behind it.
- **CursorReachesTipAgain**: the cursor reaches the node's height in
  spite of crash and restarts. It excludes a `Gap`, a failed GetNodeInfo, and
  `TxReaderAhead`, for which it is false of the code (section 6). Three failing
  reads are needed to get there, and `resume` has two; with three, all properties of
  the run were checked on the same instance (1,399,939 states, nearly four minutes).
  As the new branch of `resume` holds a transaction that does not parse, no cursor
  point is written there; with one that does, so that a process may resume behind the
  fork, the properties were checked as well (1,432,763 states).
- **ResumeLosesNothing**: the chain that ends in the block of a cursor point is
  stored and confirmed in full, but for blocks that were dropped because GetNodeInfo
  failed (indexer.go:823), so starting behind the point loses nothing that was not
  lost before. A dropped block is lost for good: the points of later blocks pass
  over it, and a resume starts behind it. The property holds without forks. With
  forks and a crash it does not, see SkippedWasProcessed in section 6; a failed
  lookup (`tryMatchLokBoxAction` returns -1) makes a lok transaction pass as none;
  and a panic that replaces a failed actor (`cleared`) lets the next complete block
  get a point behind what the failure dropped, although setProcessingFailed says
  that "all subsequent events will be blocked"
  (chain_event_processor_strategy.go:377). Two withdrawals that do not parse do it:
  the first empties `blockInfoMap`, so that the block under way fails, the second
  forgets the failure. The property excludes the last two.
- **CursorPointExact** and **CursorOnBranch**: a cursor point names the apply message
  of its block and the last transaction of that same block, and no point survives
  the rollback of its height. Both are keyed by height in the code and must hold
  across branches. After `processingFailed` rollbacks are dropped, so
  CursorOnBranch is about a strategy that is still processing. It speaks of one
  restart: a resume from an old point leaves newer points in the table, which a
  second restart may jump to, over the rollback of the first one's points.
- **ConfirmedWasMined**: a confirmed row was mined at its height, a contract in the
  very block whose hash is stored. Rows of an abandoned branch stay (section 6), so
  it speaks of what was once mined, not of the current branch.
- **TokenEventsOnce**, **KeyMatchesMint**: effects in a second table are written once
  and move together with their transaction, whatever the order of announcement,
  mining, replacement, crash and replay. The instance of TokenEventsOnce announces
  no competing geneses: RollbackGenesisByTxID, which removes the one that lost,
  counts on the same cascade as `store_rollback` and leaves its token events.
- **EventuallyRecorded**: every lok transaction of the node's chain is stored and
  confirmed in the end, in spite of crashes, but for those of dropped blocks, and
  unless the strategy latched a failure or a lookup failed. The stream goes on behind
  a dropped block.
- **BreakerTrips**: a restart request is decided as a full reset exactly when it is
  the threshold-th of those inside the window and after the last full reset. What
  the decision is worth is another matter: `RestartHeight` is not passed on to
  NewIndexerActor, which resumes from the database in either case (the comment at
  strategy_manager.go:487 speaks of a full reset).
- **OnlyFailuresDisconnect**: whenever the manager is between two messages, the
  indexer and every configured strategy run under the process id the manager sends
  to and know the manager, or have themselves failed since they were spawned. No
  order of loads, unloads, requests and stops, and no failure while the manager
  waits for another process, takes a healthy process away. One that did fail
  stays so: an indexer that the engine replaced in place is not told its downstream
  again and keeps all its events, and one that is given up is not replaced.
- **RequestHeals**: a restart request ends that, whatever failed before it or fails
  while it is handled: there is a moment at which indexer and critical strategy are
  freshly connected, unless the strategy was unloaded. A request whose strategy is
  no longer tracked only counts (`BreakerTrips`).
- **AlertsJustified**, **CriticalAlerted**, **AlertsSpaced**: no false alarm, no
  silence, no storm, in terms of the answers and their times. A node that reports
  height 0 never stagnates, because 0 is the code's "none observed yet".

**Bounds.** Three heights with two branches contain what the code can tell apart: a
block before, at and after a fork, of either branch, read before, between and after
its transactions. A block with two transactions can be seen half way, a fork of
depth two meets a rollback while another one is pending, and `MaxApplies = 2` in
`reorg` lets a chain come back to the branch it left. `Lookback` is 1 so that
pruning removes something within three heights. One reader restart or two crashes
suffice to replay a handler and to crash again in the replay, one dropped block
(`MaxNodeErrors`) lies before, between or behind cursor points. One lok with a
competitor for each kind of row, and a second lok mined on the other branch only,
collide in every primary key. In the store runs a block joins once: with a block
that joins twice the transactions buffered before its rollback are delivered again,
and `TransactionCount` would be decremented below 0 and wrap; `Indexer`, where this
happens, is checked with it. Four requests with a threshold of two have every
relation to the edge of the window, before and after a full reset; five checks hold
a streak, a recovery, a stagnation and a cooldown in each order. Every bound is a
constant named in the module that uses it.

**Fairness.** `Resume` and `StrategyManager`: weak fairness of `Work` as a whole. The
process does not stop while a read or a message is pending; hollywood delivers every
message of a mailbox, and a poisoned process ends. Nothing is assumed of the node, of
operators or of faults, nor of a report that nobody sends. `ChainEventProcessor`:
weak fairness of handling what is in the topics. Crashes, panics and requests are not
fair, they are only bounded in number.

## 4. Proofs

For every finite set of blocks, every chain and fork pattern, all bounds, limits and
all faults the constants allow (`FeedAssumption`, `IndexerAssumption`,
`ManagerAssumption`, `HealthAssumption`...: types of the constants, a finite set of
blocks, an intercept height at most one above the greatest height):

| Theorem | States | If |
|---|---|---|
| *`IndexerProofs`* | | |
| `TypeCorrect` | `Spec => []TypeOK` | |
| `CursorIsTight` | `Spec => []CursorTight` | |
| `TxInOrder` | `Spec => []TxWithinItsBlock` | block reader not restarted |
| `TxSentOnceWithinLimit` | `Spec /\ []WithinLimit => []TxOffsetSentOnce` | |
| *`StreamProofs`* | | |
| `IndexerImplementsStream` | `Spec /\ []WithinLimit => ImplementsStream` | block reader not restarted |
| `StrategiesMirrorChain` | `Spec /\ [][NoStraggler]_vars => []MirrorsChain` | block reader not restarted |
| *`CursorProofs`* | | |
| `CursorPassesTheTold` | `Spec /\ []WithinLimit => []CursorBacked` | block reader not restarted, `SomeParse`, `InterceptHeight > 0` |
| *`ResumeProofs`* | | |
| `ResumeTypeCorrect` | `ResumeSpec => []ResumeTypeOK` | |
| `TxKnownInItsLife` | `ResumeSpec => []TxKnownSinceStart` | block reader not restarted |
| `ResumedLivesMirrorChain` | `ResumeSpec /\ []WithinLimit /\ [][running /\ ~cursorLoaded => NoStraggler]_resumeVars => []LivesMirrorChain` | block reader not restarted, no block joins twice |
| *`StoreProofs`* | | |
| `KeyMovesWithMint` | `Spec => []KeyMatchesMint` | |
| `CursorStaysOnBranch` | `Spec => []CursorOnBranch` | |
| `ConfirmedTellsTruth` | `Spec => []ConfirmedWasMined` | |
| `StoreTypeCorrect` | `Spec => []TypeOK` | no block joins twice |
| `CursorNamesOnePlace` | `Spec => []CursorPointExact` | no block joins twice |
| `TokensWrittenOnce` | `Spec => []TokenEventsOnce` | no two geneses of one lok in the mempool |
| `ResumingLosesNothing` | `Spec => []ResumeLosesNothing` | no forks |
| *`ManagerProofs`* | | |
| `ManagerTypeCorrect`, `ManagerBreakerTrips` | `Spec => [](TypeOK /\ BreakerTrips)` | |
| `ManagerStaysConnected` | `Spec => []OnlyFailuresDisconnect` | |
| *`HealthProofs`* | | |
| `HealthTypeCorrect`, `NoFalseAlarm`, `AlertsKeepCooldown`, `HealthAlertsCorrect` | `Spec => []` of TypeOK, AlertsJustified, AlertsSpaced, and of these with CriticalAlerted | |

"Block reader not restarted" is `"block" \notin RestartTopics`; a restart of it really
breaks these properties (`block_restart`). The other conditions are explained below.

**TypeCorrect.** TypeOK is not inductive: a replayed transaction is looked up in the
topic by a stored offset, so the buffers must hold offsets of existing messages of
the right kind and block (`HoldsOffsets`); and `sendDownstream` appends either to
the events sent or to those held back, so nothing may be held back once
SetDownstream was handled (`NothingHeldBack`). `TypeInv` adds the three; each
handler has a lemma that it preserves them and says what it sends and leaves.

**CursorIsTight.** Every handler that changes `completed` calls tryAdvanceCursor on
the result, except EmitBlockApply for a block with no early transactions whose
height may be next to the cursor: there the block has transactions and none has
been seen. Pruning only removes states. The step lemmas carry both.

**TxInOrder.** That a transaction is in order depends on `emittedBlocks`, the only
thing the handler looks at. The invariant `OrderInv` ties it to the node's chain:

- `ChainInv`: the best chain has one block per height.
- `LogInv`: each message of the block topic changes the chain before it by just its
  block, at its upper end.
- `IndexInv`: every emitted block is on the chain at the reader's position. This is
  the crucial part: a block that is emitted has no other emitted block at its
  height, and a rollback takes the upper end only.
- `OpenInv`: an emitted block is open, that is, the last word the strategies
  heard about its height.
- `TxInv`: TxWithinItsBlock, of everything produced, sent or held back.

A block reader that goes back in its topic breaks IndexInv, so the theorem excludes
it. The restart of the other two readers, node errors, malformed messages and
pruning are included.

**TxSentOnceWithinLimit.** `DedupInv`: what was sent or is buffered is in the offset
set, no buffer holds an offset twice or one that was sent, and no two buffers share
one. `WithinLimit` says that the set has not been cut, which is the assumption the
code makes when it calls the limit large enough. Restarts of all readers are
included.

**IndexerImplementsStream.** A step appends at most one block or rollback event and
then transactions of that block (`AfterHead`); with OrderInv the block of a single
transaction is known, with DedupInv its message is new. The rest relates
`KnownBlocks` before and after such a step.

**StrategiesMirrorChain.** The theorem is MirrorsChain with its exclusions: a failed
GetNodeInfo, and the second announcement of a block that joined twice. `MirrorInv`:
the strategies know the chain as it was at the block reader's position, and every
message of a block of the node's chain is sent or on its way: unread while its block
is known or awaited (its apply message lies ahead), or buffered while it is awaited.
`NoStraggler` says of each step that no transaction of the node's chain still to be
sent is of a height that pruneOldBuffers would drop. Without it the property is
false of the code: when, after a fork, more than `Lookback` empty blocks pass the
cursor before the transaction reader has delivered the new block's transactions, the
block is dropped from `emittedBlocks` and its transactions are buffered for a block
that will not be announced again: `MaxStragglersLookback` (100) is how far behind a
straggler may be. In `reorg` three heights are too few for it, so MirrorsChain holds
there as it stands. That a transaction was sent *after the last announcement* of its
block comes from two more invariants: a block that joined once has one apply message
(`JoinsInv`), and each message of the block topic is announced once, after it was
read (`BlockEventsInv`). So the announcement that TxInv finds before the transaction
is the one that makes the block known at the end.

**CursorPassesTheTold.** The theorem speaks, as CursorBacked does, of the heights at
which the strategies have never heard a rollback: any other height counts as done,
and the cursor passes it whether the new block there was announced or not.
`CountInv`: the `blockState` of a height counts no more transactions than were sent
of the block announced there, unless the strategies have heard a rollback of the
height; by DedupInv a counted message is sent for the first time. It has been sent
no more than the block has, because what is sent before anything of it is withdrawn
is one run of the topic (`FirstRun`). Three conditions remain. `SomeParse`: each
block with transactions has one that parses. An unapplied transaction that does not
parse is skipped before it is counted or sent, so of a block with nothing else the
actor never hears that it was withdrawn, and when it joins again more is sent of it
than it has (TLC finds this with two applies of such a block). `InterceptHeight >
0`: with 0 the cursor starts at 0, as if that height had been passed. `WithinLimit`
as in TxSentOnceWithinLimit.

**ResumeTypeCorrect.** That a seek puts the readers to positions their topics have
is not a matter of types: `EventsGenuine` says that each event sent carries the
offset of the message it was made from, and a row of the cursor table (`StandsAt`)
is written from such events, and from none whose transaction does not parse
(`Handled`). So the block and the transaction a point names are where it says
(`PointsGenuine`), when it is written and, because topics only grow, forever; the
scan finds the first apply message of its block, and `Newest` is a row.

**TxKnownInItsLife.** What one process sends, `LifePart`, is the `downstream` of an
IndexerActor of its own: `L == INSTANCE StreamProofs WITH downstream <- LifePart`.
Within a life each step of the process is a step of that actor (one lemma per
handler), so the step lemma of TxInOrder applies to it as it stands. A life begins
with nothing sent and nothing kept in memory; then OrderInv asks of the block reader
no more than that it is inside its topic, which is why the theorem needs nothing of
where a seek ended, found or not.

**ResumedLivesMirrorChain.** Not a property of each life but of all of them
together: what earlier processes sent has to reach up to where the last one started
from, along a chain that may have forked before that. The theorem has the exclusions
of LivesMirrorChain: any number of crashes and failing reads, but only forks that no
resumed process reads (`ForkAfterResume`; one that does loses transactions, as
`store_resume` shows), no start that is a `Gap`, and no failed GetNodeInfo.
`LivesInv` has two parts.

- `PointInv`: a row of the cursor table stands for the chain up to it: of every block
  up to the row that is still on the node's chain, all messages were sent. A row is
  read from the table after a crash only, so it is the crash that has to establish
  this for the rows the last life added: below a new row's block every transaction
  was read before the row's own, or was sent by an earlier life; and
  the rows that were there before keep the claim, because the topics only grow and no
  block comes back (`AppliedOnce`).
- `LifeInv(t)`, for a `t` in which the life finds itself: `t` is where the
  transaction reader began. What lies before `t` was sent by an earlier life
  (`EarlierSent`); from there on the reader leaves nothing out (`ReadInOrder`); and
  each message that this life has to answer for (`Due`) is sent, unread while its block
  is known or awaited, or buffered (`OnItsWay`, as in StrategiesMirrorChain), or lies
  before `t`. A resumed process skips what is at or below its cursor; `LoadedInv` says
  that this is never above the blocks read and has all been seen.

A seek that finds a point begins a life with PointInv of that point, whichever way
it was found and wherever it left the transaction reader; that it may be *ahead* of
the point costs nothing sent, only the cursor (section 6). A seek that finds none
begins at the first messages, or it is a `Gap`. The rest are helpers: where the
readers are while the seek runs (`PlaceInv`), that they stay inside their topics
(`TopicsInv`), deduplication and known blocks of the life (`MemoryInv`, from `L`),
that a life announces each block message once, so that the one block event of a
point's block is the one its transactions followed (`LifeEventsInv`), and in
`FeedProofs` the history of the topics: a block is applied once and on the chain
from then until it is unapplied (`HistoryInv`), and two chains that share a block
share what is below it (`SharedInv`). `WithinLimit` and `NoStraggler` are as above,
the latter for a process that has not resumed: one that has does not roll back here,
and its stragglers are sent. In `resume` all four conditions hold. Whether
`AppliedOnce` could be dropped is open: on a line of two blocks of which one joins
twice, with a crash and a failing read, TLC finds no violation (some 670,000 states).

**KeyMovesWithMint, CursorStaysOnBranch, ConfirmedTellsTruth.** The three invariants
of the store. `MintInv` adds the types of the rows; every database function writes
mint and key together or neither. `BranchInv` says where the points of the table
come from: before the first restart and after it, each lies on the chain at the
reader's position as long as the strategy processes. `TruthInv` joins the two
topics: the row of a transaction is written at the height of the block in `info`,
and only a block that is on the chain at the reader (`KnownInv`) can be there; one
block per height makes it the block of the transaction, unless the actor has
failed, and then nothing is written.

**CursorNamesOnePlace, StoreTypeCorrect.** The messages that apply a block lie one
behind the other in the transaction topic (`RunsInv`), and a count of
`blockInfoMap` is never less than what the reader has still before it of the block
(`CountsInv`): only the last message brings it to 0 and writes the point, and none
takes it below. Both need that no block joins the best chain twice (`AppliedOnce`: at
most one apply of each, or no rollbacks). When one does, the second run of its
messages is counted with the first, and a point is written in the middle: TLC shows
CursorPointExact violated with `MaxApplies = 2`.

**TokensWrittenOnce.** Token events are appended behind a check for the row of their
transaction, so they are written once as long as that row stays (`TokensInv`).
RollbackGenesisByTxID removes it without them, hence `GenesisOnce`: the mempool
announces no two geneses of one lok.

**ResumingLosesNothing.** On a chain that does not fork (`MaxUnapplies = 0`) and
whose blocks hold no transaction twice. A block before the reader was sent, is not
above the point resumed from, or was dropped (`SentInv`): only of the last does the
theorem claim nothing, for it is lost. What else the stream passes over is below the
intercept height or behind a point (`DoneInv`); everything before the reader and
everything up to a point is confirmed, but for dropped blocks (`KeptInv`); and
without a rollback nothing confirmed is taken away (`AllStay`). A failed lookup and
a panic that wipes out a failure (`cleared`) are excluded as in the property. With
forks the property is false of the code (SkippedWasProcessed).

**ManagerBreakerTrips.** `restartHistory` is exactly `Counted` of the last request
(`HistoryKept`), times do not decrease (`TimesGrow`), and a full reset leaves none.
**ManagerStaysConnected.** `Connections`: the flag and the pid of the indexer agree
(`SpawnedIsTracked`); what is not tracked is gone (`UntrackedIsGone`), so loading it
spawns a new process; what the manager has waited for is gone (`WaitedForIsGone`), so
its successor is new as well; and what it is to run is connected, has failed, or is
being replaced (`ConnectedUnlessReplaced`).

**HealthAlertsCorrect.** The timers are related to the histories: the failures in
a row to the last answers, the observed height and its time to the last progress,
the last alert to `alerts`; the properties follow from that.

Only model-checked: the liveness properties (CursorReachesTipAgain,
EventuallyRecorded, RequestHeals), which are beyond the prover. Every invariant
and action property that a passing run checks is stated by a theorem.

## 5. Left out

- The collection of `mempoolTxMap`: it runs on an IndexerStatusEvent, and nothing in
  the program sends one. For the same reason `currentTipHeight` never changes.
- `lastSuccessfullyIndexedBlock...`: written, logged, and used only by
  `triggerIndexerRestart`, which nothing calls.
- IndexerTransactionUnappliedEvent is only logged by the strategy (`PassOverTx`), and
  so is IndexerMempoolWithdrawnEvent unless it panics.
- Transactions that do not parse: `Indexer` and `Resume` have them (`Unparsable`);
  in the store an applied one latches `processingFailed` like any other error and is
  not a case of its own. An accepted announcement that does not parse already panics
  the manager (strategy_manager.go:114); a manager that the engine replaced knows no
  strategy, and nothing loads them again. That restart is not modelled.
- A strategy that the manager starts again while the indexer runs on: it misses the
  events in between, because the indexer is not restarted with it. Only the
  engine's replacement in place is modelled (`PanicOnWithdrawn`).
- Errors of SQLite itself (disk full, locked), and of reading a cursor point.
- In StrategyManager: the handler of ActorStoppedEvent and the automatic restarts,
  which no message reaches (section 2); reading the configuration; and what the old
  indexer's events, still in the manager's mailbox, do to a strategy started after it.
- API, ApiActor, queries, mapper: read only. An API actor that
  the engine replaces is not told the indexer's process id again, and it waits
  for that before it serves.
- Configuration: the defaults of CheckInterval and AlertCooldown (config.go:165 and
  171) are plain numbers, which as durations are nanoseconds; the models take any
  value.
- Values: amounts, addresses, fee parameters, register contents, timestamps, the
  wording of alerts and whether the webhook takes them.

## 6. Where the code and its comments disagree

- `block_restart`: `lastBlockOffset` is set by a resume only, although it is
  described as the last known good offset, so a restarted block reader of a fresh
  start goes back to the beginning. There is no offset set for blocks, and
  `emittedBlocks` forgets a block that was rolled back, so its old apply
  message is sent again and the strategies are put back on an abandoned branch.
- `resume_fallback`: when no cursor point can be reached the messages say that the
  indexer starts from the intercept height (indexer.go:293 and 582); the block
  reader stays where the last scan left it, and what is before it is never sent.
- No run of its own: where the scan finds a block "the transaction reader will catch
  up" (indexer.go:549). It does when it is behind. When the stored offsets of a newer
  point failed at its transaction, it stands at that transaction; if then that point's
  scan and the stored offsets of an older point fail too, and the scan finds the older
  one, the transactions between the two are not read in this process. They were
  sent by an earlier one, so nothing is lost, but the heights between are never
  complete and the cursor stays below them until a restart (`TxReaderAhead`).
- `store_rollback`: `Rollback` deletes rows of table block and relies on a cascade
  that the connection does not enable; the lok rows of the old branch stay. The
  same comment stands at rollback.go:59, where a mempool genesis is replaced.
- `store_funding`: CheckFundingTxExistsAndUnconfirmed does not look at the column
  confirmed (the mint, genesis and redeem versions do). A funding replayed after a
  crash becomes an error, and the strategy stops for good.
- `store_resume`: after a resume, transactions at or below lastProcessedHeight are
  skipped as processed. A rollback does not lower lastProcessedHeight, it rather
  completes the height, so that the cursor may pass it. When a fork replaces the
  block resumed from, or any later block, the new block's transactions are lost.

## 7. Plan

Done: the stream, with order, deduplication, cursor, refinement and completeness
proved; the resume with its seek, checked, and proved within each life and over all of
them; the store with
crashes, panics and forks, checked, and all its invariants proved under the
conditions of section 4; manager and health check, checked and proved. Left, in this
order:

1. The processor as the manager starts it again: a stream with a hole, and the
   points written behind it. With it, the restart of the manager itself.
2. `EventStream` between two restarts as a refinement of `StrategyStream`, so that
   both sides of the mailbox are held to the same specification.
3. `Readiness` of the API and the configuration defaults as operators, compared
   with what their comments promise.
