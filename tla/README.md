# Verification of the watcher's indexing core

The watcher follows several blockchains. For each chain it fetches blocks from a
node, keeps the ones it has seen and the transactions that match a set of
addresses in PostgreSQL, rolls back when the chain reorganises, fills gaps in
the background and emits events once a block has enough confirmations.  An
operator can ask for ranges to be stored again, and every call to a node goes
through a layer that counts calls against quotas and switches providers.

This directory holds TLA+ modules that model these parts, TLC configurations
that check them on small instances, and proofs that TLAPS checks.  Paths below are
relative to the repository.

Commands, run in this directory:

    tlc -config MCPipeline.cfg MCPipeline      # and the other runs below
    tlapm IndexerProofs.tla                    # and the other *Proofs modules

## 1. Inventory of the system

| Part | State | Operations | Talks to | Hard because |
|---|---|---|---|---|
| Pipeline (`internal/indexing/indexer`) | locals of `processNextBlock` | read cursor, jump, fetch, check parent, emit, commit | everything below | every call can fail; the node reorganises and the process dies between any two |
| Cursor manager (`internal/core/cursor`) | row of `cursors` | Initialize, Jump, SetState, Rollback, (Advance, Pause, Resume) | CursorRepo | state machine next to writers that ignore it |
| Reorg detector, handler (`internal/indexing/reorg`) | none | CheckParentHash, findSafePoint, Rollback | BlockRepo, TxRepo, cursor manager | rollback is a series of single writes |
| Finality buffer (`internal/indexing/emitter`) | events in memory by block number | QueueEvent, EmitBatch, OnNewBlock, (DiscardBlock) | inner emitter | reorgs put two blocks under one number; a crash empties it |
| Backfill processor (`internal/indexing/backfill`, fetcher in `internal/control/watcher.go`) | rows of `missing_blocks` | ProcessOne, Run | adapter, BlockRepo, TxRepo | writes the same tables as the pipeline without a lock |
| Recovery (`internal/indexing/recovery`) | rows of `failed_blocks` | HandleFailure, (ProcessNext) | FailedRepo | nobody retries |
| PostgreSQL repositories, unit of work (`internal/infra/storage/postgres`) | the tables | one SQL statement each, one transaction in the unit of work | database | upserts and conflict clauses decide what survives |
| Memory storage (`internal/infra/storage/memory`) | maps | the same interfaces | - | another write path in the pipeline, used without a database |
| Chain adapters (`internal/infra/chain`) | transaction cache of EVM and Sui | GetLatestBlock, GetBlock, GetTransactions, FilterTransactions | RPC layer | answers of two calls can come from two branches |
| Rescan worker, Redis queue (`internal/indexing/rescan`, `internal/infra/redis`) | queue, locks, progress in Redis | PopRange, PushRange, mergeQueueRanges, processRange, processChunk | Redis, adapter, repositories | several workers, TTLs, stops and crashes; no operation on the queue is atomic |
| RPC budget, routing, circuits (`internal/infra/rpc/budget`, `routing`) | counters of the day and the window, circuits | RecordCall, CanMakeCall, GetThrottleDelay, GetBestProvider, ForceRotate, Execute | providers | callers share the counters, limits, resets, failover |
| RPC providers, monitor (`internal/infra/rpc/provider`) | 429 and 403 counters, penalty | callRPC, executeREST, RecordThrottle, CheckProviderStatus | nodes | counters that only grow |
| Throttling, head cache (`internal/indexing/throttle`) | cached head | ComputeInterval, GetLatestBlock | adapter | stale head |
| Health, CLI, pruner, configuration | - | read-only, except `reset-cursor` and the pruner | database | `reset-cursor` races the pipeline; pruners are never started |

The interaction that matters: a **pipeline** goroutine and a **backfill**
goroutine per chain share one database and one node.  They share no lock.  The
pipeline is the only writer of the cursor; both write block and transaction
rows.  Two more groups of goroutines share state of their own: the **rescan
workers** (one per chain and process) share the Redis keys of the chain, and
**all callers** of a chain share its RPC coordinator.

What makes the core correct:

* no block between the start and the cursor is lost in silence;
* the rows form one chain;
* a rollback marks what it removes before it removes it;
* events of a block on the books are not lost while the process lives;
* once the node is stable, the indexer has the node's chain;
* every recorded gap is filled;
* a range that an operator asks for is stored, and a progress key never promises
  more than was done;
* the quotas of a provider are kept, and calls succeed again after a failure.

`PROJECT.json` lists the hazards line by line, with the property that would
catch each one.

## 2. Modules

| Module | Models | State |
|---|---|---|
| `Chain` | the node behind the adapters | `chain`, the node's view |
| `Storage` | tables and repository statements | `blocks`, `status`, `txs`, `cursor`, `missing`, `failed` |
| `Cursor` | cursor manager | - |
| `Finality` | `FinalityBuffer` | `pending`, `emitted` |
| `Pipeline` | `processNextBlock`, `jumpToHead`, detector, rollback handler, `HandleFailure`, unit of work | `pc` and the locals, `base`, `faults`, `crashes` |
| `Backfill` | `ProcessOne` and its fetcher | `bfPc`, `bfRow`, `bfNum`, `bfHash` |
| `Indexer` | both goroutines of one chain in one process | - |
| `Ledger` | no code: what the tables of a chain promise to a reader | `next`, `entries`, `gaps` |
| `Rescan` | rescan `Worker`, ranges, Redis `Client`, `Watcher.Stop` | `queue`, `locks`, `progress`; per worker `pc`, `job`, `chunks`, `num`, `todo`, `redis` |
| `Rpc` | `Coordinator.Execute`, budget tracker, router, proactive rotator, provider monitor | counters of budget, circuits and monitor; per caller `pc`, `cur`, `try`, `wait` |
| `IndexerProofs`, `RollbackProofs`, `LedgerProofs`, `FinalityProofs` | theorems about `Indexer` | - |
| `RangeProofs` | what merging and splitting ranges return | - |
| `RescanProofs`, `RpcProofs` | theorems about `Rescan` and `Rpc` | - |
| `MCPipeline`, `MCIndexer`, `MCRescan`, `MCRpc` | small instances | - |

`Pipeline` extends `Cursor` and `Finality` and is shown to implement `Ledger`;
`Indexer` extends `Pipeline` and `Backfill`.  `Rescan` and `Rpc` stand alone:
rescan workers upsert block rows and never touch the cursor, and to its callers
the RPC layer is a call that succeeds or fails, which is what `Pipeline`,
`Backfill` and `Rescan` assume of it.

**Grain.** A step ends where the goroutine calls the node or the database, since
another goroutine, the node or a crash can come in there.  `pc` names the call
that is next:

| `pc` | action | code |
|---|---|---|
| `idle` | `ReadCursor`, `InitCursor` | `pipeline.go` 200-225 |
| `lag` | `KeepPace`, `RecordGap` | 227-249, `pipeline_jump.go` 34-48 |
| `jump` | `JumpCursor`, `JumpFails`, `JumpUncertain` | `pipeline_jump.go` 50-64, 241-246 |
| `fetch` | `FetchBlock`, `NoNewBlock` | 251-260 |
| `check` | `CheckParent`, `DetectReorg` | 262-281, `detector.go` 31-75 |
| `walk` | `WalkBack`, `FoundSafePoint`, `ReorgTooDeep` | `detector.go` 79-128 |
| `orphan`, `revert` | `OrphanBlock`, `RevertTx` | `handler.go` 63-94 |
| `revert`, `rollback`, `reset` | `EnterReorg`, `RollbackCursor`, `LeaveReorg` | `handler.go` 96-104, `manager.go` 283-327 |
| `txs` | `EmitEvents`, `EmitFails` | 283-396, `finality.go` 30-105 |
| `commit` | `Commit`, `CommitUncertain` | 398-479, `unit_of_work.go` |
| any | `StepFails`, `RollbackFails`, `Crash` | the error returns |

The three writes of the rollback are three steps.  The unit of work is one step,
because it is one database transaction; `CommitUncertain` is the case where it
committed and the answer was lost.  `JumpUncertain` is the same for the jump:
`processNextBlock` only logs the error and goes on with the old target, while
the cursor is already at the head, and the commit of that target moves the
cursor back into the recorded gap.

In `Rescan` a step is one Redis command or one block, since another worker or
process can come in between any two:

| `pc` | action | code |
|---|---|---|
| `idle`, `clear`, `refill` | `ReadQueue`, `ClearQueue`, `Refill`, `MergeFails` | `mergeQueueRanges`, `worker.go` 246-284 |
| `pop`, `take` | `ReadFirst`, `QueueEmpty`, `TakeFirst`, `PopFails` | `PopRange`, `client.go` 65-93 |
| `lock`, `resume` | `AcquireLock`, `ChunkLocked`, `GetProgress`, `LockFails`, `GetProgressFails` | `processChunk`, 143-167 |
| `block`, `progress` | `ProcessBlock`, `SetProgress`, `FinishChunk`, `BlockFails` | 171-204, `processBlock` |
| `remain` | `PushRemaining` | 186-190 |
| `unlock`, `forget` | `ReleaseLock`, `ClearProgress` | the deferred calls, 154-161 |
| `requeue` | `Requeue` | 125-133 and 107-110 |
| any | `IgnoredFailure`, `LockExpires`, `ProgressExpires`, `Stop`, `Exit`, `Restart` | logged errors, TTLs, `Watcher.Stop` |

In `Rpc` a step ends where a caller waits, sends a request or has read counters
that another caller may change before it uses them: `Pick`, `NoProvider`
(`coordinator.go` 363-371), `Evade`, `WakeUp` (368-386), `Answered`, `NotFound`,
`Refused`, `Rejected` (394-423), `Failover`, `NoFailover` (424-431), and time:
`DayEnds`, `WindowEnds`, `CoolsDown`, `PenaltyEnds`.

**Abstractions of `Pipeline`, `Backfill` and `Indexer`.**

* A block is its hash; `Parent` and `TxsOf` give its parent and its matching
  transactions.  Address filter, parsing, receipts and amounts are folded into
  `TxsOf`.  `Parent[blocks[n]]` stands for the `parent_hash` column.
* The node moves to longer views only, so a head that was read earlier is at
  most the present one.  Every hash keeps its number, as in the unique index on
  `(chain_id, block_hash)`.
* The transactions of a block are the ones of the block that was fetched.  In
  the code, `GetTransactions` of the EVM adapter can refetch by number when the
  backfill has taken the cache in between (a hazard that is listed and planned).
* The events of one block travel together; how often they are delivered is left
  out.
* An error that returns before anything was written only makes the loop start
  over, and is modelled where it leaves a trace (a `failed_blocks` row, a
  half-done rollback, a recorded gap).
* `base` is a history variable: the block the cursor was initialized at.

**Abstractions of `Rescan`.**

* A block and its transactions are a number; `saved` and `owed` are history: what
  has been stored, and what was asked for and not stored since.  An error of
  `SaveBatch` is only logged in the code and does not show in the model.
* `due` is history, too: the numbers of `owed` that nobody was `Behind` when they
  were asked for, that is, no worker in the chunk had passed them and no progress
  key said they were done.  Storing a number settles it until it is asked for
  again.  A number that was never stored is always in `due` when it is owed.
* The queue holds ranges that parse, as everything `PushRange` writes does.  A
  member in another form (pushed by hand) makes `PopRange` return before its
  `ZREM` and every merge fail, so while it has the lowest score it blocks the
  queue; this is a listed hazard and not part of the model.
* Two ranges with the same start have the same score; which one Redis returns
  first is left open.
* A lost command may or may not have taken effect.  An error after `Stop` comes
  from the closed client and has had none.
* A TTL may end under a worker that is slow (a trouble), and always ends once
  nobody holds the key.
* The workers' context is never done while they run: `cli/root.go` cancels it
  after `Watcher.Stop` has returned and the process ends then.  The two
  `ctx.Done()` branches are therefore not actions.
* `calm` is history: it becomes false at a disturbance that can cost a range
  (a failing Redis command, a lock that expires under its holder, a process
  that ends, a push between another worker's read and clear).  A failing block
  and an expiring progress key are not among them.

**Abstractions of `Rpc`.**

* HTTP providers only.  The gRPC provider of Sui has no monitor.
* Latency, and with it the status degraded and the latency penalties, and the
  monitor's own count of requests (limit 100 000 in 24 h) are left out.
* Counters of calls and failures stop at the limit they are compared with.
  `recent` says that the circuit is open and less than a minute has passed since
  the last failure: the time of a failure matters only then.
* Time is the ends of a day, a window, a cooldown and a penalty; a wait is
  brief, to the end of the window or to the end of the day.
* `RotateProvider` chooses at random and regardless of state; every provider is
  possible.
* `paid` and `paidWindow` are history: the calls whose caller had asked the
  budget, which all but failover attempts do.  Like the tracker they count
  answers: `Execute` records a call only when it succeeded
  (`coordinator.go` 399-400), so a request that failed, which a provider may
  bill all the same, is in neither.
* `BatchCall` (receipts of the EVM adapter) bypasses `Execute` and is not
  modelled.

Operators marked `Mutant` are faulty variants of the definition below them.
No specification uses them; each stands for a bug that one of the properties
has to detect when it takes the definition's place.

**The abstract specification.**  `Ledger` is the indexer as a reader of the
tables sees it: `Open`, `Grow` by a child of the last block, `Note` a gap ahead,
`Skip` what is noted, `Cut` at the end.  `Pipeline` instantiates it as `Books`:
`next` is one above the cursor, an entry is a row between start and cursor
outside the recorded gaps (`OnLedger`), a gap is a number in a `missing_blocks`
row.  `ImplementsLedger == Books!Spec` then says that all the steps of a
commit, a rollback or a jump, with failing calls, crashes, reorgs of the node
and the backfill in between, are one step of the ledger or none.  A rollback is
one step although the code makes three or more writes; a commit whose answer was
lost is a step; orphaned rows above the cursor do not show.

## 3. Runs

| Run | Checks | Result |
|---|---|---|
| `pipeline` (`MCPipeline.cfg`) | `TypeOK`, `NoSilentGap`, `Linked`, `NoLiveRowAboveCursor`, `DepthLimitNotReached`, `EventsKept`, `StepBack`, `Convergence`, `ImplementsLedger` | hold; 125 154 states |
| `indexer` (`MCIndexer.cfg`) | `IndexerTypeOK`, `NoSilentGap`, `Linked`, `ImplementsLedger` | hold; 884 174 states |
| `backfill_live` (`BackfillLive.cfg`) | `GapsFilled` | holds without failing calls |
| `rescan` (`MCRescan.cfg`) | `RescanTypeOK`, `ProgressHonest`, `NothingLost`, `RangesSound`, `ChunkExclusive`, `Served` | hold; 391 094 states |
| `rpc` (`MCRpc.cfg`) | `RpcTypeOK`, `LimitsExceededByConcurrencyOnly`, `Resumes` | hold; about 247 000 states |
| `finality_reorg` (`FinalityReorg.cfg`) | `EmitOnlyStored` | violated |
| `reorg_txs` (`ReorgTxs.cfg`) | `TxsConverge` | violated |
| `backfill_stuck` (`BackfillStuck.cfg`) | `GapsFilled` with one failing call | violated |
| `backfill_race` (`BackfillRace.cfg`) | `RowsConverge` | violated |
| `rescan_lost` (`RescanLost.cfg`) | `AlwaysServed` with one stop | violated |
| `rescan_again` (`RescanAgain.cfg`) | `ServedAgain` with no trouble at all | violated |
| `rpc_resume` (`RpcResume.cfg`) | `Resumes` with the code's constants | violated |

**Bounds.** `MCPipeline` has heights 0 to 5 and five views, so that a reorg of
depth 1 or 2 can be followed by one back to the first branch, at every point of
the pipeline; a transaction is in both branches at the same height, another in
one only.  `MaxFaults = 2` lets two calls fail in a row or far apart,
`MaxCrashes = 1` puts one crash at every point, also inside a rollback.
`MaxDepth = 3` is deeper than any walk of that run.  `MCIndexer` has heights 0
to 4 and one reorg; `Threshold = 1` makes the pipeline jump, `MaxMissing = 2`
lets it jump a second time while the first gap is being filled.
`BackfillLive.cfg` sets `MaxDepth = 1`, where a mismatch below a jump exceeds
the limit.  `StartBuffer = 2` stands for the code's 10 and puts the start on
both sides of the guard.

`MCRescan` has two workers, the numbers 0 to 2 in chunks of two, and an operator
who twice asks for all of them: the range is split, both workers can pop it,
a failing block leaves overlapping copies that have to be merged, and the second
request meets locks and progress of the first.  `MaxTroubles = 1` puts one
trouble of any kind at any point.  `RescanLost.cfg` has one worker and one stop,
so that nothing but the stop can be the cause; `RescanAgain.cfg` has two workers
and no trouble, so that the cause is their interleaving.

`MCRpc` has two callers and two providers: one with a daily limit of 2 and a
window of 1, so that both limits are met and compete, one without limits, as in
a configuration with a paid and a public endpoint.  A daily limit of 2 has no last
quarter (that takes 5, beyond what a run can check), so the part of
`LimitsExceededByConcurrencyOnly` about it rests on the theorem `LimitsHold`.  The code's constants are
scaled down (`MaxAttempts` 3 to 2, `CircuitLimit` 5 to 2, `Tolerated429` 5 to 0)
so that two faults open a circuit or throttle a provider.  `RpcResume.cfg` has
the code's own constants, one provider and 42 faults; with 41 the property
holds.

**Deadlock** is checked in every run: the loops never end by themselves.

**Fairness.** Weak fairness of the steps in which no call fails, for each
goroutine, and of the restart.  Both loops (`Pipeline.Start`,
`Processor.Run`) call again after every outcome and wait a bounded time, the
goroutines share no lock, and the process is expected to run under a
supervisor.  Failing calls, crashes and the node are never fair, and the number
of the first two is bounded: liveness is a claim about what follows the last
one.

`Rescan` adds weak fairness of the steps of each worker (the loop of `Run` has
no other exit), of the end of a process that was told to stop (`root.go` gives
it 15 seconds), of the restart, and of the TTL of a key that nobody holds.
`Rpc` adds weak fairness of each caller (a request ends after 5 seconds at the
latest, every wait is a timer) and of the passing of days, windows, cooldowns
and penalties.  Faults are not fair, and bounded.

### What the violated properties show

Each one states what a comment or a document of the repository says.

* `finality_reorg`: "only emit when safe" (`finality.go:12`).  `DiscardBlock` is
  never called, so the events of the orphaned block go out as well.
* `reorg_txs`: "Mark orphaned blocks and transactions" (`reorg.go:14`).  A
  transaction that is included again at the same height keeps its invalid row.
* `backfill_stuck`: "Background worker fills gaps" (`docs/architecture.md:119`).
  After one error the row stays in `processing` and is never selected again.
* `backfill_race`: "Verify parent hash consistency"
  (`docs/architecture.md:56`).  Rows written around a gap jump are not compared
  with their neighbours.
* `rescan_lost`: "The `rescan.Worker` will automatically pick up this range"
  (`docs/troubleshooting.md:61`).  `Watcher.Stop` closes Redis before the
  workers end, so a range that was popped is not pushed back.
* `rescan_again`: "If you just need to re-fetch/re-process a specific range of
  blocks [...], use the Rescan Worker via Redis" (`docs/troubleshooting.md:25`).  A
  second request is dropped where a worker has passed its numbers for the first
  one: the chunk is still locked (`worker.go:149`), or the lock is gone and the
  progress key is not yet cleared (`worker.go:155` and `158`).
* `rpc_resume`: "resumes once providers are functional"
  (`docs/troubleshooting.md:17`).  The monitor's counters never go down; 42
  answers with status 403, however far apart, put a single provider out of use
  until the process is restarted.

Two more statements are not what the code does, although nothing goes wrong
with the tables; the run `pipeline` goes through both cases.

* "ErrCursorInReorg is returned when trying to advance during reorg"
  (`manager.go:25`).  The pipeline advances through `UnitOfWork.AdvanceCursor`,
  which looks at no state.  A crash inside the rollback leaves the state at
  reorg, the cursor moves on under it, and `Convergence` holds all the same.
* "If a reorg exceeds the `finality_blocks` threshold, the indexer might encounter
  a hash mismatch it cannot resolve automatically. In this case, it will log a
  critical error and stop" (`docs/troubleshooting.md:49`).  No code compares the
  depth of a reorg with `finality_blocks`.  The walk of `findSafePoint` is over
  stored rows, which are linked, so it ends at its first iteration
  (`DepthLimitNotReached`) and each pass of the loop rolls back one block: the
  run resolves a reorg of depth 2 with one confirmation (`Convergence`), and the
  proof is for every depth.  The limit that exists is `MaxDepth`, for walks over
  rows that are not linked; beyond it the pipeline logs an error each second and
  does not stop (`ReorgTooDeep`).

The properties that hold are stated with that in mind: `Linked` speaks of the
rows outside recorded gaps, `EventsKept` of the time before the first crash
(the buffer is memory), `NoLiveRowAboveCursor` and `StepBack` of runs without a
jump.  `Convergence` asks for the `processed` status only where nothing failed:
a rollback that is cut short after its first write leaves its block marked
orphaned even when the node returns to it.  `NothingLost`, `ChunkExclusive` and
`Served` speak of the time before a disturbance that can cost a range (`calm`),
and `NothingLost` and `Served` of `due`: they hold of a second request as of the
first, except for what a worker had just passed (`rescan_again`).  That a merge
loses a range which is pushed between its read and its clear is among the
disturbances, so no property is about that loss.  `ProgressHonest` holds under all
of them.  `LimitsExceededByConcurrencyOnly`
puts a number on the race between asking and counting: one call too many for
every other caller, and, for the window, the calls of the last quarter of the
day's limit, where `GetThrottleDelay` looks at the day first.  `Resumes` holds
although a circuit that opened never closes and the day is only reset by a
successful call, because a provider is probed a minute after its last failure
and because callers that waited send without asking again.  It holds within the
bound on faults; `rpc_resume` shows that more of them end it.

## 4. Proofs

TLAPS proves the following for every value of the constants that satisfies the
named assumptions, hence for any chain length, number of reorgs, faults,
crashes, gaps, workers, requests, providers, callers and limits.  The assumptions
are `ChainAssumption` (the views are linked chains of hashes),
`ConfirmationsAssumption`, `PipelineAssumption`, `AdapterAssumption` (numbers
are naturals, the depth limit is not 0), `RescanAssumption` and `RpcAssumption`
(numbers are naturals, chunks are not empty, there is a provider and at least
one attempt, the callers are a finite set).  Bounds on faults, requests
and troubles are arbitrary naturals.

| Theorem | States | Module |
|---|---|---|
| `Invariance` | `Spec => []IndexerInv` | `IndexerProofs` |
| `TypesHold`, `PipelineTypesHold` | `Spec => []IndexerTypeOK`, `[]TypeOK` | |
| `GapsAreRecorded` | `Spec => []NoSilentGap` | |
| `RowsAreLinked` | `Spec => []Linked` | |
| `RollbackInvariance` | `Spec => []RollbackInv` | `RollbackProofs` |
| `RowsAboveAreOrphaned` | `Spec => []NoLiveRowAboveCursor` | |
| `WalkStopsAtOnce` | `Spec => []DepthLimitNotReached` | |
| `RollbackMarksFirst` | `Spec => StepBack` | |
| `LedgerInvariance` | `Spec => []LedgerInv` | `LedgerProofs` |
| `TablesAreALedger` | `Spec => ImplementsLedger` | |
| `EventsAreKept` | `Spec => []EventsKept` | `FinalityProofs` |
| `MergeRangesSound`, `SplitSound` | what `MergeRanges` and `Split` return | `RangeProofs` |
| `RescanInvariance` | `Spec => []RescanInv` | `RescanProofs` |
| `RescanTypesHold` | `Spec => []RescanTypeOK` | |
| `RangesAreSound` | `Spec => []RangesSound` | |
| `ProgressIsHonest` | `Spec => []ProgressHonest` | |
| `ChunksAreExclusive` | `Spec => []ChunkExclusive` | |
| `NothingIsLost` | `Spec => []NothingLost` | |
| `RpcInvariance` | `Spec => []RpcInv` | `RpcProofs` |
| `RpcTypesHold` | `Spec => []RpcTypeOK` | |
| `LimitsHold` | `Spec => []LimitsExceededByConcurrencyOnly` | |

So every invariant that a run checks is proved, and of the action properties
`StepBack` and the refinement.  The theorems about `Indexer` are about pipeline
and backfill together.  Each inductive invariant was checked with TLC on the
instance of its run before it was proved.

**The tables** (`IndexerInv`, in `Indexer`).  `NoSilentGap` and
`Linked` are not inductive.  The commit is only right because the parent check
still holds when it runs (`ParentChecked`), and because of where the target lies
(`TargetNext`): one above the cursor, or, after a jump whose answer was lost, at
or below it with every number from the target to the cursor in a recorded gap.
The jump is only right because the gap is on record when the cursor moves
(`GapRecorded`), even when the backfill has completed the row in between.  Completing a row is only right because the
backfill has stored every block of it (`BackfillProgress`).  The lemmas show
that the pipeline only adds rows (`PipelineOnlyAdds`), that the backfill writes
inside recorded gaps and takes no coverage away (`BackfillCoverage`,
`BackfillKeepsPipeline`), and that a crash or the node changes nothing of this.

**The rollback** (`RollbackInv`) holds as long as no gap was jumped.
Rows then start right above `base` (`RowsAboveBase`) and are linked, so the
walk of `findSafePoint` stops at its first iteration (`WalkEndsAtOnce`,
`FirstIteration`): the depth limit is not reached (`WalkStopsAtOnce`), the
rollback always goes back one block, whatever the depth of the reorg, and the
single block that `Rollback` marks is the one it leaves.  `RollbackOrder` keeps
track of what has been marked.

**The refinement** (`LedgerInv` next to `IndexerInv`).  With gaps a walk can go
back further, while `Cut` takes off one block or, across a gap, no two that
follow each other.  `WalkSpan` carries that through the walk: it goes on only from
a pair of stored rows that are not linked, and two neighbouring numbers on the
ledger always are (`NeighboursLinked`).  `GapsAboveBase` and `GapRecorded` let
`Note` and `Skip` simulate `jumpToHead`; a commit is a `Grow`, or, inside a gap
after a jump whose answer was lost, a `Cut`, a `Skip` or nothing.  `PipelineBooks` takes the actions one by one;
`OthersBooks` shows that backfill, node, crash and restart do not show.

**The events** (`EventsInv`).  A block is committed one step after its events
were handed to the buffer; `EventsQueued` says that they are still there, or out,
whichever calls fail in between.

**Ranges.**  `MergeRanges` is a fold over the set of queued ranges, `Split` a
function of the division of its length.  The induction theorems of the library
take an operator, which the provers cannot instantiate; `NatSetInduction` states
induction for a *set* of naturals instead, and the inductions are over
`{k \in Nat : ...}`, the sizes of sets of ranges.  `MergeDefined` shows that the
fold's recursion defines a function, `AbsorbSound` is the step from one range to
the next, in the order of their starts.

**The rescan workers** (`RescanInv`).  `HandInv`: a worker has a chunk or a list
exactly where its next step needs one.  `PassedInv`: what lies below the number
a worker is at is stored, whether it stored it or a key told it to skip it; with
that `ProgressHonest` survives expired locks, stops and workers that overlap.
Its part `DueAhead` says that no worker and no key gets past a number that is due
without storing it.
`LockInv`: while nothing disturbs, the locked chunks are the held ones, so a
worker that skips a locked chunk leaves what is due of it to a worker that has
it still to do (`HolderServes`).  `CoverInv`: a worker that returns from an error pushes all it
had left, and one that clears the queue has on its list all that it clears,
unless a push came in between, which `calm` records.

**The budget** (`RpcInv`).  The bound on the paid calls is not inductive, because
several callers can be past `CanMakeCall` at once.  `DayInv` adds the callers that
will send whatever the budget says by then (`Committed`): paid and committed
together stay within `Explained`.  A caller commits itself only while the tracker
counts less than the limit, when the tracker has seen every paid call, or after
the day is over, when the count starts anew; and it is one of at most
`Cardinality(Caller)`.  `WindowInv` is the same for the window, in three phases
of the day: before the last quarter there are the window's own calls only; in the
last quarter, where `GetThrottleDelay` answers briefly whatever the window says,
every call brings the day nearer to its end; after it the day's limit stops
everyone.  `RetryInv` bounds the attempts.

**Only model-checked:** `Convergence`, `GapsFilled`, `Served` and `Resumes`
(liveness under fairness is out of the prover's reach), and the violated
properties, which are refuted by a counterexample.

## 5. Not modelled, and why

See `components` in `PROJECT.json`.

* *Generated code.*  Some 21 000 of the 35 000 lines of Go are protobuf and gRPC
  code for Sui, and 1 200 are sqlc code.  They have no logic of their own; the
  SQL statements behind the sqlc code are what `Storage` models.
* *I/O and data without control:* transport, JSON and ABI parsing in the chain
  adapters, receipts, metrics, logging, the health server, configuration loading,
  the interval of the throttle controller.
* *Code without a caller in the production wiring:* `Pause`, `Resume`, `Advance`,
  `DiscardBlock`, `ProcessNext`, `VerifyWithRPC`, the revert callback, the
  backfill detector, the pruner, the Redis failed-block store, `Coordinator.Call`
  with its retries, the other rotation strategies, `GetRotator` (which would keep
  its read lock).
* *Modes that are left out:* memory storage with the pipeline's branch for it;
  `reset-cursor`, a write by hand that the invariants about the cursor exclude;
  the transaction cache that pipeline and backfill share in the EVM adapter;
  `BatchCall`; the gRPC provider.

Because of the first three the share of the implementation's lines that the
definitions stand for stays low; of the hand-written Go it is about a quarter,
and the part that is left is mostly of the second kind.

## 6. Plan

1. *Done:* `Chain`, `Storage`, `Cursor`, `Finality`, `Pipeline`, `Backfill`,
   `Indexer`; `Ledger` and the refinement; `Rescan`; `Rpc`; every invariant of the
   runs proved, with five inductive invariants and the refinement.
2. Theorems next: what the rollback keeps when gaps were jumped (which rows can
   stay live above the cursor); action properties of `Rescan` (a progress key that
   is written never goes back under its lock) and of `Rpc` (a circuit opens only
   at its limit).
3. The transaction cache of the EVM adapter in `Indexer`: which branch the saved
   transactions belong to.
4. The write path without a database: memory storage, `Cursor.Advance`, the
   order of its single writes.
