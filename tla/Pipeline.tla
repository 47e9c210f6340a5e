------------------------------ MODULE Pipeline ------------------------------
(***************************************************************************)
(* The indexing goroutine of one chain: Pipeline.processNextBlock          *)
(* (internal/indexing/indexer) with the reorg detector and handler, the    *)
(* recovery handler and the gap jump it calls.  A step ends where the      *)
(* goroutine calls the node or the database and another goroutine, the     *)
(* node or a crash can come in between.  pc names the call that is next.   *)
(*                                                                         *)
(* An error that returns before anything was written only makes the loop   *)
(* start over; it is modelled where it leaves a trace.                     *)
(***************************************************************************)
EXTENDS Cursor, Finality

CONSTANTS
  Threshold,    \* GapJumpThreshold, 0 to switch jumps off
  StartBuffer,  \* blocks below the head at which a new cursor starts (10)
  MaxDepth,     \* reorg Config.MaxDepth (0 in the config means 100)
  MaxFaults,    \* bound: failing calls
  MaxCrashes    \* bound: crashes of the process

ASSUME PipelineAssumption ==
  /\ Threshold \in Nat /\ StartBuffer \in Nat /\ MaxDepth \in Nat \ {0}
  /\ MaxFaults \in Nat /\ MaxCrashes \in Nat

VARIABLES
  pc,       \* the next call of the goroutine, "down" when the process is
  target,   \* targetBlockNum
  fetched,  \* the hash of the block it fetched
  head,     \* the head it is jumping to
  safe,     \* findSafePoint: the walk's current block, then its result
  reverts,  \* transactions that Rollback has yet to mark invalid
  base,     \* history: the block number the cursor was initialized at
  faults,   \* failing calls so far
  crashes   \* crashes so far

locals == <<target, fetched, head, safe, reverts>>
pipelineVars == <<pc, locals, base, faults, crashes>>

PC == {"idle", "lag", "jump", "fetch", "check", "walk", "orphan", "revert",
       "rollback", "reset", "txs", "commit", "down"}

NoBlock == [num |-> 0, hash |-> NoHash]

PipelineInit ==
  /\ pc = "idle"
  /\ target = 0 /\ fetched = NoHash /\ head = 0
  /\ safe = NoBlock /\ reverts = {}
  /\ base = 0 /\ faults = 0 /\ crashes = 0

Goto(l) == pc' = l /\ UNCHANGED <<base, crashes>>

(* processNextBlock returns; the loop calls it again.                       *)
Return ==
  /\ Goto("idle")
  /\ target' = 0 /\ fetched' = NoHash /\ head' = 0
  /\ safe' = NoBlock /\ reverts' = {}

Fault == faults < MaxFaults /\ faults' = faults + 1

-----------------------------------------------------------------------------
(* Where to start. *)

ReadCursor ==
  /\ pc = "idle" /\ CursorExists
  /\ target' = cursor.num + 1
  /\ Goto("lag")
  /\ UNCHANGED <<fetched, head, safe, reverts, faults, dbVars, finalityVars>>

(* Mutant: the subtraction without its guard.                               *)
StartBlockUnguarded == Latest - StartBuffer

StartBlock == IF Latest > StartBuffer THEN Latest - StartBuffer ELSE Latest

InitCursor ==
  /\ pc = "idle" /\ ~CursorExists
  /\ Initialize(StartBlock)
  /\ target' = StartBlock + 1
  /\ base' = StartBlock
  /\ pc' = "lag"
  /\ UNCHANGED <<fetched, head, safe, reverts, faults, crashes, finalityVars,
                 blocks, status, txs, missing, failed>>

-----------------------------------------------------------------------------
(* The gap jump.  The head comes from HeadCache or from the node, so it is  *)
(* the present head or an older, lower one.                                 *)

LagsBehind(l) == Threshold > 0 /\ l > target - 1 + Threshold

(* The lag is within the threshold, or the head could not be read.          *)
KeepPace ==
  /\ pc = "lag"
  /\ Goto("fetch")
  /\ UNCHANGED <<locals, faults, dbVars, finalityVars>>

(* Mutant: the gap is recorded from one block too high.                     *)
RecordGapOffByOne(l) ==
  /\ pc = "lag" /\ LagsBehind(l)
  /\ AddMissing(target + 1, l)
  /\ head' = l
  /\ Goto("jump")
  /\ UNCHANGED <<target, fetched, safe, reverts, faults, finalityVars,
                 blocks, status, txs, cursor, failed>>

(* jumpToHead, first half: record the gap.                                  *)
RecordGap(l) ==
  /\ pc = "lag" /\ LagsBehind(l)
  /\ AddMissing(target, l)
  /\ head' = l
  /\ Goto("jump")
  /\ UNCHANGED <<target, fetched, safe, reverts, faults, finalityVars,
                 blocks, status, txs, cursor, failed>>

(* jumpToHead, second half: move the cursor.                                *)
JumpCursor ==
  /\ pc = "jump"
  /\ Jump(head)
  /\ Return
  /\ UNCHANGED <<faults, finalityVars, blocks, status, txs, missing, failed>>

(* The error is logged and the target is processed as usual; the row that   *)
(* was recorded stays.                                                      *)
JumpFails ==
  /\ pc = "jump"
  /\ Fault
  /\ Goto("fetch")
  /\ UNCHANGED <<locals, dbVars, finalityVars>>

(* The update reached the database and its answer was lost: the target is   *)
(* processed as usual, with the cursor already at the head.                 *)
JumpUncertain ==
  /\ pc = "jump"
  /\ Jump(head)
  /\ Fault
  /\ Goto("fetch")
  /\ UNCHANGED <<locals, finalityVars, blocks, status, txs, missing, failed>>

-----------------------------------------------------------------------------
(* Fetching the block and checking its parent. *)

FetchBlock ==
  /\ pc = "fetch" /\ target <= Latest
  /\ fetched' = BlockAt(target)
  /\ Goto("check")
  /\ UNCHANGED <<target, head, safe, reverts, faults, dbVars, finalityVars>>

NoNewBlock ==
  /\ pc = "fetch" /\ target > Latest
  /\ Return
  /\ UNCHANGED <<faults, dbVars, finalityVars>>

(* Mutant: a parent that is marked orphaned counts as not stored.           *)
ParentMatchesLive ==
  \/ ~Stored(target - 1)
  \/ status[target - 1] = "orphaned"
  \/ blocks[target - 1] = Parent[fetched]

(* CheckParentHash *)
ParentMatches == ~Stored(target - 1) \/ blocks[target - 1] = Parent[fetched]

CheckParent ==
  /\ pc = "check" /\ ParentMatches
  /\ Goto("txs")
  /\ UNCHANGED <<locals, faults, dbVars, finalityVars>>

DetectReorg ==
  /\ pc = "check" /\ ~ParentMatches
  /\ safe' = [num |-> target - 1, hash |-> NoHash]
  /\ Goto("walk")
  /\ UNCHANGED <<target, fetched, head, reverts, faults, dbVars, finalityVars>>

(* findSafePoint, one iteration a step.  It stops at block c if c is not    *)
(* stored, its parent is not stored, or the two rows are linked.            *)
StopsAt(c) ==
  \/ c = 0
  \/ ~Stored(c)
  \/ ~Stored(c - 1)
  \/ Parent[blocks[c]] = blocks[c - 1]

SafePoint(c) ==
  IF c > 0 /\ Stored(c)
  THEN [num |-> c - 1, hash |-> blocks[c - 1]]
  ELSE [num |-> c, hash |-> NoHash]

TooDeep(c) == target - c > MaxDepth

FoundSafePoint ==
  /\ pc = "walk" /\ StopsAt(safe.num)
  /\ safe' = SafePoint(safe.num)
  /\ Goto("orphan")
  /\ UNCHANGED <<target, fetched, head, reverts, faults, dbVars, finalityVars>>

WalkBack ==
  /\ pc = "walk" /\ ~StopsAt(safe.num) /\ ~TooDeep(safe.num - 1)
  /\ safe' = [safe EXCEPT !.num = @ - 1]
  /\ UNCHANGED <<pc, base, crashes>>
  /\ UNCHANGED <<target, fetched, head, reverts, faults, dbVars, finalityVars>>

-----------------------------------------------------------------------------

(* Mutant: the safe block is marked in place of the orphaned one.           *)
OrphanSafeBlock ==
  /\ pc = "orphan"
  /\ UpdateBlockStatus(safe.num, "orphaned")
  /\ reverts' = TxsByBlock(safe.num + 1)
  /\ Goto("revert")
  /\ UNCHANGED <<target, fetched, head, safe, faults, finalityVars,
                 txs, cursor, missing, failed>>

(* Handler.Rollback(safe + 1, safe): one block is marked, whatever the      *)
(* depth of the walk was. *)
OrphanBlock ==
  /\ pc = "orphan"
  /\ UpdateBlockStatus(safe.num + 1, "orphaned")
  /\ reverts' = TxsByBlock(safe.num + 1)
  /\ Goto("revert")
  /\ UNCHANGED <<target, fetched, head, safe, faults, finalityVars,
                 txs, cursor, missing, failed>>

RevertTx(t) ==
  /\ pc = "revert" /\ t \in reverts
  /\ InvalidateTx(t)
  /\ reverts' = reverts \ {t}
  /\ UNCHANGED <<pc, base, crashes>>
  /\ UNCHANGED <<target, fetched, head, safe, faults, finalityVars,
                 blocks, status, cursor, missing, failed>>

(* Mutant: the cursor is rolled back before all transactions are marked.    *)
EnterReorgEarly ==
  /\ pc = "revert"
  /\ RollbackState
  /\ Goto("rollback")
  /\ UNCHANGED <<locals, faults, finalityVars,
                 blocks, status, txs, missing, failed>>

EnterReorg ==
  /\ pc = "revert" /\ reverts = {}
  /\ RollbackState
  /\ Goto("rollback")
  /\ UNCHANGED <<locals, faults, finalityVars,
                 blocks, status, txs, missing, failed>>

RollbackCursor ==
  /\ pc = "rollback"
  /\ RollbackBlock(safe.num, safe.hash)
  /\ Goto("reset")
  /\ UNCHANGED <<locals, faults, finalityVars,
                 blocks, status, txs, missing, failed>>

LeaveReorg ==
  /\ pc = "reset"
  /\ SetState("scanning")
  /\ Return
  /\ UNCHANGED <<faults, finalityVars, blocks, status, txs, missing, failed>>

(* A call of Rollback fails: what was written before it stays.              *)
RollbackFails ==
  /\ pc \in {"revert", "rollback", "reset"}
  /\ Fault
  /\ Return
  /\ UNCHANGED <<dbVars, finalityVars>>

-----------------------------------------------------------------------------
(* Events, then the unit of work. *)

(* GetTransactions, FilterTransactions, EmitBatch and OnNewBlock.           *)
FinalNow == Final(Queued(target, fetched), target)

EmitEvents ==
  /\ pc = "txs"
  /\ EmitBlock(target, fetched, FinalNow)
  /\ Goto("commit")
  /\ UNCHANGED <<locals, faults, dbVars>>

(* OnNewBlock fails part of the way; the error is only logged.              *)
EmitFails(done) ==
  /\ pc = "txs" /\ done # FinalNow
  /\ EmitBlock(target, fetched, done)
  /\ Fault
  /\ Goto("commit")
  /\ UNCHANGED <<locals, dbVars>>

(* Mutant: a block without a matching transaction is not saved.             *)
PersistMatchesOnly ==
  /\ IF TxsOf[fetched] # {}
     THEN SaveBlock(target, fetched, "processed")
     ELSE UNCHANGED <<blocks, status>>
  /\ SaveTransactions(target, fetched, TxsOf[fetched])
  /\ UpdateBlock(target, fetched)
  /\ UNCHANGED missing

(* UnitOfWork: SaveBlocks, SaveTransactions, AdvanceCursor and Commit.      *)
(* AdvanceCursor is UpsertCursorBlock and looks at no state.                *)
Persist ==
  /\ SaveBlock(target, fetched, "processed")
  /\ SaveTransactions(target, fetched, TxsOf[fetched])
  /\ UpdateBlock(target, fetched)
  /\ UNCHANGED missing

Commit ==
  /\ pc = "commit"
  /\ Persist
  /\ Return
  /\ UNCHANGED <<faults, failed, finalityVars>>

-----------------------------------------------------------------------------
(* handleError, recovery.HandleFailure: a row in failed_blocks for the      *)
(* target, unless writing that row fails too.                               *)
HandleFailure ==
  /\ Fault
  /\ failed' \in {failed, failed \cup {target}}
  /\ Return

(* GetBlock, the detector's queries, GetTransactions or the filter fail, or *)
(* the unit of work does and is rolled back.                                *)
StepFails ==
  /\ pc \in {"fetch", "check", "walk", "txs", "commit"}
  /\ HandleFailure
  /\ UNCHANGED <<blocks, status, txs, cursor, missing, finalityVars>>

(* findSafePoint gives up; no call has failed.                              *)
ReorgTooDeep ==
  /\ pc = "walk" /\ ~StopsAt(safe.num) /\ TooDeep(safe.num - 1)
  /\ failed' = failed \cup {target}
  /\ Return
  /\ UNCHANGED <<faults, blocks, status, txs, cursor, missing, finalityVars>>

(* The commit reached the database and its answer was lost.                 *)
CommitUncertain ==
  /\ pc = "commit"
  /\ Persist
  /\ HandleFailure
  /\ UNCHANGED finalityVars

-----------------------------------------------------------------------------
(* The process dies between two calls and is started again. *)

Crash ==
  /\ pc # "down" /\ crashes < MaxCrashes
  /\ pc' = "down" /\ crashes' = crashes + 1
  /\ target' = 0 /\ fetched' = NoHash /\ head' = 0
  /\ safe' = NoBlock /\ reverts' = {}
  /\ FinalityCrash
  /\ UNCHANGED <<base, faults, dbVars>>

Restart ==
  /\ pc = "down"
  /\ Goto("idle")
  /\ UNCHANGED <<locals, faults, dbVars, finalityVars>>

-----------------------------------------------------------------------------
(* What the goroutine does when no call fails. *)
PipelineStep ==
  \/ ReadCursor \/ InitCursor
  \/ KeepPace \/ (\E l \in Height : l <= Latest /\ RecordGap(l)) \/ JumpCursor
  \/ FetchBlock \/ NoNewBlock \/ CheckParent \/ DetectReorg
  \/ FoundSafePoint \/ WalkBack \/ ReorgTooDeep
  \/ OrphanBlock \/ (\E t \in Tx : RevertTx(t))
  \/ EnterReorg \/ RollbackCursor \/ LeaveReorg
  \/ EmitEvents \/ Commit

PipelineFault ==
  \/ JumpFails \/ JumpUncertain
  \/ RollbackFails \/ StepFails \/ CommitUncertain
  \/ \E done \in SUBSET Height : EmitFails(done)

pipelineWorld == <<chain, dbVars, finalityVars, pipelineVars>>

PipelineNext ==
  \/ (PipelineStep \/ PipelineFault \/ Crash \/ Restart) /\ UNCHANGED chain
  \/ NodeStep /\ UNCHANGED <<dbVars, finalityVars, pipelineVars>>

(* The loop of Pipeline.Start never ends by itself and a supervisor starts  *)
(* the process again.                                                       *)
PipelineFairness ==
  /\ WF_pipelineWorld(PipelineStep /\ UNCHANGED chain)
  /\ WF_pipelineWorld(Restart /\ UNCHANGED chain)

PipelineWorldInit == ChainInit /\ StorageInit /\ FinalityInit /\ PipelineInit

PipelineSpec ==
  /\ PipelineWorldInit
  /\ [][PipelineNext]_pipelineWorld
  /\ PipelineFairness

-----------------------------------------------------------------------------
(* Properties *)

PipelineTypeOK ==
  /\ pc \in PC
  /\ target \in Nat /\ head \in Height
  /\ fetched \in Hash \cup {NoHash}
  /\ safe \in [num : Height, hash : Hash \cup {NoHash}]
  /\ reverts \subseteq Tx
  /\ base \in Height /\ faults \in Nat /\ crashes \in Nat

(* Every variable keeps its type.                                           *)
TypeOK ==
  /\ chain \in Chains
  /\ StorageTypeOK /\ FinalityTypeOK /\ PipelineTypeOK

InMissing(n) == \E i \in DOMAIN missing : InRow(i, n)

Covered(n) ==
  \/ Stored(n)
  \/ \E i \in DOMAIN missing : InRow(i, n) /\ missing[i].status # "completed"

(* No block is passed over in silence: each one between the block the       *)
(* cursor started at and the cursor is stored, or a missing_blocks row that *)
(* is not completed covers it.  jumpToHead records the gap before it moves  *)
(* the cursor, the unit of work saves a block with the cursor, and a crash, *)
(* a rollback or the backfill in between must not break it.                 *)
NoSilentGap ==
  CursorExists =>
    \A n \in base + 1 .. cursor.num : Covered(n)

(* The rows up to the cursor that the pipeline itself wrote form one chain: *)
(* each carries the hash of the row below it (CheckParentHash).             *)
Linked ==
  CursorExists =>
    \A n \in base + 2 .. cursor.num :
      ~InMissing(n) /\ ~InMissing(n - 1) => Parent[blocks[n]] = blocks[n - 1]

(* A row above the cursor is left over from a rollback and is marked as     *)
(* such: Rollback marks the block before it moves the cursor below it.      *)
NoLiveRowAboveCursor ==
  missing = <<>> =>
    \A n \in Height : Stored(n) /\ n > cursor.num => status[n] = "orphaned"

(* Where no gap was jumped, findSafePoint ends at its first iteration,      *)
(* however many blocks the reorg replaces and however often rollbacks were  *)
(* cut short before: MaxDepth cannot bring the pipeline to a halt, and      *)
(* nothing else does.  (docs/troubleshooting.md says that a reorg beyond    *)
(* finality_blocks may not be resolvable and stops the indexer; no code     *)
(* compares the two.)                                                       *)
DepthLimitNotReached ==
  missing = <<>> /\ pc = "walk" => StopsAt(safe.num)

(* As long as the process lives, the events of a block on the books are on  *)
(* their way or out: they enter the buffer before the block is committed,   *)
(* and no failing call makes them disappear from it.                        *)
EventsKept ==
  CursorExists /\ crashes = 0 =>
    \A n \in base + 1 .. cursor.num :
      Stored(n) /\ ~InMissing(n) /\ TxsOf[blocks[n]] # {} =>
        blocks[n] \in emitted \cup pending[n]

(* Where no gap was jumped, the cursor moves one block at a time, and it    *)
(* moves back only after the block it leaves is marked orphaned and all     *)
(* its transactions invalid.                                                *)
StepBack ==
  [][missing = <<>> /\ cursor'.num < cursor.num =>
       /\ cursor'.num = cursor.num - 1
       /\ status[cursor.num] = "orphaned"
       /\ \A t \in TxsByBlock(cursor.num) :
            txs[t][cursor.num].status = "invalid"]_pipelineWorld

Settled ==
  /\ CursorExists /\ cursor.num = Latest
  /\ \A n \in base + 1 .. Latest :
       /\ blocks[n] = BlockAt(n)
       /\ faults + crashes = 0 => status[n] = "processed"

(* When the node stops reorganising and the faults end, the indexer ends up *)
(* with the node's chain, whatever reorgs and crashes came before.  Unless  *)
(* one of them cut a rollback short, no block of it is left as orphaned.    *)
(* This includes reorgs of more than Confirmations blocks.                  *)
Convergence == <>[]Settled

-----------------------------------------------------------------------------
(* The rows up to the cursor as a ledger: what is above the cursor, below   *)
(* the start or inside a recorded gap is not on it.                         *)
OnLedger(n) ==
  CursorExists /\ base < n /\ n <= cursor.num /\ ~InMissing(n)

bookNext == IF CursorExists THEN cursor.num + 1 ELSE 0

bookEntries == [n \in Height |-> IF OnLedger(n) THEN blocks[n] ELSE NoHash]

bookGaps == {n \in Height : InMissing(n)}

Books == INSTANCE Ledger WITH
  next <- bookNext, entries <- bookEntries, gaps <- bookGaps

(* The tables are such a ledger at every step: a commit adds a child of the *)
(* last block or moves within a recorded gap, a rollback takes one block    *)
(* off, jumpToHead skips what it has recorded, and everything else, the     *)
(* writes of the backfill, failing calls and crashes included, leaves it    *)
(* alone.                                                                   *)
ImplementsLedger == Books!Spec

-----------------------------------------------------------------------------
(* What comments in the code say and the code does not do. *)

(* "only emit when safe" (finality.go): events that waited for their        *)
(* confirmations belong to a block that is still on the books.              *)
EmitOnlyStored ==
  [][\A h \in emitted' \ emitted : \E n \in Height : blocks[n] = h]_pipelineWorld

TxsOnBooks ==
  CursorExists /\
    \A n \in base + 1 .. cursor.num : \A t \in TxsOf[blocks[n]] :
      txs[t][n] = [hash |-> blocks[n], status |-> "success"]

(* "Mark orphaned blocks and transactions" (reorg.go): only those.  Once    *)
(* the chain is stable, the transactions of the blocks on it are valid.     *)
TxsConverge == <>[]TxsOnBooks

=============================================================================
