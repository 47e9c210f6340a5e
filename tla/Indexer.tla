------------------------------ MODULE Indexer -------------------------------
(***************************************************************************)
(* One chain of the watcher (internal/control/watcher.go): its pipeline    *)
(* and its backfill processor run side by side in one process, over one    *)
(* database and one node.                                                  *)
(***************************************************************************)
EXTENDS Pipeline, Backfill

vars == <<pipelineWorld, bfVars>>

Init ==
  /\ ChainInit /\ StorageInit /\ FinalityInit /\ PipelineInit /\ BackfillInit

(* Both goroutines live in the process.                                     *)
Alive == pc # "down"

PipelineMoves ==
  /\ PipelineStep \/ PipelineFault
  /\ UNCHANGED <<chain, bfVars>>

BackfillMoves ==
  /\ Alive
  /\ BackfillStep
  /\ UNCHANGED <<chain, finalityVars, pipelineVars>>

(* A failing call counts towards the one bound on faults.                   *)
BackfillFails ==
  /\ Alive
  /\ BackfillFault /\ Fault
  /\ UNCHANGED <<chain, finalityVars, pc, locals, base, crashes>>

ProcessCrash == Crash /\ ProcessOneReturns /\ UNCHANGED chain

ProcessRestart == Restart /\ UNCHANGED <<chain, bfVars>>

NodeMoves == NodeStep /\ UNCHANGED <<dbVars, finalityVars, pipelineVars, bfVars>>

Next ==
  \/ PipelineMoves \/ BackfillMoves \/ BackfillFails
  \/ ProcessCrash \/ ProcessRestart \/ NodeMoves

(* Each goroutine is scheduled as long as the process lives, and a          *)
(* supervisor starts the process again.                                     *)
Fairness ==
  /\ WF_vars(PipelineStep /\ UNCHANGED <<chain, bfVars>>)
  /\ WF_vars(BackfillMoves)
  /\ WF_vars(ProcessRestart)

Spec == Init /\ [][Next]_vars /\ Fairness

-----------------------------------------------------------------------------
(* Properties *)

(* Every variable keeps its type.                                           *)
IndexerTypeOK == TypeOK /\ BackfillTypeOK

RowCompleted(i) == i \in DOMAIN missing /\ missing[i].status = "completed"

(* Every recorded gap is filled in the end: its row becomes completed.      *)
(* ("Background worker fills gaps", docs/architecture.md.)                  *)
GapsFilled ==
  \A i \in 1 .. MaxMissing : i \in DOMAIN missing ~> RowCompleted(i)

(* "Reorg Check: Verify parent hash consistency" (docs/architecture.md):    *)
(* neighbouring rows below the cursor end up linked, those that the         *)
(* backfill wrote included.                                                 *)
RowsConverge ==
  <>[](\A n \in base + 2 .. cursor.num :
         Stored(n) /\ Stored(n - 1) => Parent[blocks[n]] = blocks[n - 1])

-----------------------------------------------------------------------------
(* The inductive invariant behind NoSilentGap and Linked. *)

(* The calls between jumpToHead and the next read of the cursor.            *)
Processing ==
  {"fetch", "check", "walk", "orphan", "revert", "rollback", "txs", "commit"}

(* The cursor in the table is the one the goroutine read, one below the     *)
(* target; or, where Jump took effect and its answer was lost, it lies      *)
(* ahead, and what is in between is a recorded gap.                         *)
TargetNext ==
  /\ pc \in {"lag", "jump"} => CursorExists /\ target = cursor.num + 1
  /\ pc \in Processing =>
       /\ CursorExists
       /\ target > 0 /\ target <= cursor.num + 1
       /\ \A n \in Height : target <= n /\ n <= cursor.num => InMissing(n)

(* The other locals are what the calls so far left in them.                 *)
PipelineLocals ==
  /\ pc \in {"check", "walk", "txs", "commit"} =>
       target \in Height /\ fetched \in Hash
  /\ pc \in {"walk", "orphan", "revert", "rollback"} => safe.num < target
  /\ pc = "reset" => CursorExists

(* Between the two halves of jumpToHead, the gap is on record, and the jump *)
(* goes ahead.  The backfill may already have filled the gap.               *)
GapRecorded ==
  pc = "jump" =>
    /\ target <= head
    /\ \A n \in target .. head : Covered(n) /\ InMissing(n)

(* The answer of CheckParentHash still holds when the block is committed.   *)
ParentChecked ==
  pc \in {"txs", "commit"} /\ Stored(target - 1) /\ ~InMissing(target - 1) =>
    Parent[fetched] = blocks[target - 1]

(* The backfill has stored what it has passed of its row.                   *)
BackfillProgress ==
  bfPc # "next" =>
    /\ bfRow \in DOMAIN missing
    /\ bfNum >= missing[bfRow].from
    /\ \A n \in Height : n >= missing[bfRow].from /\ n < bfNum => Stored(n)
    /\ bfPc \in {"save", "txs"} => bfNum <= missing[bfRow].to /\ bfHash \in Hash
    /\ bfPc = "txs" => Stored(bfNum)

IndexerInv ==
  /\ IndexerTypeOK
  /\ NoSilentGap /\ Linked
  /\ TargetNext /\ PipelineLocals /\ GapRecorded /\ ParentChecked
  /\ BackfillProgress

-----------------------------------------------------------------------------
(* The inductive invariant behind NoLiveRowAboveCursor and StepBack, where  *)
(* no gap was jumped. *)

(* The rows start right above the block the cursor was initialized at.      *)
RowsAboveBase ==
  /\ CursorExists => base <= cursor.num
  /\ ~CursorExists => cursor.num = 0
  /\ \A n \in Height : Stored(n) => CursorExists /\ base < n

(* The rows are linked, so the walk ends where it begins, one below the     *)
(* cursor.                                                                  *)
WalkEndsAtOnce ==
  /\ pc = "walk" => safe.num = cursor.num /\ Stored(cursor.num)
  /\ pc \in {"orphan", "revert", "rollback"} =>
       safe.num + 1 = cursor.num /\ Stored(cursor.num)

(* The block that the cursor is about to leave has been marked, and so have *)
(* its transactions but for those still on the list.                        *)
RollbackOrder ==
  pc \in {"revert", "rollback"} =>
    /\ status[cursor.num] = "orphaned"
    /\ \A t \in TxsByBlock(cursor.num) :
         t \in reverts \/ txs[t][cursor.num].status = "invalid"
    /\ pc = "rollback" => reverts = {}

RollbackInv ==
  missing = <<>> =>
    /\ pc # "jump"
    /\ RowsAboveBase /\ NoLiveRowAboveCursor /\ WalkEndsAtOnce /\ RollbackOrder

-----------------------------------------------------------------------------
(* What the refinement of Ledger needs besides IndexerInv, gaps or not. *)

(* The gaps, too, lie above the block the cursor was initialized at.        *)
GapsAboveBase ==
  \A i \in DOMAIN missing : CursorExists /\ base < missing[i].from

(* The walk has passed a pair of neighbouring rows only where one of them   *)
(* lies in a recorded gap, and it ends below the cursor.                    *)
Neighbours(m) == OnLedger(m) /\ OnLedger(m + 1)

WalkSpan ==
  /\ pc = "walk" =>
       /\ Stored(safe.num)
       /\ \A m \in Height : safe.num <= m => ~Neighbours(m)
  /\ pc \in {"orphan", "revert", "rollback"} =>
       /\ base <= safe.num /\ safe.num < cursor.num
       /\ \A m \in Height : safe.num < m => ~Neighbours(m)

LedgerInv == RowsAboveBase /\ GapsAboveBase /\ WalkSpan

-----------------------------------------------------------------------------
(* The inductive invariant behind EventsKept. *)

(* The events of the block that is about to be committed are in the buffer  *)
(* or out, unless a crash has emptied the buffer.                           *)
EventsQueued ==
  pc = "commit" /\ crashes = 0 /\ TxsOf[fetched] # {} =>
    fetched \in emitted \cup pending[target]

EventsInv == EventsQueued /\ EventsKept

=============================================================================
