--------------------------- MODULE RollbackProofs ---------------------------
(***************************************************************************)
(* What a rollback leaves behind, as long as no gap was jumped: the row    *)
(* that the cursor leaves is marked orphaned first, with its transactions, *)
(* and no live row is ever found above the cursor.  The inductive          *)
(* invariant is RollbackInv, next to IndexerInv.                           *)
(***************************************************************************)
EXTENDS IndexerProofs

(* Rows of missing_blocks are never deleted, and without one the backfill   *)
(* has nothing to do.                                                       *)
LEMMA NoGapYet ==
  ASSUME IndexerInv, [Next]_vars, missing' = <<>>
  PROVE  missing = <<>> /\ ~(BackfillMoves \/ BackfillFails)
<1> USE DEF IndexerInv, IndexerTypeOK, TypeOK
<1>1. missing = <<>>
  <2>1. DOMAIN missing \subseteq DOMAIN missing'
    <3>1. CASE PipelineMoves
      BY <3>1, PipelineOnlyAdds DEF OnlyAdds
    <3>2. CASE BackfillMoves \/ BackfillFails
      BY <3>2, BackfillCoverage
    <3>3. CASE ProcessCrash \/ ProcessRestart \/ NodeMoves \/ UNCHANGED vars
      BY <3>3 DEF ProcessCrash, Crash, ProcessRestart, Restart, NodeMoves, vars,
         pipelineWorld, dbVars
    <3> QED BY <3>1, <3>2, <3>3 DEF Next
  <2>2. DOMAIN missing = {}
    BY <2>1
  <2> QED BY <2>2 DEF StorageTypeOK
<1>2. bfPc = "next"
  BY <1>1 DEF BackfillProgress
<1>3. ~BackfillStep /\ ~BackfillFault
  BY <1>1, <1>2 DEF BackfillStep, BackfillFault, MarkProcessing, FetchMissing, SaveMissing,
     SaveMissingTxs, MarkCompleted, ProcessOneFails, SkipMissingTxs
<1> QED BY <1>1, <1>3 DEF BackfillMoves, BackfillFails

(* Where no gap was jumped, the target is the block after the cursor.       *)
LEMMA TargetAfterCursor ==
  ASSUME IndexerInv, missing = <<>>, pc \in Processing
  PROVE  CursorExists /\ target = cursor.num + 1
<1>1. cursor.num \in Height /\ target \in Nat
  BY DEF IndexerInv, IndexerTypeOK, TypeOK, StorageTypeOK, PipelineTypeOK, CursorRow
<1>2. \A n \in Height : ~InMissing(n)
  BY DEF InMissing
<1>3. ~(target <= cursor.num)
  BY <1>1, <1>2 DEF IndexerInv, TargetNext, Height
<1> QED BY <1>1, <1>3 DEF IndexerInv, TargetNext, Height

(* Marking a transaction invalid neither adds nor removes a row.            *)
LEMMA InvalidateTxRows ==
  ASSUME StorageTypeOK, NEW t \in Tx, InvalidateTx(t), NEW n \in Height
  PROVE  /\ TxsByBlock(n)' = TxsByBlock(n)
         /\ t \in TxsByBlock(n) => txs'[t][n].status = "invalid"
         /\ \A u \in Tx : u # t => txs'[u] = txs[u]
<1>1. txs[t][n] \in TxRow
  BY DEF StorageTypeOK
<1>2. txs'[t][n] = IF txs[t][n] = NoTxRow THEN NoTxRow
                   ELSE [txs[t][n] EXCEPT !.status = "invalid"]
  BY DEF InvalidateTx, StorageTypeOK
<1>3. txs[t][n] # NoTxRow => txs'[t][n].status = "invalid" /\ txs'[t][n] # NoTxRow
  BY <1>1, <1>2 DEF TxRow, NoTxRow
<1>4. \A u \in Tx : u # t => txs'[u] = txs[u]
  BY DEF InvalidateTx, StorageTypeOK
<1>5. TxsByBlock(n)' = TxsByBlock(n)
  BY <1>2, <1>3, <1>4 DEF TxsByBlock
<1> QED BY <1>3, <1>4, <1>5 DEF TxsByBlock

(* findSafePoint stops at its first iteration: the block at the cursor is   *)
(* linked to the one below it, or that one is not stored.                   *)
LEMMA FirstIteration ==
  ASSUME IndexerInv, RollbackInv, missing = <<>>, pc = "walk"
  PROVE  StopsAt(safe.num)
<1>0. /\ cursor.num \in Height /\ base \in Height
      /\ safe.num = cursor.num /\ RowsAboveBase
  BY DEF IndexerInv, IndexerTypeOK, TypeOK, StorageTypeOK, PipelineTypeOK, CursorRow,
     RollbackInv, WalkEndsAtOnce
<1> SUFFICES ASSUME cursor.num # 0, Stored(cursor.num), Stored(cursor.num - 1)
             PROVE  Parent[blocks[cursor.num]] = blocks[cursor.num - 1]
  BY <1>0 DEF StopsAt
<1>1. cursor.num - 1 \in Height
  BY <1>0, ChainAssumption DEF Height
<1>2. CursorExists /\ cursor.num \in base + 2 .. cursor.num
  BY <1>0, <1>1 DEF RowsAboveBase, Height
<1>3. ~InMissing(cursor.num) /\ ~InMissing(cursor.num - 1)
  BY DEF InMissing
<1> QED BY <1>2, <1>3 DEF IndexerInv, Linked

(* A step of the pipeline keeps RollbackInv.                                *)
LEMMA PipelineRollback ==
  ASSUME IndexerInv, RollbackInv, PipelineMoves, missing = <<>>, missing' = <<>>
  PROVE  RollbackInv'
<1> USE DEF IndexerInv, IndexerTypeOK, TypeOK
<1>0. /\ base \in Height /\ cursor.num \in Height /\ safe.num \in Height
      /\ target \in Nat /\ RowsAboveBase /\ NoLiveRowAboveCursor /\ WalkEndsAtOnce
      /\ RollbackOrder /\ pc # "jump"
  BY DEF StorageTypeOK, PipelineTypeOK, CursorRow, RollbackInv
<1>1. CASE /\ UNCHANGED <<blocks, status, cursor, base>>
           /\ pc' \notin {"jump", "walk", "orphan", "revert", "rollback"}
  BY <1>0, <1>1 DEF RollbackInv, RowsAboveBase, NoLiveRowAboveCursor, WalkEndsAtOnce,
     RollbackOrder, Stored, CursorExists
<1>2. CASE InitCursor
  <2>1. \A n \in Height : ~Stored(n)
    BY <1>0, <1>2 DEF InitCursor, RowsAboveBase
  <2>2. StartBlock \in Height
    BY ChainFacts, PipelineAssumption, ChainAssumption DEF StartBlock, Height
  <2> QED BY <1>2, <2>1, <2>2 DEF InitCursor, Initialize, RollbackInv, RowsAboveBase,
             NoLiveRowAboveCursor, WalkEndsAtOnce, RollbackOrder, Stored, CursorExists, Height
<1>3. CASE DetectReorg
  <2>1. Stored(cursor.num) /\ safe'.num = cursor.num
    BY <1>0, <1>3, TargetAfterCursor DEF DetectReorg, ParentMatches, Processing, Height
  <2> QED BY <1>0, <1>3, <2>1 DEF DetectReorg, Goto, dbVars, RollbackInv, RowsAboveBase,
             NoLiveRowAboveCursor, WalkEndsAtOnce, RollbackOrder, Stored, CursorExists
<1>4. CASE FoundSafePoint
  <2>1. Stored(cursor.num) /\ safe.num = cursor.num /\ cursor.num > 0
    BY <1>0, <1>4 DEF FoundSafePoint, WalkEndsAtOnce, RowsAboveBase, Height
  <2>2. safe'.num + 1 = cursor.num
    BY <1>0, <1>4, <2>1 DEF FoundSafePoint, SafePoint, Height
  <2> QED BY <1>0, <1>4, <2>1, <2>2 DEF FoundSafePoint, Goto, dbVars, RollbackInv,
             RowsAboveBase, NoLiveRowAboveCursor, WalkEndsAtOnce, RollbackOrder, Stored,
             CursorExists
<1>5. CASE WalkBack
  BY <1>0, <1>5, FirstIteration DEF WalkBack
<1>6. CASE OrphanBlock
  <2>1. safe.num + 1 = cursor.num /\ Stored(cursor.num)
    BY <1>0, <1>6 DEF OrphanBlock, WalkEndsAtOnce
  <2>2. status' = [status EXCEPT ![cursor.num] = "orphaned"] /\ reverts' = TxsByBlock(cursor.num)
    BY <1>6, <2>1 DEF OrphanBlock, UpdateBlockStatus
  <2>3. UNCHANGED <<blocks, txs, cursor, base, safe>> /\ pc' = "revert"
    BY <1>6 DEF OrphanBlock, UpdateBlockStatus, Goto
  <2>4. RowsAboveBase' /\ WalkEndsAtOnce'
    BY <1>0, <2>1, <2>3 DEF RowsAboveBase, WalkEndsAtOnce, Stored, CursorExists
  <2>5. NoLiveRowAboveCursor'
    BY <1>0, <2>2, <2>3 DEF NoLiveRowAboveCursor, Stored, StorageTypeOK
  <2>6. RollbackOrder'
    BY <1>0, <2>2, <2>3 DEF RollbackOrder, TxsByBlock, StorageTypeOK
  <2> QED BY <2>3, <2>4, <2>5, <2>6 DEF RollbackInv
<1>7. CASE \E t \in Tx : RevertTx(t)
  <2>1. PICK t \in Tx : RevertTx(t)
    BY <1>7
  <2>2. UNCHANGED <<blocks, status, cursor, base, safe, pc>> /\ pc = "revert"
    BY <2>1 DEF RevertTx
  <2>3. reverts' = reverts \ {t}
    BY <2>1 DEF RevertTx
  <2>4. RowsAboveBase' /\ NoLiveRowAboveCursor' /\ WalkEndsAtOnce'
    BY <1>0, <2>2 DEF RowsAboveBase, NoLiveRowAboveCursor, WalkEndsAtOnce, Stored, CursorExists
  <2>5. /\ TxsByBlock(cursor.num)' = TxsByBlock(cursor.num)
        /\ t \in TxsByBlock(cursor.num) => txs'[t][cursor.num].status = "invalid"
        /\ \A u \in Tx : u # t => txs'[u] = txs[u]
    <3>1. ASSUME NEW n \in Height, n = cursor.num
          PROVE  /\ TxsByBlock(n)' = TxsByBlock(n)
                 /\ t \in TxsByBlock(n) => txs'[t][n].status = "invalid"
                 /\ \A u \in Tx : u # t => txs'[u] = txs[u]
      BY <2>1, InvalidateTxRows DEF RevertTx
    <3> QED BY <1>0, <2>2, <3>1
  <2>6. RollbackOrder'
    BY <1>0, <2>2, <2>3, <2>5 DEF RollbackOrder, TxsByBlock
  <2> QED BY <1>0, <2>2, <2>4, <2>6 DEF RollbackInv
<1>8. CASE EnterReorg
  <2>1. /\ UNCHANGED <<blocks, status, txs, base, safe, reverts>>
        /\ cursor'.num = cursor.num /\ CursorExists /\ CursorExists'
        /\ pc = "revert" /\ pc' = "rollback" /\ reverts = {}
    BY <1>8 DEF EnterReorg, RollbackState, UpdateState, Goto, locals, CursorExists,
       StorageTypeOK, CursorRow
  <2> QED BY <1>0, <2>1 DEF RollbackInv, RowsAboveBase, NoLiveRowAboveCursor, WalkEndsAtOnce,
             RollbackOrder, Stored, TxsByBlock
<1>9. CASE RollbackCursor
  <2>1. /\ UNCHANGED <<blocks, status, base>>
        /\ cursor'.num + 1 = cursor.num /\ CursorExists' /\ pc' = "reset"
        /\ pc = "rollback" /\ Stored(cursor.num)
    BY <1>0, <1>9 DEF RollbackCursor, RollbackBlock, UpdateBlock, Goto, CursorExists,
       WalkEndsAtOnce
  <2>2. cursor'.num \in Nat /\ status[cursor.num] = "orphaned"
    BY <1>0, <1>9, <2>1 DEF RollbackCursor, RollbackBlock, UpdateBlock, RollbackOrder, Height
  <2>3. RowsAboveBase'
    BY <1>0, <2>1, <2>2 DEF RowsAboveBase, Stored, Height
  <2>4. NoLiveRowAboveCursor'
    BY <1>0, <2>1, <2>2 DEF NoLiveRowAboveCursor, Stored, Height
  <2> QED BY <2>1, <2>3, <2>4 DEF RollbackInv, WalkEndsAtOnce, RollbackOrder
<1>10. CASE LeaveReorg
  <2>1. /\ UNCHANGED <<blocks, status, base>> /\ cursor'.num = cursor.num
        /\ CursorExists' /\ CursorExists /\ pc' = "idle"
    BY <1>10 DEF LeaveReorg, SetState, UpdateState, Return, Goto, CursorExists,
       StorageTypeOK, CursorRow
  <2> QED BY <1>0, <2>1 DEF RollbackInv, RowsAboveBase, NoLiveRowAboveCursor, WalkEndsAtOnce,
             RollbackOrder, Stored
<1>11. CASE Commit \/ CommitUncertain
  <2>1. /\ CursorExists /\ target = cursor.num + 1 /\ target \in Height
        /\ Persist /\ base' = base /\ pc' = "idle"
    BY <1>11, TargetAfterCursor DEF Commit, CommitUncertain, HandleFailure, Return, Goto,
       Processing, PipelineLocals
  <2>2. /\ blocks' = [blocks EXCEPT ![target] = fetched]
        /\ status' = [status EXCEPT ![target] = "processed"]
        /\ cursor'.num = target /\ CursorExists'
    BY <2>1 DEF Persist, SaveBlock, UpdateBlock, CursorExists
  <2>3. RowsAboveBase'
    BY <1>0, <2>1, <2>2 DEF RowsAboveBase, Stored, StorageTypeOK, Height
  <2>4. NoLiveRowAboveCursor'
    BY <1>0, <2>1, <2>2 DEF NoLiveRowAboveCursor, Stored, StorageTypeOK, Height
  <2> QED BY <2>1, <2>3, <2>4 DEF RollbackInv, WalkEndsAtOnce, RollbackOrder
<1>12. ~(\E l \in Height : RecordGap(l))
  BY DEF RecordGap, AddMissing, StorageTypeOK
<1> QED
  BY <1>0, <1>1, <1>2, <1>3, <1>4, <1>5, <1>6, <1>7, <1>8, <1>9, <1>10, <1>11, <1>12
  DEF PipelineMoves, PipelineStep, PipelineFault, ReadCursor, KeepPace, JumpCursor, JumpFails,
      JumpUncertain, FetchBlock, NoNewBlock, CheckParent, ReorgTooDeep, StepFails, RollbackFails, EmitEvents,
      EmitFails, HandleFailure, Return, Goto, dbVars

(* Every step keeps RollbackInv: where no gap was jumped, the backfill is   *)
(* idle and only the pipeline writes.                                       *)
LEMMA RollbackNext == IndexerInv /\ RollbackInv /\ [Next]_vars => RollbackInv'
<1> SUFFICES ASSUME IndexerInv, RollbackInv, [Next]_vars, missing' = <<>>
             PROVE  RollbackInv'
  BY DEF RollbackInv
<1>1. missing = <<>> /\ ~(BackfillMoves \/ BackfillFails)
  BY NoGapYet
<1>2. CASE PipelineMoves
  BY <1>1, <1>2, PipelineRollback
<1>3. CASE ProcessCrash \/ ProcessRestart
  BY <1>1, <1>3 DEF ProcessCrash, Crash, ProcessRestart, Restart, Goto, dbVars, RollbackInv,
     RowsAboveBase, NoLiveRowAboveCursor, WalkEndsAtOnce, RollbackOrder, Stored, CursorExists
<1>4. CASE NodeMoves \/ UNCHANGED vars
  <2>1. UNCHANGED <<dbVars, pc, locals, base>>
    BY <1>4 DEF NodeMoves, vars, pipelineWorld, pipelineVars
  <2> QED BY <1>1, <2>1 DEF dbVars, locals, RollbackInv, RowsAboveBase, NoLiveRowAboveCursor,
             WalkEndsAtOnce, RollbackOrder, Stored, CursorExists, TxsByBlock
<1> QED BY <1>1, <1>2, <1>3, <1>4 DEF Next

(* RollbackInv holds at the start, with empty tables.                       *)
LEMMA RollbackInit == Init => RollbackInv
BY DEF Init, StorageInit, PipelineInit, RollbackInv, RowsAboveBase, NoLiveRowAboveCursor,
   WalkEndsAtOnce, RollbackOrder, Stored, NoCursor, CursorExists

(* The order of Handler.Rollback as an invariant: the block and its         *)
(* transactions are marked before the cursor leaves them.                   *)
THEOREM RollbackInvariance == Spec => []RollbackInv
BY RollbackInit, RollbackNext, Invariance, PTL DEF Spec

(* As long as no gap was jumped, a row above the cursor is marked orphaned: *)
(* no crash or failing call inside Handler.Rollback leaves a live block     *)
(* above the cursor.                                                        *)
THEOREM RowsAboveAreOrphaned == Spec => []NoLiveRowAboveCursor
<1>1. RollbackInv => NoLiveRowAboveCursor
  BY DEF RollbackInv, NoLiveRowAboveCursor
<1> QED BY <1>1, RollbackInvariance, PTL

(* MaxDepth is never reached where no gap was jumped: findSafePoint ends at *)
(* its first iteration, whatever the depth of the reorg.                    *)
THEOREM WalkStopsAtOnce == Spec => []DepthLimitNotReached
<1>1. IndexerInv /\ RollbackInv => DepthLimitNotReached
  BY FirstIteration DEF DepthLimitNotReached
<1> QED BY <1>1, Invariance, RollbackInvariance, PTL

(* The cursor moves back one block at a time, and only after that block is  *)
(* marked orphaned and every transaction of it invalid.                     *)
THEOREM RollbackMarksFirst == Spec => StepBack
<1> DEFINE Marked ==
      missing = <<>> /\ cursor'.num < cursor.num =>
        /\ cursor'.num = cursor.num - 1
        /\ status[cursor.num] = "orphaned"
        /\ \A t \in TxsByBlock(cursor.num) : txs[t][cursor.num].status = "invalid"
<1>1. IndexerInv /\ RollbackInv /\ [Next]_vars => [Marked]_pipelineWorld
  <2> SUFFICES ASSUME IndexerInv, RollbackInv, [Next]_vars, missing = <<>>,
                      cursor'.num < cursor.num
               PROVE  Marked
    OBVIOUS
  <2>0. cursor.num \in Height /\ safe.num \in Height /\ target \in Nat
    BY DEF IndexerInv, IndexerTypeOK, TypeOK, StorageTypeOK, PipelineTypeOK, CursorRow
  <2>1. CASE RollbackCursor
    <3>1. pc = "rollback" /\ cursor'.num = safe.num
      BY <2>1 DEF RollbackCursor, RollbackBlock, UpdateBlock
    <3>2. safe.num + 1 = cursor.num /\ status[cursor.num] = "orphaned"
      BY <3>1 DEF RollbackInv, WalkEndsAtOnce, RollbackOrder
    <3>3. \A t \in TxsByBlock(cursor.num) : txs[t][cursor.num].status = "invalid"
      BY <3>1 DEF RollbackInv, RollbackOrder
    <3> QED BY <2>0, <3>1, <3>2, <3>3 DEF Height
  <2>2. ASSUME cursor' = cursor PROVE FALSE
    BY <2>0, <2>2 DEF Height
  <2>3. ASSUME Commit \/ CommitUncertain PROVE FALSE
    BY <2>0, <2>3, TargetAfterCursor
    DEF Commit, CommitUncertain, Persist, UpdateBlock, Processing, Height
  <2>4. ASSUME EnterReorg \/ LeaveReorg PROVE FALSE
    BY <2>0, <2>4 DEF EnterReorg, RollbackState, LeaveReorg, SetState, UpdateState,
       IndexerInv, IndexerTypeOK, TypeOK, StorageTypeOK, CursorRow, Height
  <2>5. ASSUME JumpCursor \/ JumpUncertain PROVE FALSE
    BY <2>5 DEF JumpCursor, JumpUncertain, RollbackInv
  <2>6. ASSUME InitCursor PROVE FALSE
    <3>1. StartBlock \in Height
      BY ChainFacts, PipelineAssumption, ChainAssumption
      DEF StartBlock, Height, IndexerInv, IndexerTypeOK, TypeOK
    <3>2. cursor.num = 0 /\ cursor'.num = StartBlock
      BY <2>6 DEF InitCursor, Initialize, RollbackInv, RowsAboveBase
    <3> QED BY <3>1, <3>2 DEF Height
  <2> QED
    BY <2>1, <2>2, <2>3, <2>4, <2>5, <2>6
    DEF Next, PipelineMoves, PipelineStep, PipelineFault, ReadCursor, KeepPace, RecordGap,
        JumpFails, FetchBlock, NoNewBlock, CheckParent, DetectReorg, FoundSafePoint, WalkBack,
        ReorgTooDeep, StepFails, OrphanBlock, RevertTx, RollbackFails, EmitEvents, EmitFails,
        BackfillMoves, BackfillFails, BackfillStep, BackfillFault, GetNext, MarkProcessing,
        FetchMissing, SaveMissing, SaveMissingTxs, MarkCompleted, ProcessOneFails,
        SkipMissingTxs, ProcessCrash, Crash, ProcessRestart, Restart, NodeMoves, vars,
        pipelineWorld, dbVars
<1> QED BY <1>1, Invariance, RollbackInvariance, PTL DEF Spec, StepBack

=============================================================================
