--------------------------- MODULE IndexerProofs ---------------------------
(***************************************************************************)
(* NoSilentGap and Linked hold in every behaviour of Indexer: for every    *)
(* chain and every sequence of reorgs, every threshold and depth, every    *)
(* interleaving of the pipeline and the backfill, and any number of        *)
(* failing calls and crashes.  The inductive invariant is IndexerInv.      *)
(***************************************************************************)
EXTENDS Indexer, TLAPS

(* The head is a height, and the blocks up to it have hashes.               *)
LEMMA ChainFacts ==
  ASSUME chain \in Chains
  PROVE  /\ Latest \in Height
         /\ \A n \in 0 .. Latest : BlockAt(n) \in Hash
BY ChainAssumption DEF Latest, BlockAt, Height

(* Marking a row of missing_blocks changes its status and nothing else.     *)
LEMMA MarkMissingFacts ==
  ASSUME missing \in Seq(MissingRow), NEW i \in DOMAIN missing,
         NEW s \in {"pending", "processing", "completed"}, MarkMissing(i, s)
  PROVE  /\ missing' \in Seq(MissingRow)
         /\ DOMAIN missing' = DOMAIN missing
         /\ \A j \in DOMAIN missing :
              /\ missing'[j].from = missing[j].from
              /\ missing'[j].to = missing[j].to
              /\ missing'[j].status = IF j = i THEN s ELSE missing[j].status
<1>1. DOMAIN missing = 1 .. Len(missing) /\ Len(missing) \in Nat
  OBVIOUS
<1>2. missing[i] \in MissingRow
  OBVIOUS
<1>3. [missing[i] EXCEPT !.status = s] \in MissingRow
  BY <1>2 DEF MissingRow
<1>4. missing' = [missing EXCEPT ![i] = [missing[i] EXCEPT !.status = s]]
  BY DEF MarkMissing
<1>5. missing' \in Seq(MissingRow) /\ DOMAIN missing' = DOMAIN missing
  BY <1>3, <1>4
<1>6. ASSUME NEW j \in DOMAIN missing
      PROVE  /\ missing'[j].from = missing[j].from
             /\ missing'[j].to = missing[j].to
             /\ missing'[j].status = IF j = i THEN s ELSE missing[j].status
  BY <1>2, <1>4 DEF MissingRow
<1> QED BY <1>5, <1>6

(* Recording a gap adds one row at the end.                                 *)
LEMMA AddMissingFacts ==
  ASSUME missing \in Seq(MissingRow), NEW a \in Height, NEW b \in Height,
         AddMissing(a, b)
  PROVE  /\ missing' \in Seq(MissingRow)
         /\ DOMAIN missing' = DOMAIN missing \cup {Len(missing) + 1}
         /\ \A j \in DOMAIN missing : missing'[j] = missing[j]
         /\ missing'[Len(missing) + 1] = [from |-> a, to |-> b, status |-> "pending"]
BY DEF AddMissing, MissingRow

-----------------------------------------------------------------------------
(* Types *)

(* The writes of the repositories keep the types of the tables.             *)
LEMMA SaveTransactionsType ==
  ASSUME StorageTypeOK, NEW n \in Height, NEW h \in Hash, NEW T,
         SaveTransactions(n, h, T)
  PROVE  txs' \in [Tx -> [Height -> TxRow]]
<1> DEFINE row == [hash |-> h, status |-> "success"]
<1>1. row \in TxRow
  BY DEF TxRow
<1>2. ASSUME NEW t \in Tx
      PROVE  [txs[t] EXCEPT ![n] = row] \in [Height -> TxRow]
  BY <1>1 DEF StorageTypeOK
<1> QED BY <1>2 DEF StorageTypeOK, SaveTransactions

(* TxRepo.UpdateStatus keeps the type of the transactions table.            *)
LEMMA InvalidateTxType ==
  ASSUME StorageTypeOK, NEW t \in Tx, InvalidateTx(t)
  PROVE  txs' \in [Tx -> [Height -> TxRow]]
<1> DEFINE row(n) == IF txs[t][n] = NoTxRow THEN NoTxRow
                     ELSE [txs[t][n] EXCEPT !.status = "invalid"]
<1>1. ASSUME NEW n \in Height PROVE row(n) \in TxRow
  <2>1. txs[t][n] \in TxRow /\ NoTxRow \in TxRow
    BY DEF StorageTypeOK, TxRow, NoTxRow
  <2> QED BY <2>1 DEF TxRow
<1>2. [n \in Height |-> row(n)] \in [Height -> TxRow]
  BY <1>1
<1> QED BY <1>2 DEF StorageTypeOK, InvalidateTx

(* Emitting a block keeps the types of the finality buffer.                 *)
LEMMA EmitBlockType ==
  ASSUME FinalityTypeOK, NEW n \in Height, NEW h \in Hash, NEW done,
         EmitBlock(n, h, done)
  PROVE  FinalityTypeOK'
<1> DEFINE buffer == Queued(n, h)
<1>1. buffer \in [Height -> SUBSET Hash]
  BY DEF FinalityTypeOK, Queued
<1>2. done \subseteq Height
  BY DEF EmitBlock, Final
<1>3. pending' \in [Height -> SUBSET Hash]
  BY <1>1 DEF EmitBlock
<1>4. UNION {buffer[m] : m \in done} \subseteq Hash
  BY <1>1, <1>2
<1>5. emitted' \subseteq Hash
  BY <1>4 DEF EmitBlock, EmittedAtOnce, FinalityTypeOK
<1> QED BY <1>3, <1>5 DEF FinalityTypeOK

(* Returning from processNextBlock clears the locals.                       *)
LEMMA ReturnType ==
  ASSUME PipelineTypeOK, Return, faults' \in Nat
  PROVE  PipelineTypeOK'
BY ChainAssumption DEF PipelineTypeOK, Return, Goto, PC, NoBlock, Height

(* Counting a failing call keeps the type of the counter.                   *)
LEMMA FaultType ==
  ASSUME PipelineTypeOK, Fault
  PROVE  faults' \in Nat
BY DEF PipelineTypeOK, Fault

(* The types survive every step of the pipeline.                            *)
LEMMA PipelineType ==
  ASSUME IndexerInv, PipelineMoves
  PROVE  TypeOK'
<1> USE DEF IndexerInv, IndexerTypeOK, TypeOK
<1>0. chain' \in Chains
  BY DEF PipelineMoves
<1>a. ASSUME UNCHANGED dbVars PROVE StorageTypeOK'
  BY <1>a DEF dbVars, StorageTypeOK
<1>b. ASSUME UNCHANGED finalityVars PROVE FinalityTypeOK'
  BY <1>b DEF finalityVars, FinalityTypeOK
<1>1. CASE ReadCursor
  <2>1. PipelineTypeOK'
    BY <1>1 DEF ReadCursor, Goto, PipelineTypeOK, StorageTypeOK, CursorRow, PC, Height
  <2> QED BY <1>0, <1>a, <1>b, <1>1, <2>1 DEF ReadCursor, dbVars, finalityVars
<1>2. CASE InitCursor
  <2>1. StartBlock \in Height
    BY ChainFacts, PipelineAssumption, ChainAssumption DEF StartBlock, Height
  <2>2. StorageTypeOK'
    BY <1>2, <2>1 DEF InitCursor, Initialize, StorageTypeOK, CursorRow, CursorState
  <2>3. PipelineTypeOK'
    BY <1>2, <2>1 DEF InitCursor, PipelineTypeOK, PC, Height
  <2> QED BY <1>0, <1>b, <1>2, <2>2, <2>3 DEF InitCursor
<1>3. CASE KeepPace \/ CheckParent
  <2>1. PipelineTypeOK'
    BY <1>3 DEF KeepPace, CheckParent, Goto, locals, PipelineTypeOK, PC
  <2>2. UNCHANGED dbVars /\ UNCHANGED finalityVars
    BY <1>3 DEF KeepPace, CheckParent
  <2> QED BY <1>0, <1>a, <1>b, <2>1, <2>2
<1>4. CASE \E l \in Height : l <= Latest /\ RecordGap(l)
  <2>1. PICK l \in Height : RecordGap(l)
    BY <1>4
  <2>2. target \in Height
    BY <2>1, PipelineAssumption, ChainAssumption
    DEF RecordGap, LagsBehind, Height, PipelineTypeOK
  <2>3. missing' \in Seq(MissingRow)
    BY <2>1, <2>2, AddMissingFacts DEF RecordGap, StorageTypeOK
  <2>4. PipelineTypeOK'
    BY <2>1 DEF RecordGap, Goto, PipelineTypeOK, PC, Height
  <2> QED BY <1>0, <1>b, <2>1, <2>3, <2>4 DEF RecordGap, StorageTypeOK
<1>5. CASE JumpCursor
  <2>1. StorageTypeOK'
    BY <1>5 DEF JumpCursor, Jump, UpdateBlock, CursorExists, StorageTypeOK,
       PipelineTypeOK, CursorRow, CursorState
  <2> QED BY <1>0, <1>b, <1>5, <2>1, ReturnType DEF JumpCursor, PipelineTypeOK
<1>6. CASE FetchBlock
  <2>1. BlockAt(target) \in Hash
    BY <1>6, ChainFacts, ChainAssumption DEF FetchBlock, PipelineTypeOK, Height
  <2>2. PipelineTypeOK'
    BY <1>6, <2>1 DEF FetchBlock, Goto, PipelineTypeOK, PC
  <2> QED BY <1>0, <1>a, <1>b, <1>6, <2>2 DEF FetchBlock, dbVars, finalityVars
<1>7. CASE NoNewBlock
  BY <1>0, <1>a, <1>b, <1>7, ReturnType DEF NoNewBlock, PipelineTypeOK,
     dbVars, finalityVars
<1>8. CASE DetectReorg
  <2>0. target - 1 \in Height
    BY <1>8, ChainAssumption DEF DetectReorg, TargetNext, Processing, PipelineLocals,
       PipelineTypeOK, Height
  <2>1. PipelineTypeOK'
    BY <1>8, <2>0 DEF DetectReorg, Goto, PipelineTypeOK, PC
  <2> QED BY <1>0, <1>a, <1>b, <1>8, <2>1 DEF DetectReorg, dbVars, finalityVars
<1>9. CASE FoundSafePoint
  <2>1. safe.num \in Height
    BY <1>9, ChainAssumption DEF FoundSafePoint, PipelineLocals, PipelineTypeOK,
       StorageTypeOK, CursorRow, Height
  <2>2. SafePoint(safe.num) \in [num : Height, hash : Hash \cup {NoHash}]
    BY <2>1, ChainAssumption DEF SafePoint, StorageTypeOK, Height
  <2>3. PipelineTypeOK'
    BY <1>9, <2>2 DEF FoundSafePoint, Goto, PipelineTypeOK, PC
  <2> QED BY <1>0, <1>a, <1>b, <1>9, <2>3 DEF FoundSafePoint, dbVars, finalityVars
<1>10. CASE WalkBack
  <2>1. safe.num - 1 \in Height
    BY <1>10, ChainAssumption DEF WalkBack, StopsAt, PipelineTypeOK, Height
  <2>2. PipelineTypeOK'
    BY <1>10, <2>1 DEF WalkBack, PipelineTypeOK, PC
  <2> QED BY <1>0, <1>a, <1>b, <1>10, <2>2 DEF WalkBack, dbVars, finalityVars
<1>11. CASE ReorgTooDeep
  <2>1. StorageTypeOK'
    BY <1>11 DEF ReorgTooDeep, StorageTypeOK, PipelineTypeOK
  <2> QED BY <1>0, <1>b, <1>11, <2>1, ReturnType DEF ReorgTooDeep, PipelineTypeOK
<1>12. CASE StepFails
  <2>1. StorageTypeOK'
    BY <1>12 DEF StepFails, HandleFailure, StorageTypeOK, PipelineTypeOK
  <2> QED BY <1>0, <1>b, <1>12, <2>1, ReturnType, FaultType DEF StepFails, HandleFailure
<1>13. CASE JumpFails
  <2>1. PipelineTypeOK'
    BY <1>13 DEF JumpFails, Fault, Goto, locals, PipelineTypeOK, PC
  <2> QED BY <1>0, <1>a, <1>b, <1>13, <2>1 DEF JumpFails, dbVars, finalityVars
<1>14. CASE RollbackFails
  BY <1>0, <1>a, <1>b, <1>14, ReturnType, FaultType DEF RollbackFails, dbVars, finalityVars
<1>15. CASE OrphanBlock
  <2>1. StorageTypeOK'
    BY <1>15 DEF OrphanBlock, UpdateBlockStatus, StorageTypeOK, BlockStatus
  <2>2. PipelineTypeOK'
    BY <1>15 DEF OrphanBlock, TxsByBlock, Goto, PipelineTypeOK, PC
  <2> QED BY <1>0, <1>b, <1>15, <2>1, <2>2 DEF OrphanBlock
<1>16. CASE \E t \in Tx : RevertTx(t)
  <2>1. PICK t \in Tx : RevertTx(t)
    BY <1>16
  <2>2. StorageTypeOK'
    BY <2>1, InvalidateTxType DEF RevertTx, StorageTypeOK
  <2>3. PipelineTypeOK'
    BY <2>1 DEF RevertTx, PipelineTypeOK
  <2> QED BY <1>0, <1>b, <2>1, <2>2, <2>3 DEF RevertTx
<1>17. CASE EnterReorg
  <2>1. StorageTypeOK'
    BY <1>17 DEF EnterReorg, RollbackState, UpdateState, CursorExists,
       StorageTypeOK, CursorRow, CursorState
  <2>2. PipelineTypeOK'
    BY <1>17 DEF EnterReorg, Goto, locals, PipelineTypeOK, PC
  <2> QED BY <1>0, <1>b, <1>17, <2>1, <2>2 DEF EnterReorg
<1>18. CASE RollbackCursor
  <2>1. StorageTypeOK'
    BY <1>18 DEF RollbackCursor, RollbackBlock, UpdateBlock, CursorExists,
       StorageTypeOK, PipelineTypeOK, CursorRow, CursorState
  <2>2. PipelineTypeOK'
    BY <1>18 DEF RollbackCursor, Goto, locals, PipelineTypeOK, PC
  <2> QED BY <1>0, <1>b, <1>18, <2>1, <2>2 DEF RollbackCursor
<1>19. CASE LeaveReorg
  <2>1. StorageTypeOK'
    BY <1>19 DEF LeaveReorg, SetState, UpdateState, CursorExists,
       StorageTypeOK, CursorRow, CursorState
  <2> QED BY <1>0, <1>b, <1>19, <2>1, ReturnType DEF LeaveReorg, PipelineTypeOK
<1>20. CASE EmitEvents \/ \E done \in SUBSET Height : EmitFails(done)
  <2>1. target \in Height /\ fetched \in Hash
    BY <1>20 DEF EmitEvents, EmitFails, PipelineLocals
  <2>2. FinalityTypeOK'
    BY <1>20, <2>1, EmitBlockType DEF EmitEvents, EmitFails
  <2>3. PipelineTypeOK'
    BY <1>20 DEF EmitEvents, EmitFails, Fault, Goto, locals, PipelineTypeOK, PC
  <2>4. UNCHANGED dbVars
    BY <1>20 DEF EmitEvents, EmitFails
  <2> QED BY <1>0, <1>a, <2>2, <2>3, <2>4
<1>21. CASE Commit \/ CommitUncertain
  <2>1. target \in Height /\ fetched \in Hash
    BY <1>21 DEF Commit, CommitUncertain, PipelineLocals
  <2>2. Persist
    BY <1>21 DEF Commit, CommitUncertain
  <2>3. txs' \in [Tx -> [Height -> TxRow]]
    BY <2>1, <2>2, SaveTransactionsType DEF Persist
  <2>4. failed' \subseteq Nat
    <3>1. failed' \in {failed, failed \cup {target}}
      BY <1>21 DEF Commit, CommitUncertain, HandleFailure
    <3> QED BY <3>1 DEF StorageTypeOK, PipelineTypeOK
  <2>5. cursor' \in CursorRow
    BY <2>1, <2>2 DEF Persist, UpdateBlock, CursorExists, StorageTypeOK,
       PipelineTypeOK, CursorRow, CursorState
  <2>6. blocks' \in [Height -> Hash \cup {NoHash}]
        /\ status' \in [Height -> BlockStatus \cup {"none"}]
    BY <2>1, <2>2 DEF Persist, SaveBlock, StorageTypeOK, BlockStatus
  <2>7. StorageTypeOK'
    BY <2>2, <2>3, <2>4, <2>5, <2>6 DEF Persist, StorageTypeOK
  <2>8. PipelineTypeOK'
    BY <1>21, ReturnType, FaultType DEF Commit, CommitUncertain, HandleFailure,
       PipelineTypeOK
  <2>9. UNCHANGED finalityVars
    BY <1>21 DEF Commit, CommitUncertain
  <2> QED BY <1>0, <1>b, <2>7, <2>8, <2>9
<1>22. CASE JumpUncertain
  <2>1. StorageTypeOK'
    BY <1>22 DEF JumpUncertain, Jump, UpdateBlock, CursorExists, StorageTypeOK,
       PipelineTypeOK, CursorRow, CursorState
  <2>2. PipelineTypeOK'
    BY <1>22 DEF JumpUncertain, Fault, Goto, locals, PipelineTypeOK, PC
  <2> QED BY <1>0, <1>b, <1>22, <2>1, <2>2 DEF JumpUncertain
<1> QED
  BY <1>1, <1>2, <1>3, <1>4, <1>5, <1>6, <1>7, <1>8, <1>9, <1>10, <1>11, <1>12,
     <1>13, <1>14, <1>15, <1>16, <1>17, <1>18, <1>19, <1>20, <1>21, <1>22
  DEF PipelineMoves, PipelineStep, PipelineFault

(* The block that the backfill writes lies in its row.                      *)
LEMMA BackfillBlock ==
  ASSUME IndexerInv, bfPc \in {"save", "txs"}
  PROVE  /\ bfHash \in Hash
         /\ bfNum \in Height
         /\ bfRow \in DOMAIN missing /\ InRow(bfRow, bfNum)
<1> USE DEF IndexerInv, IndexerTypeOK, TypeOK
<1>1. /\ bfRow \in DOMAIN missing /\ bfHash \in Hash
      /\ bfNum >= missing[bfRow].from /\ bfNum <= missing[bfRow].to
  BY DEF BackfillProgress
<1>2. missing[bfRow] \in MissingRow
  BY <1>1 DEF StorageTypeOK
<1> QED BY <1>1, <1>2, ChainAssumption DEF BackfillTypeOK, MissingRow, InRow, Height

(* The types survive every step of the backfill.                            *)
LEMMA BackfillType ==
  ASSUME IndexerInv, BackfillMoves \/ BackfillFails
  PROVE  IndexerTypeOK'
<1> USE DEF IndexerInv, IndexerTypeOK, TypeOK
<1>1. chain' \in Chains /\ FinalityTypeOK'
  BY DEF BackfillMoves, BackfillFails, finalityVars, FinalityTypeOK
<1>2. PipelineTypeOK'
  BY DEF BackfillMoves, BackfillFails, pipelineVars, locals, Fault, PipelineTypeOK
<1>3. CASE \E i \in DOMAIN missing : GetNext(i)
  <2>1. PICK i \in DOMAIN missing : GetNext(i)
    BY <1>3
  <2>2. i \in Nat /\ missing[i] \in MissingRow
    BY DEF StorageTypeOK
  <2>3. BackfillTypeOK'
    BY <2>1, <2>2 DEF GetNext, BackfillTypeOK, MissingRow, Height
  <2> QED BY <1>1, <1>2, <2>1, <2>3 DEF GetNext, dbVars, StorageTypeOK
<1>4. CASE MarkProcessing
  <2>1. missing' \in Seq(MissingRow)
    BY <1>4, MarkMissingFacts DEF MarkProcessing, BackfillProgress, StorageTypeOK
  <2> QED BY <1>1, <1>2, <1>4, <2>1 DEF MarkProcessing, BackfillTypeOK, StorageTypeOK
<1>5. CASE FetchMissing
  <2>1. BlockAt(bfNum) \in Hash
    BY <1>5, ChainFacts, ChainAssumption DEF FetchMissing, BackfillTypeOK, Height
  <2> QED BY <1>1, <1>2, <1>5, <2>1 DEF FetchMissing, BackfillTypeOK, dbVars, StorageTypeOK
<1>6. CASE SaveMissing
  <2>1. bfHash \in Hash
    BY <1>6, BackfillBlock DEF SaveMissing
  <2>2. StorageTypeOK'
    BY <1>6, <2>1, AdapterAssumption DEF SaveMissing, SaveBlock, StorageTypeOK, BlockStatus
  <2> QED BY <1>1, <1>2, <1>6, <2>2 DEF SaveMissing, BackfillTypeOK
<1>7. CASE SaveMissingTxs
  <2>1. bfHash \in Hash /\ bfNum \in Height
    BY <1>7, BackfillBlock DEF SaveMissingTxs
  <2>2. StorageTypeOK'
    BY <1>7, <2>1, SaveTransactionsType DEF SaveMissingTxs, StorageTypeOK
  <2> QED BY <1>1, <1>2, <1>7, <2>2 DEF SaveMissingTxs, NextMissing, BackfillTypeOK
<1>8. CASE SkipMissingTxs
  BY <1>1, <1>2, <1>8 DEF SkipMissingTxs, NextMissing, BackfillTypeOK, dbVars, StorageTypeOK
<1>9. CASE MarkCompleted
  <2>1. missing' \in Seq(MissingRow)
    BY <1>9, MarkMissingFacts DEF MarkCompleted, BackfillProgress, StorageTypeOK
  <2> QED BY <1>1, <1>2, <1>9, <2>1
          DEF MarkCompleted, ProcessOneReturns, BackfillTypeOK, StorageTypeOK
<1>10. CASE ProcessOneFails
  BY <1>1, <1>2, <1>10 DEF ProcessOneFails, ProcessOneReturns, BackfillTypeOK,
     dbVars, StorageTypeOK
<1> QED BY <1>3, <1>4, <1>5, <1>6, <1>7, <1>8, <1>9, <1>10
        DEF BackfillMoves, BackfillFails, BackfillStep, BackfillFault

-----------------------------------------------------------------------------
(* Coverage and links *)

(* A step only adds rows to blocks, and it keeps the ranges in              *)
(* missing_blocks and completes none.                                       *)
OnlyAdds ==
  /\ \A n \in Height : Stored(n) => Stored(n)'
  /\ \A i \in DOMAIN missing :
       /\ i \in DOMAIN missing'
       /\ missing'[i].from = missing[i].from /\ missing'[i].to = missing[i].to
       /\ missing[i].status # "completed" => missing'[i].status # "completed"

(* What was covered stays covered by such a step.                           *)
LEMMA CoverageKept ==
  ASSUME OnlyAdds
  PROVE  \A n \in Height : /\ Covered(n) => Covered(n)'
                           /\ InMissing(n) => InMissing(n)'
BY DEF OnlyAdds, Covered, InMissing, InRow, Stored

(* The pipeline only adds.                                                  *)
LEMMA PipelineOnlyAdds ==
  ASSUME IndexerInv, PipelineMoves
  PROVE  OnlyAdds
<1> USE DEF IndexerInv, IndexerTypeOK, TypeOK
<1>1. ASSUME NEW n \in Height, Stored(n)
      PROVE  Stored(n)'
  <2>1. CASE Commit \/ CommitUncertain
    BY <1>1, <2>1, ChainAssumption DEF Commit, CommitUncertain, Persist, SaveBlock,
       Stored, PipelineLocals, StorageTypeOK
  <2>2. CASE ~(Commit \/ CommitUncertain)
    <3>1. UNCHANGED blocks
      BY <2>2 DEF PipelineMoves, PipelineStep, PipelineFault, ReadCursor, InitCursor,
         KeepPace, RecordGap, JumpCursor, JumpFails, JumpUncertain, FetchBlock, NoNewBlock,
         CheckParent, DetectReorg, FoundSafePoint, WalkBack, ReorgTooDeep, StepFails,
         OrphanBlock, UpdateBlockStatus, RevertTx, EnterReorg, RollbackCursor,
         LeaveReorg, RollbackFails, EmitEvents, EmitFails, dbVars
    <3> QED BY <1>1, <3>1 DEF Stored
  <2> QED BY <2>1, <2>2
<1>2. CASE \E l \in Height : RecordGap(l)
  <2>1. PICK l \in Height : RecordGap(l)
    BY <1>2
  <2>2. target \in Height
    BY <2>1, PipelineAssumption, ChainAssumption
    DEF RecordGap, LagsBehind, Height, PipelineTypeOK
  <2>3. \A i \in DOMAIN missing : i \in DOMAIN missing' /\ missing'[i] = missing[i]
    BY <2>1, <2>2, AddMissingFacts DEF RecordGap, StorageTypeOK
  <2> QED BY <1>1, <2>3 DEF OnlyAdds
<1>3. CASE ~(\E l \in Height : RecordGap(l))
  <2>1. UNCHANGED missing
    BY <1>3 DEF PipelineMoves, PipelineStep, PipelineFault, ReadCursor, InitCursor,
       KeepPace, JumpCursor, JumpFails, JumpUncertain, FetchBlock, NoNewBlock, CheckParent,
       DetectReorg, FoundSafePoint, WalkBack, ReorgTooDeep, StepFails, OrphanBlock,
       RevertTx, EnterReorg, RollbackCursor, LeaveReorg, RollbackFails, EmitEvents,
       EmitFails, Commit, CommitUncertain, Persist, dbVars
  <2> QED BY <1>1, <2>1 DEF OnlyAdds
<1> QED BY <1>2, <1>3

(* The pipeline passes no block over: it moves the cursor to a block that   *)
(* it saves in the same transaction, over a gap that it has recorded, or    *)
(* back.                                                                    *)
LEMMA PipelineGap ==
  ASSUME IndexerInv, PipelineMoves
  PROVE  NoSilentGap'
<1> USE DEF IndexerInv, IndexerTypeOK, TypeOK
<1>0. \A n \in Height : Covered(n) => Covered(n)'
  BY PipelineOnlyAdds, CoverageKept
<1>1. base \in Height /\ cursor.num \in Height /\ head \in Height
  BY DEF StorageTypeOK, PipelineTypeOK, CursorRow
<1>2. CASE UNCHANGED <<base, cursor>>
  BY <1>0, <1>1, <1>2, ChainAssumption DEF NoSilentGap, CursorExists, Height
<1>3. CASE InitCursor
  <2>1. StartBlock \in Height
    BY ChainFacts, PipelineAssumption, ChainAssumption DEF StartBlock, Height
  <2> QED BY <1>3, <2>1 DEF InitCursor, Initialize, NoSilentGap, Height
<1>4. CASE JumpCursor \/ JumpUncertain
  <2>1. CursorExists /\ target = cursor.num + 1 /\ pc = "jump"
    BY <1>4 DEF JumpCursor, JumpUncertain, TargetNext
  <2>2. cursor'.num = head /\ base' = base
    BY <1>4 DEF JumpCursor, JumpUncertain, Jump, UpdateBlock, Return, Goto
  <2>3. ASSUME NEW n \in base + 1 .. head PROVE Covered(n)
    BY <1>1, <2>1, <2>3 DEF NoSilentGap, GapRecorded, Height
  <2> QED BY <1>0, <1>1, <2>2, <2>3, ChainAssumption DEF NoSilentGap, Height
<1>5. CASE EnterReorg \/ LeaveReorg
  <2>1. CursorExists /\ cursor'.num = cursor.num /\ base' = base
    BY <1>5 DEF EnterReorg, LeaveReorg, RollbackState, SetState, UpdateState, Return, Goto,
       StorageTypeOK, CursorRow
  <2> QED BY <1>0, <1>1, <2>1, ChainAssumption DEF NoSilentGap, Height
<1>6. CASE RollbackCursor
  <2>1. CursorExists /\ cursor'.num = safe.num /\ base' = base
    BY <1>6 DEF RollbackCursor, RollbackBlock, UpdateBlock, Goto
  <2>2. safe.num <= cursor.num /\ safe.num \in Height
    BY <1>1, <1>6 DEF RollbackCursor, TargetNext, Processing, PipelineLocals,
       PipelineTypeOK, Height
  <2> QED BY <1>0, <1>1, <2>1, <2>2, ChainAssumption DEF NoSilentGap, Height
<1>7. CASE Commit \/ CommitUncertain
  <2>1. /\ CursorExists /\ target <= cursor.num + 1
        /\ target \in Height /\ fetched \in Hash
    BY <1>7 DEF Commit, CommitUncertain, TargetNext, Processing, PipelineLocals
  <2>2. cursor'.num = target /\ base' = base
    BY <1>7 DEF Commit, CommitUncertain, Persist, UpdateBlock, HandleFailure, Return, Goto
  <2>3. blocks'[target] = fetched
    BY <1>7, <2>1 DEF Commit, CommitUncertain, Persist, SaveBlock, StorageTypeOK
  <2>4. Covered(cursor.num)'
    BY <2>2, <2>1, <2>3, ChainAssumption DEF Covered, Stored
  <2> QED BY <1>0, <1>1, <2>1, <2>2, <2>4, ChainAssumption DEF NoSilentGap, Height
<1> QED
  BY <1>2, <1>3, <1>4, <1>5, <1>6, <1>7 DEF PipelineMoves, PipelineStep, PipelineFault,
     ReadCursor, KeepPace, RecordGap, JumpFails, FetchBlock, NoNewBlock, CheckParent,
     DetectReorg, FoundSafePoint, WalkBack, ReorgTooDeep, StepFails, OrphanBlock, RevertTx,
     RollbackFails, EmitEvents, EmitFails, HandleFailure, Return, Goto, dbVars

(* The pipeline links what it writes: the block it commits carries the hash *)
(* of the row below, which no other goroutine can have changed since it was *)
(* checked, unless a recorded gap contains it.                              *)
LEMMA PipelineLinked ==
  ASSUME IndexerInv, PipelineMoves
  PROVE  Linked'
<1> USE DEF IndexerInv, IndexerTypeOK, TypeOK
<1>0. \A n \in Height : InMissing(n) => InMissing(n)'
  BY PipelineOnlyAdds, CoverageKept
<1>1. base \in Height /\ cursor.num \in Height /\ head \in Height
  BY DEF StorageTypeOK, PipelineTypeOK, CursorRow
<1>2. CASE /\ CursorExists /\ cursor'.num <= cursor.num /\ cursor'.num \in Height
           /\ UNCHANGED <<base, blocks>>
  BY <1>0, <1>1, <1>2, ChainAssumption DEF Linked, Height
<1>3. CASE UNCHANGED <<base, cursor, blocks>>
  BY <1>0, <1>1, <1>3, ChainAssumption DEF Linked, CursorExists, Height
<1>4. CASE InitCursor
  <2>1. StartBlock \in Height
    BY ChainFacts, PipelineAssumption, ChainAssumption DEF StartBlock, Height
  <2> QED BY <1>4, <2>1 DEF InitCursor, Initialize, Linked, Height
<1>5. CASE JumpCursor \/ JumpUncertain
  <2>1. CursorExists /\ target = cursor.num + 1 /\ pc = "jump"
    BY <1>5 DEF JumpCursor, JumpUncertain, TargetNext
  <2>2. cursor'.num = head /\ UNCHANGED <<base, blocks>>
    BY <1>5 DEF JumpCursor, JumpUncertain, Jump, UpdateBlock, Return, Goto
  <2>3. ASSUME NEW n \in base + 2 .. head, ~InMissing(n), ~InMissing(n - 1)
        PROVE  Parent[blocks[n]] = blocks[n - 1]
    BY <1>1, <2>1, <2>3 DEF Linked, GapRecorded, Height
  <2>4. \A n \in base + 2 .. head : n \in Height /\ n - 1 \in Height
    BY <1>1, ChainAssumption DEF Height
  <2>5. ASSUME NEW n \in base + 2 .. head, ~InMissing(n)', ~InMissing(n - 1)'
        PROVE  Parent[blocks[n]] = blocks[n - 1]
    BY <1>0, <2>3, <2>4, <2>5
  <2> QED BY <2>2, <2>5 DEF Linked
<1>6. CASE EnterReorg \/ LeaveReorg
  <2>1. CursorExists /\ cursor'.num = cursor.num /\ UNCHANGED <<base, blocks>>
    BY <1>6 DEF EnterReorg, LeaveReorg, RollbackState, SetState, UpdateState, Return, Goto,
       StorageTypeOK, CursorRow
  <2> QED BY <1>1, <1>2, <2>1 DEF Height
<1>7. CASE RollbackCursor
  <2>1. CursorExists /\ cursor'.num = safe.num /\ UNCHANGED <<base, blocks>>
    BY <1>7 DEF RollbackCursor, RollbackBlock, UpdateBlock, Goto
  <2>2. safe.num <= cursor.num /\ safe.num \in Height
    BY <1>1, <1>7 DEF RollbackCursor, TargetNext, Processing, PipelineLocals,
       PipelineTypeOK, Height
  <2> QED BY <1>2, <2>1, <2>2
<1>8. CASE Commit \/ CommitUncertain
  <2>1. /\ CursorExists /\ target <= cursor.num + 1 /\ pc = "commit"
        /\ target \in Height /\ fetched \in Hash
        /\ target <= cursor.num => InMissing(target)
    BY <1>1, <1>8 DEF Commit, CommitUncertain, TargetNext, Processing, PipelineLocals, Height
  <2>2. cursor'.num = target /\ UNCHANGED <<base, missing>>
    BY <1>8 DEF Commit, CommitUncertain, Persist, UpdateBlock, HandleFailure, Return, Goto
  <2>3. blocks' = [blocks EXCEPT ![target] = fetched]
    BY <1>8 DEF Commit, CommitUncertain, Persist, SaveBlock
  <2>4. ASSUME NEW n \in base + 2 .. target, ~InMissing(n)', ~InMissing(n - 1)'
        PROVE  Parent[blocks'[n]] = blocks'[n - 1]
    <3>1. n \in Height /\ n - 1 \in Height /\ ~InMissing(n) /\ ~InMissing(n - 1)
      BY <1>0, <1>1, <2>1, <2>4, ChainAssumption DEF Height
    <3>2. CASE n = target
      <4>1. Stored(n - 1)
        <5>1. n = cursor.num + 1
          BY <1>1, <2>1, <3>1, <3>2 DEF Height
        <5>2. n - 1 \in base + 1 .. cursor.num
          BY <1>1, <2>4, <3>1, <5>1 DEF Height
        <5> QED BY <2>1, <3>1, <5>2 DEF NoSilentGap, Covered, InMissing
      <4>2. Parent[fetched] = blocks[n - 1]
        BY <2>1, <3>1, <3>2, <4>1 DEF ParentChecked
      <4> QED BY <2>3, <3>1, <3>2, <4>2, <1>1, <2>1 DEF StorageTypeOK, Height
    <3>3. CASE n < target
      <4>1. Parent[blocks[n]] = blocks[n - 1]
        BY <1>1, <2>1, <3>1, <3>3 DEF Linked, Height
      <4> QED BY <2>1, <2>3, <3>1, <3>3, <4>1 DEF StorageTypeOK, Height
    <3> QED BY <1>1, <2>1, <3>2, <3>3 DEF Height
  <2> QED BY <2>2, <2>4 DEF Linked
<1> QED
  BY <1>3, <1>4, <1>5, <1>6, <1>7, <1>8 DEF PipelineMoves, PipelineStep, PipelineFault,
     ReadCursor, KeepPace, RecordGap, JumpFails, FetchBlock, NoNewBlock, CheckParent,
     DetectReorg, FoundSafePoint, WalkBack, ReorgTooDeep, StepFails, OrphanBlock, RevertTx,
     UpdateBlockStatus, RollbackFails, EmitEvents, EmitFails, HandleFailure, Return, Goto,
     dbVars

-----------------------------------------------------------------------------
(* The locals of the pipeline *)

(* The goroutine's picture of the cursor is right: nobody else moves the    *)
(* cursor between the read at the top of processNextBlock and its use.      *)
(* Only its own Jump does, over the gap, when it does not hear of it.       *)
LEMMA PipelineKeepsTarget ==
  ASSUME IndexerInv, PipelineMoves
  PROVE  TargetNext'
<1> USE DEF IndexerInv, IndexerTypeOK, TypeOK
<1>0. cursor.num \in Height /\ head \in Height /\ target \in Nat
  BY DEF StorageTypeOK, PipelineTypeOK, CursorRow
<1>a. \A n \in Height : InMissing(n) => InMissing(n)'
  BY PipelineOnlyAdds, CoverageKept
<1>1. CASE ReadCursor
  BY <1>1 DEF ReadCursor, Goto, TargetNext, Processing, dbVars, CursorExists
<1>2. CASE InitCursor
  BY <1>2 DEF InitCursor, Initialize, TargetNext, Processing, CursorExists
<1>3. CASE KeepPace \/ JumpFails
  <2>1. /\ pc \in {"lag", "jump"} /\ pc' = "fetch"
        /\ UNCHANGED <<target, cursor>>
    BY <1>3 DEF KeepPace, JumpFails, Goto, locals, dbVars
  <2>2. CursorExists' /\ target' = cursor'.num + 1 /\ cursor'.num \in Height
    BY <1>0, <2>1 DEF TargetNext, CursorExists
  <2> QED BY <2>1, <2>2 DEF TargetNext, Height
<1>4. CASE JumpUncertain
  <2>1. /\ pc = "jump" /\ pc' = "fetch" /\ target' = target
        /\ CursorExists' /\ cursor'.num = head
    BY <1>4 DEF JumpUncertain, Jump, UpdateBlock, Goto, locals, CursorExists
  <2>2. target = cursor.num + 1 /\ target <= head
        /\ \A n \in target .. head : InMissing(n)
    BY <2>1 DEF TargetNext, GapRecorded
  <2>3. \A n \in Height : target <= n /\ n <= head => InMissing(n)'
    BY <1>0, <1>a, <2>2 DEF Height
  <2>4. target > 0 /\ target <= head + 1
    BY <1>0, <2>2 DEF Height
  <2> QED BY <2>1, <2>3, <2>4 DEF TargetNext
<1>5. CASE \E l \in Height : RecordGap(l)
  BY <1>5 DEF RecordGap, Goto, TargetNext, Processing, CursorExists
<1>6. CASE pc' \in {"idle", "reset"}
  BY <1>6 DEF TargetNext, Processing
<1>7. CASE /\ pc \in Processing /\ pc' \in Processing
           /\ target' = target /\ cursor'.num = cursor.num /\ CursorExists'
  BY <1>7, <1>a DEF TargetNext, Processing
<1>8. CASE \/ FetchBlock \/ CheckParent \/ DetectReorg \/ FoundSafePoint \/ WalkBack
           \/ OrphanBlock \/ (\E t \in Tx : RevertTx(t))
           \/ EmitEvents \/ \E done \in SUBSET Height : EmitFails(done)
  <2>1. /\ pc \in Processing /\ pc' \in Processing /\ UNCHANGED <<target, cursor>>
    BY <1>8 DEF FetchBlock, CheckParent, DetectReorg, FoundSafePoint, WalkBack, OrphanBlock,
       RevertTx, EmitEvents, EmitFails, Goto, locals, dbVars, Processing
  <2>2. CursorExists'
    BY <2>1 DEF TargetNext, CursorExists
  <2> QED BY <1>7, <2>1, <2>2
<1>9. CASE EnterReorg
  <2>1. /\ pc = "revert" /\ pc' = "rollback" /\ target' = target
        /\ cursor'.num = cursor.num /\ CursorExists'
    BY <1>9 DEF EnterReorg, RollbackState, UpdateState, Goto, locals, CursorExists,
       StorageTypeOK, CursorRow
  <2> QED BY <1>7, <2>1 DEF Processing
<1> QED
  BY <1>1, <1>2, <1>3, <1>4, <1>5, <1>6, <1>8, <1>9
  DEF PipelineMoves, PipelineStep, PipelineFault, JumpCursor, NoNewBlock, ReorgTooDeep,
      StepFails, RollbackCursor, LeaveReorg, RollbackFails, Commit, CommitUncertain,
      HandleFailure, Return, Goto

(* The other locals are right too: the walk of findSafePoint starts below   *)
(* the target and goes down.                                                *)
LEMMA PipelineKeepsLocals ==
  ASSUME IndexerInv, PipelineMoves
  PROVE  PipelineLocals'
<1> USE DEF IndexerInv, IndexerTypeOK, TypeOK
<1>0. safe.num \in Height /\ target \in Nat
  BY DEF PipelineTypeOK
<1>1. CASE pc' \in {"idle", "lag", "jump", "fetch"}
  BY <1>1 DEF PipelineLocals
<1>2. CASE FetchBlock
  <2>1. target \in Height
    BY <1>0, <1>2, ChainFacts, ChainAssumption DEF FetchBlock, Height
  <2>2. BlockAt(target) \in Hash
    BY <1>2, <2>1, ChainFacts, ChainAssumption DEF FetchBlock, Height
  <2> QED BY <1>2, <2>1, <2>2 DEF FetchBlock, Goto, PipelineLocals
<1>3. CASE CheckParent
  BY <1>3 DEF CheckParent, Goto, locals, PipelineLocals
<1>4. CASE DetectReorg
  <2>1. safe'.num < target
    BY <1>0, <1>4 DEF DetectReorg
  <2> QED BY <1>4, <2>1 DEF DetectReorg, Goto, PipelineLocals
<1>5. CASE FoundSafePoint
  <2>1. SafePoint(safe.num).num <= safe.num /\ SafePoint(safe.num).num \in Nat
    BY <1>0 DEF SafePoint, Height
  <2>2. safe'.num < target
    BY <1>0, <1>5, <2>1 DEF FoundSafePoint, PipelineLocals, Height
  <2> QED BY <1>5, <2>2 DEF FoundSafePoint, Goto, PipelineLocals
<1>6. CASE WalkBack
  <2>1. safe'.num = safe.num - 1
    BY <1>6 DEF WalkBack, PipelineTypeOK
  <2> QED BY <1>0, <1>6, <2>1 DEF WalkBack, PipelineLocals, Height
<1>7. CASE OrphanBlock \/ \E t \in Tx : RevertTx(t)
  BY <1>7 DEF OrphanBlock, RevertTx, Goto, PipelineLocals
<1>8. CASE EnterReorg
  BY <1>8 DEF EnterReorg, Goto, locals, PipelineLocals
<1>9. CASE RollbackCursor
  BY <1>9 DEF RollbackCursor, RollbackBlock, UpdateBlock, Goto, PipelineLocals, CursorExists
<1>10. CASE EmitEvents \/ \E done \in SUBSET Height : EmitFails(done)
  BY <1>10 DEF EmitEvents, EmitFails, Goto, locals, PipelineLocals
<1> QED
  BY <1>1, <1>2, <1>3, <1>4, <1>5, <1>6, <1>7, <1>8, <1>9, <1>10
  DEF PipelineMoves, PipelineStep, PipelineFault, ReadCursor, InitCursor, KeepPace, RecordGap,
      JumpCursor, JumpFails, JumpUncertain, NoNewBlock, ReorgTooDeep, StepFails, LeaveReorg,
      RollbackFails, Commit, CommitUncertain, HandleFailure, Return, Goto

(* The gap is on record as soon as jumpToHead is half way.                  *)
LEMMA PipelineRecordsGap ==
  ASSUME IndexerInv, PipelineMoves
  PROVE  GapRecorded'
<1> USE DEF IndexerInv, IndexerTypeOK, TypeOK
<1>1. CASE \E l \in Height : RecordGap(l)
  <2>1. PICK l \in Height : RecordGap(l)
    BY <1>1
  <2>2. target \in Height /\ target <= l
    BY <2>1, PipelineAssumption, ChainAssumption
    DEF RecordGap, LagsBehind, Height, PipelineTypeOK
  <2> DEFINE k == Len(missing) + 1
  <2>3. /\ k \in DOMAIN missing'
        /\ missing'[k] = [from |-> target, to |-> l, status |-> "pending"]
    BY <2>1, <2>2, AddMissingFacts DEF RecordGap, StorageTypeOK
  <2>4. target' = target /\ head' = l
    BY <2>1 DEF RecordGap
  <2> QED BY <2>2, <2>3, <2>4 DEF GapRecorded, Covered, InMissing, InRow
<1>2. CASE pc' # "jump"
  BY <1>2 DEF GapRecorded
<1> QED
  BY <1>1, <1>2 DEF PipelineMoves, PipelineStep, PipelineFault, ReadCursor, InitCursor,
     KeepPace, JumpCursor, JumpFails, JumpUncertain, FetchBlock, NoNewBlock, CheckParent,
     DetectReorg, FoundSafePoint, WalkBack, ReorgTooDeep, StepFails, OrphanBlock, RevertTx, EnterReorg,
     RollbackCursor, LeaveReorg, RollbackFails, EmitEvents, EmitFails, Commit,
     CommitUncertain, HandleFailure, Return, Goto

(* The parent check is made before the events go out and the block is       *)
(* committed.                                                               *)
LEMMA PipelineChecksParent ==
  ASSUME IndexerInv, PipelineMoves
  PROVE  ParentChecked'
<1> USE DEF IndexerInv
<1>1. CASE CheckParent
  BY <1>1 DEF CheckParent, ParentMatches, Goto, locals, dbVars, ParentChecked, Stored
<1>2. CASE EmitEvents \/ \E done \in SUBSET Height : EmitFails(done)
  BY <1>2 DEF EmitEvents, EmitFails, Goto, locals, dbVars, ParentChecked, Stored,
     InMissing, InRow
<1>3. CASE pc' \notin {"txs", "commit"}
  BY <1>3 DEF ParentChecked
<1> QED
  BY <1>1, <1>2, <1>3 DEF PipelineMoves, PipelineStep, PipelineFault, ReadCursor, InitCursor,
     KeepPace, RecordGap, JumpCursor, JumpFails, JumpUncertain, FetchBlock, NoNewBlock,
     DetectReorg, FoundSafePoint, WalkBack, ReorgTooDeep, StepFails, OrphanBlock, RevertTx, EnterReorg,
     RollbackCursor, LeaveReorg, RollbackFails, Commit, CommitUncertain, HandleFailure,
     Return, Goto

(* The pipeline takes nothing from the backfill.                            *)
LEMMA PipelineKeepsBackfill ==
  ASSUME IndexerInv, PipelineMoves
  PROVE  BackfillTypeOK' /\ BackfillProgress'
<1>1. OnlyAdds
  BY PipelineOnlyAdds
<1>2. UNCHANGED bfVars
  BY DEF PipelineMoves
<1>3. bfPc = "txs" => bfNum \in Height
  BY BackfillBlock
<1> QED BY <1>1, <1>2, <1>3 DEF IndexerInv, IndexerTypeOK, bfVars, BackfillTypeOK,
           BackfillProgress, OnlyAdds

-----------------------------------------------------------------------------
(* The backfill *)

(* Whatever the backfill does, it takes no row away, and it completes its   *)
(* row only when every block of it is stored.  So what was covered stays    *)
(* covered.                                                                 *)
LEMMA BackfillCoverage ==
  ASSUME IndexerInv, BackfillMoves \/ BackfillFails
  PROVE  /\ \A n \in Height : /\ Stored(n) => Stored(n)'
                              /\ Covered(n) => Covered(n)'
                              /\ InMissing(n) => InMissing(n)'
         /\ \A n \in Height : ~InMissing(n) => blocks'[n] = blocks[n]
         /\ DOMAIN missing' = DOMAIN missing
         /\ \A i \in DOMAIN missing :
              missing'[i].from = missing[i].from /\ missing'[i].to = missing[i].to
<1> USE DEF IndexerInv, IndexerTypeOK, TypeOK
<1>1. CASE SaveMissing
  <2>1. /\ bfHash \in Hash /\ bfNum \in Height
        /\ bfRow \in DOMAIN missing /\ InRow(bfRow, bfNum)
    BY <1>1, BackfillBlock DEF SaveMissing
  <2>2. blocks' = [blocks EXCEPT ![bfNum] = bfHash] /\ UNCHANGED missing
    BY <1>1 DEF SaveMissing, SaveBlock
  <2> QED BY <2>1, <2>2, ChainAssumption DEF StorageTypeOK, Stored, Covered, InMissing, InRow
<1>2. CASE MarkProcessing
  <2>1. bfRow \in DOMAIN missing /\ UNCHANGED blocks
    BY <1>2 DEF MarkProcessing, BackfillProgress
  <2>2. /\ DOMAIN missing' = DOMAIN missing
        /\ \A j \in DOMAIN missing :
             /\ missing'[j].from = missing[j].from /\ missing'[j].to = missing[j].to
             /\ missing'[j].status =
                  IF j = bfRow THEN "processing" ELSE missing[j].status
    BY <1>2, <2>1, MarkMissingFacts DEF MarkProcessing, StorageTypeOK
  <2> QED BY <2>1, <2>2 DEF Stored, Covered, InMissing, InRow
<1>3. CASE MarkCompleted
  <2>1. bfRow \in DOMAIN missing /\ UNCHANGED blocks /\ bfNum > missing[bfRow].to
    <3>1. bfRow \in DOMAIN missing /\ UNCHANGED blocks /\ ~(bfNum <= missing[bfRow].to)
      BY <1>3 DEF MarkCompleted, InRange, BackfillProgress
    <3>2. missing[bfRow] \in MissingRow
      BY <3>1 DEF StorageTypeOK
    <3> QED BY <3>1, <3>2, ChainAssumption DEF MissingRow, BackfillTypeOK, Height
  <2>2. /\ DOMAIN missing' = DOMAIN missing
        /\ \A j \in DOMAIN missing :
             /\ missing'[j].from = missing[j].from /\ missing'[j].to = missing[j].to
             /\ missing'[j].status =
                  IF j = bfRow THEN "completed" ELSE missing[j].status
    BY <1>3, <2>1, MarkMissingFacts DEF MarkCompleted, StorageTypeOK
  <2>3. ASSUME NEW n \in Height, InRow(bfRow, n) PROVE Stored(n)
    <3>1. missing[bfRow] \in MissingRow
      BY <2>1 DEF StorageTypeOK
    <3>2. n >= missing[bfRow].from /\ n < bfNum
      BY <2>1, <2>3, <3>1, ChainAssumption DEF InRow, MissingRow, Height, BackfillTypeOK
    <3> QED BY <1>3, <3>2 DEF MarkCompleted, BackfillProgress
  <2>4. \A n \in Height : Covered(n) => Covered(n)'
    BY <2>1, <2>2, <2>3 DEF Stored, Covered, InRow
  <2> QED BY <2>1, <2>2, <2>4 DEF Stored, InMissing, InRow
<1>4. CASE UNCHANGED <<blocks, missing>>
  BY <1>4 DEF Stored, Covered, InMissing, InRow
<1> QED
  BY <1>1, <1>2, <1>3, <1>4 DEF BackfillMoves, BackfillFails, BackfillStep, BackfillFault,
     GetNext, FetchMissing, SaveMissingTxs, SkipMissingTxs, ProcessOneFails, dbVars

(* The backfill leaves the cursor and the locals of the pipeline alone, and *)
(* it writes only inside recorded gaps.                                     *)
LEMMA BackfillKeepsPipeline ==
  ASSUME IndexerInv, BackfillMoves \/ BackfillFails
  PROVE  /\ NoSilentGap' /\ Linked'
         /\ TargetNext' /\ PipelineLocals' /\ GapRecorded' /\ ParentChecked'
<1> USE DEF IndexerInv, IndexerTypeOK, TypeOK
<1>0. /\ base \in Height /\ cursor.num \in Height /\ head \in Height
      /\ target \in Nat
  BY DEF StorageTypeOK, PipelineTypeOK, CursorRow
<1>1. UNCHANGED <<cursor, base, pc, target, fetched, head, safe, reverts>>
  BY DEF BackfillMoves, BackfillFails, pipelineVars, locals, BackfillStep, BackfillFault,
     GetNext, MarkProcessing, FetchMissing, SaveMissing, SaveMissingTxs, MarkCompleted,
     ProcessOneFails, SkipMissingTxs, dbVars
<1>2. NoSilentGap'
  BY <1>0, <1>1, BackfillCoverage, ChainAssumption DEF NoSilentGap, CursorExists, Height
<1>3. Linked'
  <2>1. ASSUME CursorExists, NEW n \in base + 2 .. cursor.num,
               ~InMissing(n)', ~InMissing(n - 1)'
        PROVE  Parent[blocks'[n]] = blocks'[n - 1]
    <3>1. n \in Height /\ n - 1 \in Height
      BY <1>0, <2>1, ChainAssumption DEF Height
    <3>2. ~InMissing(n) /\ ~InMissing(n - 1)
      BY <2>1, <3>1, BackfillCoverage
    <3>3. blocks'[n] = blocks[n] /\ blocks'[n - 1] = blocks[n - 1]
      BY <3>1, <3>2, BackfillCoverage
    <3> QED BY <2>1, <3>2, <3>3 DEF Linked
  <2> QED BY <1>1, <2>1 DEF Linked, CursorExists
<1>4. PipelineLocals' /\ TargetNext'
  <2>1. PipelineLocals'
    BY <1>1 DEF PipelineLocals, CursorExists
  <2>2. \A n \in Height : InMissing(n) => InMissing(n)'
    BY BackfillCoverage
  <2>3. TargetNext'
    BY <1>1, <2>2 DEF TargetNext, CursorExists
  <2> QED BY <2>1, <2>3
<1>5. GapRecorded'
  <2>1. \A n \in Height : /\ Covered(n) => Covered(n)'
                          /\ InMissing(n) => InMissing(n)'
    BY BackfillCoverage
  <2>2. \A n \in target .. head : n \in Height
    BY <1>0, ChainAssumption DEF Height
  <2> QED BY <1>1, <2>1, <2>2 DEF GapRecorded
<1>6. ParentChecked'
  <2>1. ASSUME pc \in {"txs", "commit"}, Stored(target - 1)', ~InMissing(target - 1)'
        PROVE  Parent[fetched] = blocks'[target - 1]
    <3>1. target - 1 \in Height
      <4>1. target \in Height /\ target > 0
        BY <2>1 DEF TargetNext, Processing, PipelineLocals
      <4> QED BY <4>1, ChainAssumption DEF Height
    <3>2. target' = target
      BY <1>1
    <3>3. ~InMissing(target - 1)
      BY <2>1, <3>1, <3>2, BackfillCoverage
    <3>4. blocks'[target - 1] = blocks[target - 1]
      BY <3>1, <3>3, BackfillCoverage
    <3>5. Stored(target - 1)
      BY <2>1, <3>2, <3>4 DEF Stored
    <3> QED BY <2>1, <3>3, <3>4, <3>5 DEF ParentChecked
  <2> QED BY <1>1, <2>1 DEF ParentChecked
<1> QED BY <1>2, <1>3, <1>4, <1>5, <1>6

(* The backfill stores a block before it goes on to the next one.           *)
LEMMA BackfillKeepsProgress ==
  ASSUME IndexerInv, BackfillMoves \/ BackfillFails
  PROVE  BackfillProgress'
<1> USE DEF IndexerInv, IndexerTypeOK, TypeOK
<1>1. CASE \E i \in DOMAIN missing : GetNext(i)
  <2>1. PICK i \in DOMAIN missing : GetNext(i)
    BY <1>1
  <2>2. missing[i] \in MissingRow
    BY DEF StorageTypeOK
  <2>3. /\ bfPc' = "mark" /\ bfRow' = i /\ bfNum' = missing[i].from
        /\ UNCHANGED <<blocks, missing>>
    BY <2>1 DEF GetNext, dbVars
  <2> QED BY <2>2, <2>3 DEF BackfillProgress, MissingRow, Height
<1>2. CASE MarkProcessing
  BY <1>2, BackfillCoverage DEF MarkProcessing, BackfillProgress
<1>3. CASE FetchMissing
  <2>1. BlockAt(bfNum) \in Hash
    BY <1>3, ChainFacts, ChainAssumption DEF FetchMissing, BackfillTypeOK, Height
  <2> QED BY <1>3, <2>1 DEF FetchMissing, InRange, BackfillProgress, dbVars, Stored
<1>4. CASE SaveMissing
  <2>1. bfHash \in Hash /\ bfNum \in Height
    BY <1>4, BackfillBlock DEF SaveMissing
  <2>2. Stored(bfNum)'
    BY <1>4, <2>1, ChainAssumption DEF SaveMissing, SaveBlock, Stored, StorageTypeOK
  <2> QED BY <1>4, <2>2, BackfillCoverage DEF SaveMissing, BackfillProgress
<1>5. CASE SaveMissingTxs \/ SkipMissingTxs
  <2>1. bfPc = "txs" /\ NextMissing /\ UNCHANGED <<blocks, missing>>
    BY <1>5 DEF SaveMissingTxs, SkipMissingTxs, dbVars
  <2>2. bfNum \in Height /\ bfRow \in DOMAIN missing /\ missing[bfRow] \in MissingRow
    BY <2>1, BackfillBlock DEF StorageTypeOK
  <2>3. \A n \in Height : n >= missing[bfRow].from /\ n < bfNum + 1 => Stored(n)
    BY <2>1, <2>2 DEF BackfillProgress, Height
  <2> QED BY <2>1, <2>2, <2>3 DEF NextMissing, BackfillProgress, MissingRow, Height, Stored
<1>6. CASE MarkCompleted \/ ProcessOneFails
  BY <1>6 DEF MarkCompleted, ProcessOneFails, ProcessOneReturns, BackfillProgress
<1> QED BY <1>1, <1>2, <1>3, <1>4, <1>5, <1>6
        DEF BackfillMoves, BackfillFails, BackfillStep, BackfillFault

-----------------------------------------------------------------------------
(* The process and the node *)

(* A crash loses the locals of both goroutines; the database stays.  The    *)
(* node does not touch the indexer.                                         *)
LEMMA EnvironmentInv ==
  ASSUME IndexerInv, ProcessCrash \/ ProcessRestart \/ NodeMoves \/ UNCHANGED vars
  PROVE  IndexerInv'
<1> USE DEF IndexerInv, IndexerTypeOK, TypeOK
<1>1. UNCHANGED dbVars /\ UNCHANGED base
  BY DEF ProcessCrash, Crash, ProcessRestart, Restart, Goto, NodeMoves, vars,
     pipelineWorld, pipelineVars
<1>2. StorageTypeOK' /\ NoSilentGap' /\ Linked'
  BY <1>1 DEF dbVars, StorageTypeOK, NoSilentGap, Linked, Covered, InMissing, InRow,
     Stored, CursorExists
<1>3. CASE ProcessCrash
  <2>1. PipelineTypeOK'
    BY <1>3, ChainAssumption DEF ProcessCrash, Crash, PipelineTypeOK, PC, NoBlock, Height
  <2>2. FinalityTypeOK' /\ chain' \in Chains
    BY <1>3 DEF ProcessCrash, Crash, FinalityCrash, NoPending, FinalityTypeOK
  <2>3. BackfillTypeOK' /\ BackfillProgress'
    BY <1>3 DEF ProcessCrash, ProcessOneReturns, BackfillTypeOK, BackfillProgress
  <2>4. TargetNext' /\ PipelineLocals' /\ GapRecorded' /\ ParentChecked'
    BY <1>3 DEF ProcessCrash, Crash, TargetNext, Processing, PipelineLocals, GapRecorded,
       ParentChecked
  <2> QED BY <1>2, <2>1, <2>2, <2>3, <2>4
<1>4. CASE ProcessRestart
  <2>1. PipelineTypeOK' /\ FinalityTypeOK' /\ BackfillTypeOK' /\ chain' \in Chains
    BY <1>4 DEF ProcessRestart, Restart, Goto, locals, finalityVars, bfVars,
       PipelineTypeOK, FinalityTypeOK, BackfillTypeOK, PC
  <2>2. TargetNext' /\ PipelineLocals' /\ GapRecorded' /\ ParentChecked'
    BY <1>4 DEF ProcessRestart, Restart, Goto, TargetNext, Processing, PipelineLocals,
       GapRecorded, ParentChecked
  <2>3. BackfillProgress'
    BY <1>1, <1>4 DEF ProcessRestart, bfVars, dbVars, BackfillProgress, Stored
  <2> QED BY <1>2, <2>1, <2>2, <2>3
<1>5. CASE NodeMoves \/ UNCHANGED vars
  <2>1. /\ chain' \in Chains
        /\ UNCHANGED <<dbVars, finalityVars, pc, locals, base, faults, crashes, bfVars>>
    BY <1>5 DEF NodeMoves, NodeStep, vars, pipelineWorld, pipelineVars
  <2>2. PipelineTypeOK' /\ FinalityTypeOK' /\ BackfillTypeOK'
    BY <2>1 DEF locals, finalityVars, bfVars, PipelineTypeOK, FinalityTypeOK, BackfillTypeOK
  <2>3. /\ TargetNext' /\ PipelineLocals' /\ GapRecorded' /\ ParentChecked'
        /\ BackfillProgress'
    BY <2>1 DEF locals, dbVars, bfVars, TargetNext, PipelineLocals, GapRecorded,
       ParentChecked, BackfillProgress, CursorExists, Stored, Covered, InMissing, InRow
  <2> QED BY <1>2, <2>1, <2>2, <2>3
<1> QED BY <1>3, <1>4, <1>5

-----------------------------------------------------------------------------
(* The theorems *)

(* The invariant holds at the start, with empty tables.                     *)
LEMMA InitInv == Init => IndexerInv
<1> SUFFICES ASSUME Init PROVE IndexerInv
  OBVIOUS
<1> USE DEF Init
<1>1. StorageTypeOK
  BY ChainAssumption DEF StorageInit, StorageTypeOK, NoTxRow, TxRow, NoCursor, CursorRow,
     Height
<1>2. FinalityTypeOK
  BY DEF FinalityInit, FinalityTypeOK, NoPending
<1>3. PipelineTypeOK /\ BackfillTypeOK
  BY ChainAssumption DEF PipelineInit, PipelineTypeOK, BackfillInit, BackfillTypeOK, PC,
     NoBlock, Height
<1>4. NoSilentGap /\ Linked
  BY DEF StorageInit, NoCursor, CursorExists, NoSilentGap, Linked
<1>5. TargetNext /\ PipelineLocals /\ GapRecorded /\ ParentChecked /\ BackfillProgress
  BY DEF PipelineInit, BackfillInit, TargetNext, Processing, PipelineLocals, GapRecorded,
     ParentChecked, BackfillProgress
<1> QED BY <1>1, <1>2, <1>3, <1>4, <1>5 DEF ChainInit, IndexerInv, IndexerTypeOK, TypeOK

(* Every step of the pipeline, the backfill, the node or a crash keeps it.  *)
LEMMA NextInv == IndexerInv /\ [Next]_vars => IndexerInv'
<1> SUFFICES ASSUME IndexerInv, [Next]_vars PROVE IndexerInv'
  OBVIOUS
<1>1. CASE PipelineMoves
  BY <1>1, PipelineType, PipelineGap, PipelineLinked, PipelineKeepsTarget, PipelineKeepsLocals,
     PipelineRecordsGap, PipelineChecksParent, PipelineKeepsBackfill
  DEF IndexerInv, IndexerTypeOK
<1>2. CASE BackfillMoves \/ BackfillFails
  BY <1>2, BackfillType, BackfillKeepsPipeline, BackfillKeepsProgress DEF IndexerInv
<1>3. CASE ProcessCrash \/ ProcessRestart \/ NodeMoves \/ UNCHANGED vars
  BY <1>3, EnvironmentInv
<1> QED BY <1>1, <1>2, <1>3 DEF Next

(* The inductive invariant of the pipeline and the backfill together.       *)
THEOREM Invariance == Spec => []IndexerInv
BY InitInv, NextInv, PTL DEF Spec

(* Every variable keeps its type, the heights of the cursor and the walk    *)
(* included: no number ever runs below 0 or above the chain.                *)
THEOREM TypesHold == Spec => []IndexerTypeOK
<1>1. IndexerInv => IndexerTypeOK
  BY DEF IndexerInv
<1> QED BY <1>1, Invariance, PTL

(* The same for the state of the pipeline alone.                            *)
THEOREM PipelineTypesHold == Spec => []TypeOK
<1>1. IndexerInv => TypeOK
  BY DEF IndexerInv, IndexerTypeOK
<1> QED BY <1>1, Invariance, PTL

(* No block between the start and the cursor is passed over in silence,     *)
(* whatever the pipeline, the backfill, the node and crashes do.            *)
THEOREM GapsAreRecorded == Spec => []NoSilentGap
<1>1. IndexerInv => NoSilentGap
  BY DEF IndexerInv
<1> QED BY <1>1, Invariance, PTL

(* The rows that the pipeline wrote up to the cursor form one chain.        *)
THEOREM RowsAreLinked == Spec => []Linked
<1>1. IndexerInv => Linked
  BY DEF IndexerInv
<1> QED BY <1>1, Invariance, PTL

=============================================================================
