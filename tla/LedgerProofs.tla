---------------------------- MODULE LedgerProofs ----------------------------
(***************************************************************************)
(* The tables of a chain implement Ledger, for every chain, every sequence *)
(* of reorgs and every interleaving of the pipeline, the backfill, failing *)
(* calls and crashes.  IndexerInv gives the links and the coverage of the  *)
(* ledger; LedgerInv adds where the walk of findSafePoint can lead.        *)
(***************************************************************************)
EXTENDS IndexerProofs

(* What the proofs below use of the types.                                  *)
LEMMA LedgerTypes ==
  ASSUME IndexerInv
  PROVE  /\ base \in Height /\ cursor.num \in Height /\ head \in Height
         /\ safe.num \in Height /\ target \in Nat /\ Latest \in Height
         /\ blocks \in [Height -> Hash \cup {NoHash}]
         /\ missing \in Seq(MissingRow)
BY ChainFacts DEF IndexerInv, IndexerTypeOK, TypeOK, StorageTypeOK, PipelineTypeOK, CursorRow

(* A number on the ledger has a row in table blocks.                        *)
LEMMA OnLedgerStored ==
  ASSUME IndexerInv, NEW n \in Height, OnLedger(n)
  PROVE  Stored(n)
BY LedgerTypes DEF IndexerInv, NoSilentGap, OnLedger, Covered, InMissing, Height

(* Two neighbours on the ledger are linked.                                 *)
LEMMA NeighboursLinked ==
  ASSUME IndexerInv, NEW n \in Height, Neighbours(n)
  PROVE  n + 1 \in Height /\ Parent[blocks[n + 1]] = blocks[n]
BY LedgerTypes, ChainAssumption DEF IndexerInv, Linked, Neighbours, OnLedger, Height

(* The walk goes on only from a pair of stored rows that are not linked,    *)
(* and such a pair is not on the ledger.                                    *)
LEMMA WalkPassesNoNeighbours ==
  ASSUME IndexerInv, LedgerInv, pc = "walk", ~StopsAt(safe.num)
  PROVE  /\ safe.num - 1 \in Height /\ Stored(safe.num - 1)
         /\ \A m \in Height : safe.num - 1 <= m => ~Neighbours(m)
<1>1. safe.num \in Height /\ safe.num - 1 \in Height /\ Stored(safe.num - 1)
  BY LedgerTypes, ChainAssumption DEF StopsAt, Height
<1>2. ~Neighbours(safe.num - 1)
  <2>1. ASSUME NEW n \in Height, n = safe.num - 1 PROVE ~Neighbours(n)
    BY <1>1, <2>1, NeighboursLinked DEF StopsAt, Height
  <2> QED BY <1>1, <2>1
<1> QED BY <1>1, <1>2 DEF LedgerInv, WalkSpan, Height

(* A number in a recorded gap lies above the start.                         *)
LEMMA GapAboveBase ==
  ASSUME IndexerInv, LedgerInv, NEW n \in Height, InMissing(n)
  PROVE  CursorExists /\ base < n
<1>1. PICK i \in DOMAIN missing : InRow(i, n)
  BY DEF InMissing
<1>2. missing[i] \in MissingRow
  BY <1>1, LedgerTypes
<1> QED BY <1>1, <1>2, LedgerTypes DEF LedgerInv, GapsAboveBase, InRow, MissingRow, Height

(* The block in process lies above the start, and what the cursor is ahead  *)
(* of it is not on the ledger.                                              *)
LEMMA TargetOnLedger ==
  ASSUME IndexerInv, LedgerInv, pc \in Processing
  PROVE  /\ CursorExists /\ base < target /\ target <= cursor.num + 1
         /\ \A n \in Height : target <= n => ~OnLedger(n)
<1>1. /\ CursorExists /\ target > 0 /\ target <= cursor.num + 1
      /\ \A n \in Height : target <= n /\ n <= cursor.num => InMissing(n)
  BY DEF IndexerInv, TargetNext
<1>2. base < target
  <2>1. CASE target <= cursor.num
    <3>1. PICK n \in Height : n = target
      BY <2>1, LedgerTypes, ChainAssumption DEF Height
    <3>2. InMissing(n)
      BY <1>1, <2>1, <3>1, LedgerTypes DEF Height
    <3> QED BY <3>1, <3>2, GapAboveBase
  <2>2. CASE target = cursor.num + 1
    BY <2>2, <1>1, LedgerTypes DEF LedgerInv, RowsAboveBase, Height
  <2> QED BY <1>1, <2>1, <2>2, LedgerTypes DEF Height
<1> QED BY <1>1, <1>2, LedgerTypes DEF OnLedger, Height

-----------------------------------------------------------------------------
(* LedgerInv is inductive next to IndexerInv *)

(* A step of the pipeline keeps LedgerInv.                                  *)
LEMMA PipelineLedger ==
  ASSUME IndexerInv, LedgerInv, PipelineMoves
  PROVE  LedgerInv'
<1>0. /\ RowsAboveBase /\ GapsAboveBase /\ WalkSpan
      /\ TargetNext /\ PipelineLocals /\ GapRecorded
  BY DEF LedgerInv, IndexerInv
<1>a. ASSUME UNCHANGED <<blocks, missing, cursor, base>>
      PROVE  RowsAboveBase' /\ GapsAboveBase'
             /\ \A m \in Height : Neighbours(m)' = Neighbours(m)
  BY <1>0, <1>a DEF RowsAboveBase, GapsAboveBase, Neighbours, OnLedger, InMissing, InRow,
     Stored, CursorExists
<1>1. CASE /\ UNCHANGED <<blocks, missing, cursor, base>>
           /\ pc' \notin {"jump", "walk", "orphan", "revert", "rollback"}
  BY <1>1, <1>a DEF LedgerInv, WalkSpan
<1>2. CASE InitCursor
  <2>1. StartBlock \in Height
    BY LedgerTypes, PipelineAssumption, ChainAssumption DEF StartBlock, Height
  <2>2. RowsAboveBase'
    BY <1>0, <1>2, <2>1 DEF InitCursor, Initialize, RowsAboveBase, Stored, CursorExists, Height
  <2>3. GapsAboveBase' /\ WalkSpan'
    BY <1>0, <1>2 DEF InitCursor, GapsAboveBase, WalkSpan
  <2> QED BY <2>2, <2>3 DEF LedgerInv
<1>3. CASE \E l \in Height : RecordGap(l)
  <2>1. PICK l \in Height : RecordGap(l)
    BY <1>3
  <2>2. target \in Height /\ target <= l
    BY <2>1, LedgerTypes, PipelineAssumption, ChainAssumption DEF RecordGap, LagsBehind, Height
  <2>3. /\ DOMAIN missing' = DOMAIN missing \cup {Len(missing) + 1}
        /\ \A j \in DOMAIN missing : missing'[j] = missing[j]
        /\ missing'[Len(missing) + 1] = [from |-> target, to |-> l, status |-> "pending"]
    BY <2>1, <2>2, LedgerTypes, AddMissingFacts DEF RecordGap
  <2>4. /\ UNCHANGED <<blocks, cursor, base, target>> /\ pc = "lag"
        /\ pc' = "jump" /\ head' = l
    BY <2>1 DEF RecordGap, Goto
  <2>5. CursorExists /\ base < target
    BY <1>0, <2>4, LedgerTypes DEF TargetNext, RowsAboveBase, Height
  <2>6. GapsAboveBase'
    BY <1>0, <2>3, <2>4, <2>5 DEF GapsAboveBase, CursorExists
  <2> QED BY <1>0, <2>2, <2>4, <2>6 DEF LedgerInv, RowsAboveBase, WalkSpan,
             Stored, CursorExists
<1>4. CASE JumpCursor \/ JumpUncertain
  <2>1. /\ UNCHANGED <<blocks, missing, base>> /\ CursorExists /\ CursorExists'
        /\ cursor'.num = head /\ pc = "jump" /\ pc' \in {"idle", "fetch"}
    BY <1>4 DEF JumpCursor, JumpUncertain, Jump, UpdateBlock, Return, Goto, CursorExists
  <2>2. base <= head
    BY <1>0, <2>1, LedgerTypes DEF TargetNext, GapRecorded, RowsAboveBase, Height
  <2> QED BY <1>0, <2>1, <2>2 DEF LedgerInv, RowsAboveBase, GapsAboveBase,
             WalkSpan, Stored
<1>5. CASE DetectReorg
  <2>1. /\ UNCHANGED <<blocks, missing, cursor, base>> /\ pc' = "walk"
        /\ safe'.num = target - 1 /\ Stored(target - 1) /\ pc \in Processing
    BY <1>5 DEF DetectReorg, ParentMatches, Goto, dbVars, Processing
  <2>2. \A m \in Height : target - 1 <= m => ~Neighbours(m)
    <3>1. ASSUME NEW m \in Height, target - 1 <= m PROVE ~OnLedger(m + 1)
      <4>1. CASE m + 1 \in Height
        BY <2>1, <3>1, <4>1, TargetOnLedger, LedgerTypes DEF Height
      <4>2. CASE m + 1 \notin Height
        BY <4>2, LedgerTypes, ChainAssumption DEF OnLedger, Height
      <4> QED BY <4>1, <4>2
    <3> QED BY <3>1 DEF Neighbours
  <2> QED BY <1>a, <2>1, <2>2 DEF LedgerInv, WalkSpan, Stored
<1>6. CASE FoundSafePoint
  <2>1. /\ UNCHANGED <<blocks, missing, cursor, base>> /\ pc = "walk" /\ pc' = "orphan"
        /\ Stored(safe.num) /\ safe.num < target /\ target <= cursor.num + 1
    BY <1>0, <1>6 DEF FoundSafePoint, WalkSpan, TargetNext, Processing, PipelineLocals, Goto,
       dbVars
  <2>2. base < safe.num
    BY <1>0, <2>1, LedgerTypes DEF RowsAboveBase
  <2>3. safe'.num = safe.num - 1
    BY <1>6, <2>1, <2>2, LedgerTypes DEF FoundSafePoint, SafePoint, Height
  <2>4. \A m \in Height : safe'.num < m => ~Neighbours(m)
    BY <1>0, <2>1, <2>3, LedgerTypes DEF WalkSpan, Height
  <2> QED BY <1>a, <2>1, <2>2, <2>3, <2>4, LedgerTypes DEF LedgerInv, WalkSpan,
             Height
<1>7. CASE WalkBack
  <2>1. /\ UNCHANGED <<blocks, missing, cursor, base, pc>> /\ pc = "walk"
        /\ safe'.num = safe.num - 1
    BY <1>7 DEF WalkBack, dbVars, IndexerInv, IndexerTypeOK, TypeOK, PipelineTypeOK
  <2>2. /\ Stored(safe.num - 1)
        /\ \A m \in Height : safe.num - 1 <= m => ~Neighbours(m)
    BY <1>7, WalkPassesNoNeighbours DEF WalkBack
  <2> QED BY <1>a, <2>1, <2>2 DEF LedgerInv, WalkSpan, Stored
<1>8. CASE OrphanBlock \/ \E t \in Tx : RevertTx(t)
  <2>1. /\ UNCHANGED <<blocks, missing, cursor, base, safe>>
        /\ pc \in {"orphan", "revert"} /\ pc' = "revert"
    BY <1>8 DEF OrphanBlock, RevertTx, UpdateBlockStatus, Goto
  <2> QED BY <1>0, <1>a, <2>1 DEF LedgerInv, WalkSpan
<1>9. CASE EnterReorg \/ LeaveReorg
  <2>1. /\ UNCHANGED <<blocks, missing, base>> /\ cursor'.num = cursor.num
        /\ CursorExists /\ CursorExists'
        /\ \/ pc = "revert" /\ pc' = "rollback" /\ safe' = safe
           \/ pc' = "idle"
    BY <1>9 DEF EnterReorg, RollbackState, LeaveReorg, SetState, UpdateState, Return, Goto,
       locals, CursorExists, IndexerInv, IndexerTypeOK, TypeOK, StorageTypeOK, CursorRow
  <2>2. \A m \in Height : Neighbours(m)' = Neighbours(m)
    BY <2>1 DEF Neighbours, OnLedger, InMissing, InRow
  <2> QED BY <1>0, <2>1, <2>2 DEF LedgerInv, RowsAboveBase, GapsAboveBase,
             WalkSpan, Stored
<1>10. CASE RollbackCursor
  <2>1. /\ UNCHANGED <<blocks, missing, base>> /\ cursor'.num = safe.num
        /\ CursorExists /\ CursorExists' /\ pc = "rollback" /\ pc' = "reset"
    BY <1>10 DEF RollbackCursor, RollbackBlock, UpdateBlock, Goto, CursorExists
  <2> QED BY <1>0, <2>1 DEF LedgerInv, RowsAboveBase, GapsAboveBase,
             WalkSpan, Stored
<1>11. CASE Commit \/ CommitUncertain
  <2>1. /\ pc = "commit" /\ target \in Height
        /\ Persist /\ base' = base /\ pc' = "idle"
    BY <1>0, <1>11 DEF Commit, CommitUncertain, HandleFailure, Return, Goto, PipelineLocals
  <2>2. /\ blocks' = [blocks EXCEPT ![target] = fetched]
        /\ cursor'.num = target /\ CursorExists' /\ UNCHANGED missing
    BY <2>1 DEF Persist, SaveBlock, UpdateBlock, CursorExists
  <2>3. CursorExists /\ base <= target /\ base < target
    BY <2>1, TargetOnLedger, LedgerTypes DEF Processing, Height
  <2>4. RowsAboveBase'
    BY <1>0, <2>1, <2>2, <2>3, LedgerTypes DEF RowsAboveBase, Stored
  <2> QED BY <1>0, <2>1, <2>2, <2>3, <2>4 DEF LedgerInv, GapsAboveBase, WalkSpan
<1> QED
  BY <1>1, <1>2, <1>3, <1>4, <1>5, <1>6, <1>7, <1>8, <1>9, <1>10, <1>11
  DEF PipelineMoves, PipelineStep, PipelineFault, ReadCursor, KeepPace, JumpFails,
      FetchBlock, NoNewBlock, CheckParent, ReorgTooDeep, StepFails, RollbackFails, EmitEvents,
      EmitFails, HandleFailure, Return, Goto, dbVars

(* The backfill keeps LedgerInv: it adds rows to table blocks only inside   *)
(* gaps, which lie above the start, and it moves neither gaps nor cursor.   *)
LEMMA BackfillLedger ==
  ASSUME IndexerInv, LedgerInv, BackfillMoves \/ BackfillFails
  PROVE  LedgerInv'
<1>0. RowsAboveBase /\ GapsAboveBase /\ WalkSpan
  BY DEF LedgerInv
<1>1. UNCHANGED <<cursor, base, pc, target, head, safe>>
  BY DEF BackfillMoves, BackfillFails, pipelineVars, locals, BackfillStep, BackfillFault,
     GetNext, MarkProcessing, FetchMissing, SaveMissing, SaveMissingTxs, MarkCompleted,
     ProcessOneFails, SkipMissingTxs, dbVars
<1>2. /\ DOMAIN missing' = DOMAIN missing
      /\ \A i \in DOMAIN missing :
           missing'[i].from = missing[i].from /\ missing'[i].to = missing[i].to
  BY BackfillCoverage
<1>3. GapsAboveBase'
  BY <1>0, <1>1, <1>2 DEF GapsAboveBase, CursorExists
<1>4. \A m \in Height : Neighbours(m)' = Neighbours(m)
  BY <1>1, <1>2 DEF Neighbours, OnLedger, InMissing, InRow, CursorExists
<1>5. \A n \in Height : InMissing(n) => CursorExists /\ base < n
  BY GapAboveBase
<1>6. RowsAboveBase'
  <2>1. ASSUME NEW n \in Height, Stored(n)' PROVE CursorExists /\ base < n
    BY <1>0, <1>5, <2>1, BackfillCoverage DEF RowsAboveBase, Stored
  <2> QED BY <1>0, <1>1, <2>1 DEF RowsAboveBase, CursorExists
<1>7. WalkSpan'
  <2>1. pc = "walk" => Stored(safe.num)'
    <3>1. ASSUME NEW n \in Height, n = safe.num, Stored(n) PROVE Stored(n)'
      BY <3>1, BackfillCoverage
    <3> QED BY <1>0, <1>1, <3>1, LedgerTypes DEF WalkSpan, Stored
  <2> QED BY <1>0, <1>1, <1>4, <2>1 DEF WalkSpan
<1> QED BY <1>3, <1>6, <1>7 DEF LedgerInv

(* LedgerInv holds at the start, with empty tables.                         *)
LEMMA LedgerInvInit == Init => LedgerInv
BY DEF Init, StorageInit, PipelineInit, LedgerInv, RowsAboveBase, GapsAboveBase,
   WalkSpan, Stored, NoCursor, CursorExists

(* Every step keeps LedgerInv.                                              *)
LEMMA LedgerInvNext == IndexerInv /\ LedgerInv /\ [Next]_vars => LedgerInv'
<1> SUFFICES ASSUME IndexerInv, LedgerInv, [Next]_vars PROVE LedgerInv'
  OBVIOUS
<1>1. CASE PipelineMoves
  BY <1>1, PipelineLedger
<1>2. CASE BackfillMoves \/ BackfillFails
  BY <1>2, BackfillLedger
<1>3. CASE ProcessCrash \/ ProcessRestart
  BY <1>3 DEF ProcessCrash, Crash, ProcessRestart, Restart, Goto, dbVars, LedgerInv,
     RowsAboveBase, GapsAboveBase, WalkSpan, Stored, CursorExists
<1>4. CASE NodeMoves \/ UNCHANGED vars
  <2>1. UNCHANGED <<dbVars, pc, locals, base>>
    BY <1>4 DEF NodeMoves, vars, pipelineWorld, pipelineVars
  <2> QED BY <2>1 DEF dbVars, locals, LedgerInv, RowsAboveBase, GapsAboveBase,
             WalkSpan, Neighbours, OnLedger, InMissing, InRow, Stored, CursorExists
<1> QED BY <1>1, <1>2, <1>3, <1>4 DEF Next

-----------------------------------------------------------------------------
(* The refinement *)

(* The empty tables are the unopened ledger.                                *)
LEMMA BooksInit == Init => Books!Init
BY DEF Init, StorageInit, NoCursor, CursorExists, OnLedger, InMissing, bookNext, bookEntries,
   bookGaps, Books!Init

(* A step that leaves cursor position, gaps and ledger rows alone does not  *)
(* show.                                                                    *)
LEMMA BooksStutter ==
  ASSUME cursor'.num = cursor.num, CursorExists' = CursorExists, base' = base,
         \A n \in Height : InMissing(n)' = InMissing(n),
         \A n \in Height : ~InMissing(n) => blocks'[n] = blocks[n]
  PROVE  UNCHANGED <<bookNext, bookEntries, bookGaps>>
BY DEF bookNext, bookEntries, bookGaps, OnLedger

(* A step of the pipeline is a step of the ledger or does not show.         *)
LEMMA PipelineBooks ==
  ASSUME IndexerInv, LedgerInv, PipelineMoves
  PROVE  Books!Next \/ UNCHANGED <<bookNext, bookEntries, bookGaps>>
<1>0. /\ RowsAboveBase /\ GapsAboveBase /\ WalkSpan
      /\ TargetNext /\ PipelineLocals /\ GapRecorded /\ ParentChecked
  BY DEF LedgerInv, IndexerInv
<1>1. CASE UNCHANGED <<blocks, missing, cursor, base>>
  BY <1>1, BooksStutter DEF InMissing, InRow, CursorExists
<1>2. CASE InitCursor
  <2>1. StartBlock \in Height
    BY LedgerTypes, PipelineAssumption, ChainAssumption DEF StartBlock, Height
  <2>2. ~CursorExists /\ CursorExists' /\ cursor'.num = StartBlock /\ base' = StartBlock
        /\ UNCHANGED <<blocks, missing>>
    BY <1>2 DEF InitCursor, Initialize, CursorExists
  <2>3. bookNext = 0 /\ bookNext' = StartBlock + 1
    BY <2>2 DEF bookNext
  <2>4. bookEntries' = bookEntries
    BY <2>1, <2>2 DEF bookEntries, OnLedger, Height
  <2>5. bookGaps' = bookGaps
    BY <2>2 DEF bookGaps, InMissing, InRow
  <2>6. Books!Open(StartBlock)
    BY <2>3, <2>4, <2>5 DEF Books!Open
  <2> QED BY <2>1, <2>6 DEF Books!Next
<1>3. CASE \E l \in Height : RecordGap(l)
  <2>1. PICK l \in Height : RecordGap(l)
    BY <1>3
  <2>2. target \in Height
    BY <2>1, LedgerTypes, PipelineAssumption, ChainAssumption DEF RecordGap, LagsBehind, Height
  <2>3. /\ DOMAIN missing' = DOMAIN missing \cup {Len(missing) + 1}
        /\ \A j \in DOMAIN missing : missing'[j] = missing[j]
        /\ missing'[Len(missing) + 1] = [from |-> target, to |-> l, status |-> "pending"]
    BY <2>1, <2>2, LedgerTypes, AddMissingFacts DEF RecordGap
  <2>4. UNCHANGED <<blocks, cursor, base>> /\ CursorExists /\ target = cursor.num + 1
    BY <1>0, <2>1 DEF RecordGap, Goto, TargetNext
  <2>5. \A n \in Height : InMissing(n)' <=> InMissing(n) \/ n \in target .. l
    BY <2>3 DEF InMissing, InRow
  <2>6. bookNext = target /\ bookNext' = bookNext
    BY <2>4 DEF bookNext, CursorExists
  <2>7. bookEntries' = bookEntries
    <3>1. ASSUME NEW n \in Height PROVE OnLedger(n)' = OnLedger(n)
      BY <2>2, <2>4, <2>5, LedgerTypes DEF OnLedger, CursorExists, Height
    <3> QED BY <2>4, <3>1 DEF bookEntries
  <2>8. bookGaps' = bookGaps \cup (target .. l)
    BY <2>2, <2>5, ChainAssumption DEF bookGaps, Height
  <2>9. target > 0 /\ \A n \in target .. l : n >= target
    BY <2>2, <2>4, LedgerTypes DEF Height
  <2>10. Books!Note(target .. l)
    BY <2>6, <2>7, <2>8, <2>9 DEF Books!Note
  <2> QED BY <2>2, <2>10 DEF Books!Next
<1>4. CASE JumpCursor \/ JumpUncertain
  <2>1. /\ UNCHANGED <<blocks, missing, base>> /\ CursorExists /\ CursorExists'
        /\ cursor'.num = head /\ target = cursor.num + 1 /\ target <= head
        /\ \A n \in target .. head : InMissing(n)
    BY <1>0, <1>4 DEF JumpCursor, JumpUncertain, Jump, UpdateBlock, Return, Goto,
       CursorExists, TargetNext, GapRecorded
  <2>2. bookNext = target /\ bookNext' = head + 1
    BY <2>1 DEF bookNext
  <2>3. bookGaps' = bookGaps /\ \A n \in Height : InMissing(n)' = InMissing(n)
    BY <2>1 DEF bookGaps, InMissing, InRow
  <2>4. bookEntries' = bookEntries
    <3>1. ASSUME NEW n \in Height PROVE OnLedger(n)' = OnLedger(n)
      BY <2>1, <2>3, LedgerTypes DEF OnLedger, Height
    <3> QED BY <2>1, <3>1 DEF bookEntries
  <2>5. target > 0 /\ \A m \in target .. head : m \in bookGaps
    BY <2>1, LedgerTypes, ChainAssumption DEF bookGaps, Height
  <2>6. Books!Skip(head)
    BY <2>1, <2>2, <2>3, <2>4, <2>5, LedgerTypes DEF Books!Skip, Height
  <2> QED BY <2>6, LedgerTypes DEF Books!Next
<1>5. CASE EnterReorg \/ LeaveReorg
  <2>1. /\ UNCHANGED <<blocks, missing, base>> /\ cursor'.num = cursor.num
        /\ CursorExists /\ CursorExists'
    BY <1>5 DEF EnterReorg, RollbackState, LeaveReorg, SetState, UpdateState, Return, Goto,
       CursorExists, IndexerInv, IndexerTypeOK, TypeOK, StorageTypeOK, CursorRow
  <2> QED BY <2>1, BooksStutter DEF InMissing, InRow
<1>6. CASE RollbackCursor
  <2>1. /\ UNCHANGED <<blocks, missing, base>> /\ cursor'.num = safe.num
        /\ CursorExists /\ CursorExists' /\ safe.num < cursor.num
        /\ \A m \in Height : safe.num < m => ~Neighbours(m)
    BY <1>0, <1>6 DEF RollbackCursor, RollbackBlock, UpdateBlock, Goto, CursorExists, WalkSpan
  <2>2. bookNext = cursor.num + 1 /\ bookNext' = safe.num + 1
    BY <2>1 DEF bookNext
  <2>3. bookGaps' = bookGaps /\ \A n \in Height : InMissing(n)' = InMissing(n)
    BY <2>1 DEF bookGaps, InMissing, InRow
  <2>4. bookEntries' = [m \in Height |-> IF m <= safe.num THEN bookEntries[m] ELSE NoHash]
    <3>1. ASSUME NEW m \in Height PROVE OnLedger(m)' <=> OnLedger(m) /\ m <= safe.num
      BY <2>1, <2>3, LedgerTypes DEF OnLedger, Height
    <3> QED BY <2>1, <3>1 DEF bookEntries
  <2>5. ASSUME NEW m \in safe.num + 1 .. cursor.num
        PROVE  ~(Books!Booked(m) /\ Books!Booked(m + 1))
    <3>1. m \in Height /\ safe.num < m
      BY <2>5, LedgerTypes, ChainAssumption DEF Height
    <3>2. ~Neighbours(m)
      BY <2>1, <3>1
    <3> QED BY <3>1, <3>2 DEF Books!Booked, bookEntries, Neighbours
  <2>6. Books!Cut(safe.num)
    BY <2>1, <2>2, <2>3, <2>4, <2>5, LedgerTypes DEF Books!Cut, Height
  <2> QED BY <2>6, LedgerTypes DEF Books!Next
<1>7. CASE Commit \/ CommitUncertain
  <2>1. /\ pc = "commit" /\ target \in Height /\ fetched \in Hash
        /\ Persist /\ base' = base
    BY <1>0, <1>7 DEF Commit, CommitUncertain, HandleFailure, Return, Goto, PipelineLocals
  <2>2. /\ blocks' = [blocks EXCEPT ![target] = fetched]
        /\ cursor'.num = target /\ CursorExists' /\ UNCHANGED missing
    BY <2>1 DEF Persist, SaveBlock, UpdateBlock, CursorExists
  <2>3. /\ CursorExists /\ base < target /\ target <= cursor.num + 1
        /\ \A n \in Height : target <= n => ~OnLedger(n)
    BY <2>1, TargetOnLedger DEF Processing
  <2>4. bookGaps' = bookGaps /\ \A n \in Height : InMissing(n)' = InMissing(n)
    BY <2>2 DEF bookGaps, InMissing, InRow
  <2>5. bookNext = cursor.num + 1 /\ bookNext' = target + 1 /\ target > 0
    BY <2>1, <2>2, <2>3, LedgerTypes DEF bookNext, Height
  <2>6. ASSUME NEW n \in Height PROVE OnLedger(n)' <=> OnLedger(n) \/ (n = target /\ ~InMissing(n))
    BY <2>1, <2>2, <2>3, <2>4, <2>6, LedgerTypes DEF OnLedger, Height
  <2>7. \A n \in Height : n # target => blocks'[n] = blocks[n]
    BY <2>2, LedgerTypes
  <2>8. CASE InMissing(target)
    <3>1. bookEntries' = bookEntries
      <4>1. ASSUME NEW n \in Height
            PROVE  OnLedger(n)' = OnLedger(n) /\ (OnLedger(n) => blocks'[n] = blocks[n])
        BY <2>3, <2>6, <2>7, <2>8 DEF OnLedger
      <4> QED BY <4>1 DEF bookEntries
    <3>2. CASE target = cursor.num + 1
      <4>1. \A m \in target .. target : m \in bookGaps
        BY <2>1, <2>8, LedgerTypes DEF bookGaps
      <4>2. Books!Skip(target)
        BY <2>1, <2>4, <2>5, <3>1, <3>2, <4>1 DEF Books!Skip, Height
      <4> QED BY <2>1, <4>2 DEF Books!Next
    <3>3. CASE target = cursor.num
      BY <2>4, <2>5, <3>1, <3>3
    <3>4. CASE target < cursor.num
      <4>1. \A m \in Height : m > target => bookEntries[m] = NoHash
        BY <2>1, <2>3, LedgerTypes DEF bookEntries, Height
      <4>2. bookEntries' = [m \in Height |-> IF m <= target THEN bookEntries[m] ELSE NoHash]
        <5>1. bookEntries = [m \in Height |-> IF OnLedger(m) THEN blocks[m] ELSE NoHash]
          BY DEF bookEntries
        <5>2. \A m \in Height : m <= target \/ m > target
          BY <2>1, LedgerTypes DEF Height
        <5> QED BY <3>1, <4>1, <5>1, <5>2
      <4>3. \A m \in target + 1 .. bookNext - 1 : ~(Books!Booked(m) /\ Books!Booked(m + 1))
        BY <2>1, <2>5, <4>1, LedgerTypes, ChainAssumption DEF Books!Booked, Height
      <4>4. Books!Cut(target)
        BY <2>1, <2>4, <2>5, <3>4, <4>2, <4>3, LedgerTypes DEF Books!Cut, Height
      <4> QED BY <2>1, <4>4 DEF Books!Next
    <3> QED BY <2>1, <2>3, <3>2, <3>3, <3>4, LedgerTypes DEF Height
  <2>9. CASE ~InMissing(target)
    <3>1. target = cursor.num + 1
      BY <1>0, <2>1, <2>3, <2>9, LedgerTypes DEF TargetNext, Processing, Height
    <3>2. target \in Height \ bookGaps
      BY <2>1, <2>9 DEF bookGaps
    <3>3. bookEntries' = [bookEntries EXCEPT ![target] = fetched]
      BY <2>1, <2>2, <2>3, <2>6, <2>7, <2>9, LedgerTypes DEF bookEntries
    <3>4. Books!Booked(target - 1) => Parent[fetched] = bookEntries[target - 1]
      BY <1>0, <2>1 DEF Books!Booked, bookEntries, OnLedger, ParentChecked, Stored
    <3>5. Books!Grow(fetched)
      BY <2>4, <2>5, <3>1, <3>2, <3>3, <3>4 DEF Books!Grow
    <3> QED BY <2>1, <3>5 DEF Books!Next
  <2> QED BY <2>8, <2>9
<1> QED
  BY <1>1, <1>2, <1>3, <1>4, <1>5, <1>6, <1>7
  DEF PipelineMoves, PipelineStep, PipelineFault, ReadCursor, KeepPace, JumpFails,
      FetchBlock, NoNewBlock, CheckParent, DetectReorg, FoundSafePoint, WalkBack,
      ReorgTooDeep, StepFails, OrphanBlock, UpdateBlockStatus, RevertTx, RollbackFails,
      EmitEvents, EmitFails, HandleFailure, Return, Goto, dbVars

(* Nothing else shows: neither the rows that the backfill writes nor a      *)
(* crash, a restart or a new view of the node.                              *)
LEMMA OthersBooks ==
  ASSUME IndexerInv, [Next]_vars, ~PipelineMoves
  PROVE  UNCHANGED <<bookNext, bookEntries, bookGaps>>
<1>1. CASE BackfillMoves \/ BackfillFails
  <2>1. UNCHANGED <<cursor, base>>
    BY <1>1 DEF BackfillMoves, BackfillFails, pipelineVars, BackfillStep, BackfillFault,
       GetNext, MarkProcessing, FetchMissing, SaveMissing, SaveMissingTxs, MarkCompleted,
       ProcessOneFails, SkipMissingTxs, dbVars
  <2>2. /\ DOMAIN missing' = DOMAIN missing
        /\ \A i \in DOMAIN missing :
             missing'[i].from = missing[i].from /\ missing'[i].to = missing[i].to
        /\ \A n \in Height : ~InMissing(n) => blocks'[n] = blocks[n]
    BY <1>1, BackfillCoverage
  <2>3. \A n \in Height : InMissing(n)' = InMissing(n)
    BY <2>2 DEF InMissing, InRow
  <2> QED BY <2>1, <2>2, <2>3, BooksStutter DEF CursorExists
<1>2. CASE ProcessCrash \/ ProcessRestart \/ NodeMoves \/ UNCHANGED vars
  <2>1. UNCHANGED <<dbVars, base>>
    BY <1>2 DEF ProcessCrash, Crash, ProcessRestart, Restart, Goto, NodeMoves, vars,
       pipelineWorld, pipelineVars
  <2> QED BY <2>1, BooksStutter DEF dbVars, InMissing, InRow, CursorExists
<1> QED BY <1>1, <1>2 DEF Next

-----------------------------------------------------------------------------
(* The theorems *)

(* Where the walk of findSafePoint leads: every rollback moves the cursor   *)
(* back, not below the start, and over linked neighbours at most once.      *)
THEOREM LedgerInvariance == Spec => []LedgerInv
BY LedgerInvInit, LedgerInvNext, Invariance, PTL DEF Spec

(* The tables are a ledger: a commit adds a child of the last block or      *)
(* moves into a recorded gap, jumpToHead skips only what it has recorded,   *)
(* a rollback takes one block off (across a gap, no two that follow each    *)
(* other), and the backfill, failing calls, crashes and the node do not     *)
(* show.                                                                    *)
THEOREM TablesAreALedger == Spec => ImplementsLedger
<1>1. IndexerInv /\ LedgerInv /\ [Next]_vars =>
        [Books!Next]_<<bookNext, bookEntries, bookGaps>>
  BY PipelineBooks, OthersBooks
<1> QED BY <1>1, BooksInit, Invariance, LedgerInvariance, PTL
        DEF Spec, ImplementsLedger, Books!Spec, Books!ledger

=============================================================================
