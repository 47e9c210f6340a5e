--------------------------- MODULE FinalityProofs ---------------------------
(***************************************************************************)
(* As long as the process lives, no event is lost between the unit of work *)
(* and the finality buffer: the events of every block that the pipeline    *)
(* has committed are in the buffer or have gone out, for every number of   *)
(* confirmations, whatever reorgs and failing emissions come in between.   *)
(* The inductive invariant is EventsInv, next to IndexerInv.               *)
(***************************************************************************)
EXTENDS IndexerProofs

(* EmitBatch and OnNewBlock, failing or not, take events out of the buffer  *)
(* only to the emitter.                                                     *)
LEMMA EmitBlockKeeps ==
  ASSUME FinalityTypeOK, NEW n \in Height, NEW h \in Hash, NEW done,
         EmitBlock(n, h, done)
  PROVE  \A m \in Height : emitted \cup pending[m] \subseteq emitted' \cup pending'[m]
<1> DEFINE buffer == Queued(n, h)
<1>1. /\ buffer \in [Height -> SUBSET Hash]
      /\ \A m \in Height : pending[m] \subseteq buffer[m]
  BY DEF FinalityTypeOK, Queued
<1>2. /\ \A m \in Height : pending'[m] = IF m \in done THEN {} ELSE buffer[m]
      /\ emitted \subseteq emitted'
      /\ \A m \in done : buffer[m] \subseteq emitted'
  BY DEF EmitBlock
<1> QED BY <1>1, <1>2

(* The events of the block itself are queued, or emitted at once where no   *)
(* confirmation is asked for.                                               *)
LEMMA EmitBlockQueues ==
  ASSUME FinalityTypeOK, NEW n \in Height, NEW h \in Hash, NEW done,
         EmitBlock(n, h, done), TxsOf[h] # {}
  PROVE  h \in emitted' \cup pending'[n]
<1> DEFINE buffer == Queued(n, h)
<1>1. CASE Confirmations = 0
  BY <1>1 DEF EmitBlock, EmittedAtOnce
<1>2. CASE Confirmations > 0
  <2>1. h \in buffer[n]
    BY <1>2 DEF FinalityTypeOK, Queued
  <2>2. pending'[n] = IF n \in done THEN {} ELSE buffer[n]
    BY DEF EmitBlock
  <2>3. n \in done => buffer[n] \subseteq emitted'
    BY DEF EmitBlock
  <2> QED BY <2>1, <2>2, <2>3
<1> QED BY <1>1, <1>2, ConfirmationsAssumption

(* Nothing lies above a number and not above it.                            *)
LEMMA EmptyAbove == \A b \in Nat : b + 1 .. b = {}
OBVIOUS

(* A step that neither loses an event nor moves the cursor over a block     *)
(* outside the gaps keeps EventsKept.                                       *)
LEMMA EventsStay ==
  ASSUME IndexerInv, EventsKept, base' = base, crashes' = crashes,
         cursor'.num \in Height,
         \A n \in Height : InMissing(n) => InMissing(n)',
         \A n \in Height : ~InMissing(n) => blocks'[n] = blocks[n],
         \A n \in Height : emitted \cup pending[n] \subseteq emitted' \cup pending'[n],
         CursorExists' => CursorExists,
         \A n \in Height : cursor.num < n /\ n <= cursor'.num => InMissing(n)
  PROVE  EventsKept'
<1>0. base \in Height /\ cursor.num \in Height /\ blocks \in [Height -> Hash \cup {NoHash}]
  BY DEF IndexerInv, IndexerTypeOK, TypeOK, StorageTypeOK, PipelineTypeOK, CursorRow
<1>1. ASSUME CursorExists', crashes' = 0, NEW n \in base + 1 .. cursor'.num,
             Stored(n)', ~InMissing(n)', TxsOf[blocks'[n]] # {}
      PROVE  blocks'[n] \in emitted' \cup pending'[n]
  <2>1. n \in Height /\ base < n
    BY <1>0, <1>1, ChainAssumption DEF Height
  <2>2. ~InMissing(n) /\ blocks'[n] = blocks[n] /\ Stored(n)
    BY <1>1, <2>1 DEF Stored
  <2>3. n \in base + 1 .. cursor.num
    BY <1>0, <1>1, <2>1, <2>2 DEF Height
  <2>4. blocks[n] \in emitted \cup pending[n]
    BY <1>1, <2>2, <2>3 DEF EventsKept
  <2> QED BY <2>1, <2>2, <2>4
<1> QED BY <1>1 DEF EventsKept

(* A step of the pipeline keeps EventsInv.                                  *)
LEMMA PipelineEvents ==
  ASSUME IndexerInv, IndexerInv', EventsInv, PipelineMoves
  PROVE  EventsInv'
<1> USE DEF IndexerInv, IndexerTypeOK, TypeOK
<1>0. /\ base \in Height /\ cursor.num \in Height /\ cursor'.num \in Height
      /\ blocks \in [Height -> Hash \cup {NoHash}] /\ FinalityTypeOK /\ EventsKept
      /\ \A n \in Height : InMissing(n) => InMissing(n)'
  BY PipelineOnlyAdds, CoverageKept DEF StorageTypeOK, PipelineTypeOK, CursorRow, EventsInv
<1>a. ASSUME UNCHANGED finalityVars
      PROVE  \A n \in Height : emitted \cup pending[n] \subseteq emitted' \cup pending'[n]
  BY <1>a DEF finalityVars
<1>1. CASE /\ UNCHANGED <<blocks, cursor, base, crashes, finalityVars>>
           /\ pc' # "commit"
  <2>1. EventsKept'
    BY <1>0, <1>1, <1>a, EventsStay DEF CursorExists, Height
  <2> QED BY <1>1, <2>1 DEF EventsInv, EventsQueued
<1>2. CASE InitCursor
  <2>1. /\ cursor'.num = base' /\ base' \in Nat /\ pc' = "lag"
    BY <1>0, <1>2 DEF InitCursor, Initialize, Height
  <2>2. base' + 1 .. cursor'.num = {}
    BY <2>1, EmptyAbove
  <2>3. EventsKept'
    BY <2>2 DEF EventsKept
  <2> QED BY <2>1, <2>3 DEF EventsInv, EventsQueued
<1>3. CASE JumpCursor \/ JumpUncertain
  <2>1. /\ CursorExists /\ target = cursor.num + 1 /\ cursor'.num = head
        /\ UNCHANGED <<blocks, base, crashes, finalityVars>> /\ pc' # "commit"
        /\ \A n \in target .. head : InMissing(n)
    BY <1>3 DEF JumpCursor, JumpUncertain, Jump, UpdateBlock, Return, Goto, TargetNext,
       GapRecorded
  <2>2. \A n \in Height : cursor.num < n /\ n <= cursor'.num => InMissing(n)
    BY <1>0, <2>1 DEF Height
  <2>3. EventsKept'
    BY <1>0, <1>a, <2>1, <2>2, EventsStay
  <2> QED BY <2>1, <2>3 DEF EventsInv, EventsQueued
<1>4. CASE EnterReorg \/ LeaveReorg \/ RollbackCursor
  <2>1. CursorExists /\ cursor'.num <= cursor.num
    <3>1. CASE EnterReorg \/ LeaveReorg
      BY <1>0, <3>1 DEF EnterReorg, RollbackState, LeaveReorg, SetState, UpdateState,
         StorageTypeOK, CursorRow, Height
    <3>2. CASE RollbackCursor
      <4>1. CursorExists /\ cursor'.num = safe.num /\ safe.num < target
            /\ target <= cursor.num + 1
        BY <3>2 DEF RollbackCursor, RollbackBlock, UpdateBlock, TargetNext, Processing,
           PipelineLocals
      <4>2. safe.num \in Nat /\ target \in Nat
        BY DEF PipelineTypeOK, Height
      <4> QED BY <1>0, <4>1, <4>2 DEF Height
    <3> QED BY <1>4, <3>1, <3>2
  <2>2. UNCHANGED <<blocks, base, crashes, finalityVars>> /\ pc' # "commit"
    BY <1>4 DEF EnterReorg, LeaveReorg, RollbackCursor, Return, Goto
  <2>3. EventsKept'
    BY <1>0, <1>a, <2>1, <2>2, EventsStay DEF Height
  <2> QED BY <2>2, <2>3 DEF EventsInv, EventsQueued
<1>5. CASE EmitEvents \/ \E done \in SUBSET Height : EmitFails(done)
  <2>1. PICK done : EmitBlock(target, fetched, done)
    BY <1>5 DEF EmitEvents, EmitFails
  <2>2. /\ target \in Height /\ fetched \in Hash
        /\ UNCHANGED <<blocks, cursor, base, crashes, target, fetched>>
    BY <1>5 DEF EmitEvents, EmitFails, Goto, locals, dbVars, PipelineLocals
  <2>3. \A n \in Height : emitted \cup pending[n] \subseteq emitted' \cup pending'[n]
    BY <1>0, <2>1, <2>2, EmitBlockKeeps
  <2>4. EventsKept'
    BY <1>0, <2>2, <2>3, EventsStay DEF CursorExists, Height
  <2>5. EventsQueued'
    BY <1>0, <2>1, <2>2, EmitBlockQueues DEF EventsQueued
  <2> QED BY <2>4, <2>5 DEF EventsInv
<1>6. CASE Commit \/ CommitUncertain
  <2>1. /\ CursorExists /\ target <= cursor.num + 1 /\ pc = "commit"
        /\ target \in Height /\ fetched \in Hash /\ Persist
        /\ UNCHANGED <<base, crashes, finalityVars>> /\ pc' = "idle"
    BY <1>6 DEF Commit, CommitUncertain, HandleFailure, Return, Goto, TargetNext, Processing,
       PipelineLocals
  <2>2. /\ blocks' = [blocks EXCEPT ![target] = fetched]
        /\ cursor'.num = target /\ UNCHANGED missing
    BY <2>1 DEF Persist, SaveBlock, UpdateBlock
  <2>3. ASSUME crashes = 0, NEW n \in base + 1 .. target,
               Stored(n)', ~InMissing(n)', TxsOf[blocks'[n]] # {}
        PROVE  blocks'[n] \in emitted' \cup pending'[n]
    <3>1. n \in Height
      BY <1>0, <2>1, ChainAssumption DEF Height
    <3>2. CASE n = target
      BY <1>0, <2>1, <2>2, <2>3, <3>2 DEF EventsInv, EventsQueued, finalityVars
    <3>3. CASE n # target
      <4>1. n \in base + 1 .. cursor.num /\ blocks'[n] = blocks[n]
        BY <1>0, <2>1, <2>2, <3>1, <3>3 DEF Height
      <4>2. Stored(n) /\ ~InMissing(n)
        BY <1>0, <2>3, <3>1, <4>1 DEF Stored
      <4> QED BY <1>0, <2>1, <2>3, <4>1, <4>2 DEF EventsKept, finalityVars
    <3> QED BY <3>2, <3>3
  <2>4. EventsKept'
    BY <2>1, <2>2, <2>3 DEF EventsKept
  <2> QED BY <2>1, <2>4 DEF EventsInv, EventsQueued
<1> QED
  BY <1>1, <1>2, <1>3, <1>4, <1>5, <1>6
  DEF PipelineMoves, PipelineStep, PipelineFault, ReadCursor, KeepPace, RecordGap, JumpFails,
      FetchBlock, NoNewBlock, CheckParent, DetectReorg, FoundSafePoint, WalkBack,
      ReorgTooDeep, StepFails, OrphanBlock, UpdateBlockStatus, RevertTx, RollbackFails,
      HandleFailure, Return, Goto, dbVars

(* EventsInv holds at the start.                                            *)
LEMMA EventsInit == Init => EventsInv
BY DEF Init, StorageInit, PipelineInit, EventsInv, EventsQueued, EventsKept, NoCursor,
   CursorExists

(* Every step keeps EventsInv: the backfill writes only inside recorded     *)
(* gaps, and a crash is excluded by the property itself.                    *)
LEMMA EventsNext == IndexerInv /\ EventsInv /\ [Next]_vars => EventsInv'
<1> SUFFICES ASSUME IndexerInv, EventsInv, [Next]_vars PROVE EventsInv'
  OBVIOUS
<1>0. IndexerInv' /\ cursor.num \in Height /\ cursor'.num \in Height
  BY NextInv DEF IndexerInv, IndexerTypeOK, TypeOK, StorageTypeOK, CursorRow
<1>1. CASE PipelineMoves
  BY <1>0, <1>1, PipelineEvents
<1>2. CASE BackfillMoves \/ BackfillFails
  <2>1. UNCHANGED <<cursor, base, crashes, pc, target, fetched, finalityVars>>
    BY <1>2 DEF BackfillMoves, BackfillFails, pipelineVars, locals, BackfillStep, BackfillFault,
       GetNext, MarkProcessing, FetchMissing, SaveMissing, SaveMissingTxs, MarkCompleted,
       ProcessOneFails, SkipMissingTxs, dbVars
  <2>2. EventsKept'
    BY <1>0, <1>2, <2>1, BackfillCoverage, EventsStay
    DEF EventsInv, CursorExists, finalityVars, Height
  <2> QED BY <2>1, <2>2 DEF EventsInv, EventsQueued, finalityVars
<1>3. CASE ProcessCrash
  <2>1. crashes \in Nat /\ crashes' = crashes + 1
    BY <1>3 DEF ProcessCrash, Crash, IndexerInv, IndexerTypeOK, TypeOK, PipelineTypeOK
  <2> QED BY <2>1 DEF EventsInv, EventsQueued, EventsKept
<1>4. CASE ProcessRestart \/ NodeMoves \/ UNCHANGED vars
  <2>1. /\ UNCHANGED <<dbVars, base, crashes, target, fetched, finalityVars>>
        /\ pc' = "commit" => pc = "commit"
    BY <1>4 DEF ProcessRestart, Restart, Goto, NodeMoves, vars, pipelineWorld, pipelineVars,
       locals
  <2> QED BY <2>1 DEF dbVars, finalityVars, EventsInv, EventsQueued, EventsKept, CursorExists,
             Stored, InMissing, InRow
<1> QED BY <1>1, <1>2, <1>3, <1>4 DEF Next

(* As long as the process lives, the events of every block that the         *)
(* pipeline committed are in the finality buffer or have gone out.          *)
THEOREM EventsAreKept == Spec => []EventsKept
<1>1. EventsInv => EventsKept
  BY DEF EventsInv
<1> QED BY <1>1, EventsInit, EventsNext, Invariance, PTL DEF Spec

=============================================================================
