------------------------------ MODULE Backfill ------------------------------
(***************************************************************************)
(* The backfill goroutine of one chain: Processor.ProcessOne               *)
(* (internal/indexing/backfill) with the fetcher that NewWatcher gives it  *)
(* (internal/control/watcher.go).  It works through the missing_blocks     *)
(* rows that jumpToHead wrote, next to the pipeline and without a lock.    *)
(* The rate limit and the quota check only delay it.                       *)
(***************************************************************************)
EXTENDS Storage

CONSTANT AdapterStatus   \* the Status that the adapter's GetBlock sets

ASSUME AdapterAssumption == AdapterStatus \in {"pending", "processed"}

VARIABLES
  bfPc,     \* the next call of the goroutine
  bfRow,    \* the missing_blocks row it works on, 0 if none
  bfNum,    \* blockNum
  bfHash    \* the hash of the block it fetched

bfVars == <<bfPc, bfRow, bfNum, bfHash>>

BackfillInit == bfPc = "next" /\ bfRow = 0 /\ bfNum = 0 /\ bfHash = NoHash

(* ProcessOne returns; Run calls it again.                                  *)
ProcessOneReturns ==
  bfPc' = "next" /\ bfRow' = 0 /\ bfNum' = 0 /\ bfHash' = NoHash

InRange == bfNum <= missing[bfRow].to

GetNext(i) ==
  /\ bfPc = "next" /\ IsNextMissing(i)
  /\ bfPc' = "mark" /\ bfRow' = i /\ bfNum' = missing[i].from
  /\ UNCHANGED <<bfHash, dbVars>>

MarkProcessing ==
  /\ bfPc = "mark"
  /\ MarkMissing(bfRow, "processing")
  /\ bfPc' = "fetch"
  /\ UNCHANGED <<bfRow, bfNum, bfHash, blocks, status, txs, cursor, failed>>

(* The fetcher: GetBlock, then BlockRepo.Save, then the transactions.       *)
FetchMissing ==
  /\ bfPc = "fetch" /\ InRange /\ bfNum <= Latest
  /\ bfHash' = BlockAt(bfNum)
  /\ bfPc' = "save"
  /\ UNCHANGED <<bfRow, bfNum, dbVars>>

SaveMissing ==
  /\ bfPc = "save"
  /\ SaveBlock(bfNum, bfHash, AdapterStatus)
  /\ bfPc' = "txs"
  /\ UNCHANGED <<bfRow, bfNum, bfHash, txs, cursor, missing, failed>>

(* Mutant: the loop over the range forgets to move on.                      *)
NextMissingStays == bfPc' = "fetch" /\ UNCHANGED <<bfRow, bfNum, bfHash>>

NextMissing == bfPc' = "fetch" /\ bfNum' = bfNum + 1 /\ UNCHANGED <<bfRow, bfHash>>

SaveMissingTxs ==
  /\ bfPc = "txs"
  /\ SaveTransactions(bfNum, bfHash, TxsOf[bfHash])
  /\ NextMissing
  /\ UNCHANGED <<blocks, status, cursor, missing, failed>>

(* Fetching, filtering or saving the transactions fails: a warning, and the *)
(* block counts as filled.                                                  *)
SkipMissingTxs ==
  /\ bfPc = "txs" /\ TxsOf[bfHash] # {}
  /\ NextMissing
  /\ UNCHANGED dbVars

MarkCompleted ==
  /\ bfPc = "fetch" /\ ~InRange
  /\ MarkMissing(bfRow, "completed")
  /\ ProcessOneReturns
  /\ UNCHANGED <<blocks, status, txs, cursor, failed>>

(* GetBlock fails or finds nothing, Save fails, or MarkCompleted does:      *)
(* ProcessOne returns the error and leaves the row in 'processing'.         *)
ProcessOneFails ==
  /\ bfPc \in {"fetch", "save"}
  /\ ProcessOneReturns
  /\ UNCHANGED dbVars

(* What the goroutine does when no call fails.                              *)
BackfillStep ==
  \/ \E i \in DOMAIN missing : GetNext(i)
  \/ MarkProcessing \/ FetchMissing \/ SaveMissing \/ SaveMissingTxs
  \/ MarkCompleted

BackfillFault == ProcessOneFails \/ SkipMissingTxs

BackfillTypeOK ==
  /\ bfPc \in {"next", "mark", "fetch", "save", "txs"}
  /\ bfRow \in Nat /\ bfNum \in Nat
  /\ bfHash \in Hash \cup {NoHash}

=============================================================================
