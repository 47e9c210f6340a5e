------------------------------ MODULE Storage ------------------------------
(***************************************************************************)
(* The PostgreSQL tables of one chain and the repository operations on     *)
(* them (internal/infra/storage/postgres and its query/*.sql).  Each       *)
(* operation is one SQL statement, so it is atomic; what happens between   *)
(* two of them is up to the callers.                                       *)
(***************************************************************************)
EXTENDS Chain

CONSTANTS MaxMissing   \* bound: rows of missing_blocks

VARIABLES
  blocks,    \* blocks[n]: block_hash of row n of table blocks, NoHash if none
  status,    \* status[n]: its status column, "none" if no row
  txs,       \* txs[t][n]: row (t, n) of table transactions
  cursor,    \* the row of table cursors
  missing,   \* table missing_blocks, in the order of the serial id
  failed     \* numbers with a pending row in table failed_blocks

dbVars == <<blocks, status, txs, cursor, missing, failed>>

BlockStatus == {"pending", "processed", "orphaned"}
TxRow == [hash : Hash \cup {NoHash}, status : {"none", "success", "invalid"}]
NoTxRow == [hash |-> NoHash, status |-> "none"]

CursorState == {"init", "scanning", "catchup", "backfill", "paused", "reorg"}
CursorRow ==
  [num : Height, hash : Hash \cup {NoHash}, state : CursorState \cup {"none"}]
NoCursor == [num |-> 0, hash |-> NoHash, state |-> "none"]   \* no row
CursorExists == cursor.state # "none"

MissingRow ==
  [from : Height, to : Height, status : {"pending", "processing", "completed"}]

StorageInit ==
  /\ blocks = [n \in Height |-> NoHash]
  /\ status = [n \in Height |-> "none"]
  /\ txs = [t \in Tx |-> [n \in Height |-> NoTxRow]]
  /\ cursor = NoCursor
  /\ missing = <<>>
  /\ failed = {}

-----------------------------------------------------------------------------
(* BlockRepo *)

Stored(n) == blocks[n] # NoHash

(* Save, SaveBlocks: insert, or overwrite the row of the same number.       *)
SaveBlock(n, h, s) ==
  /\ blocks' = [blocks EXCEPT ![n] = h]
  /\ status' = [status EXCEPT ![n] = s]

(* UpdateStatus: no effect where there is no row.                           *)
UpdateBlockStatus(n, s) ==
  /\ status' = IF Stored(n) THEN [status EXCEPT ![n] = s] ELSE status
  /\ UNCHANGED blocks

-----------------------------------------------------------------------------
(* TxRepo *)

(* SaveBatch, SaveTransactions: ON CONFLICT (chain_id, tx_hash,             *)
(* block_number) DO NOTHING.                                                *)
SaveTransactions(n, h, T) ==
  txs' = [t \in Tx |->
            IF t \in T /\ txs[t][n] = NoTxRow
            THEN [txs[t] EXCEPT ![n] = [hash |-> h, status |-> "success"]]
            ELSE txs[t]]

(* GetByBlock *)
TxsByBlock(n) == {t \in Tx : txs[t][n] # NoTxRow}

(* UpdateStatus selects rows by transaction hash alone: every height.       *)
InvalidateTx(t) ==
  txs' = [txs EXCEPT ![t] =
            [n \in Height |-> IF txs[t][n] = NoTxRow
                              THEN NoTxRow
                              ELSE [txs[t][n] EXCEPT !.status = "invalid"]]]

-----------------------------------------------------------------------------
(* CursorRepo and UnitOfWork.AdvanceCursor *)

(* UpsertCursorBlock: a missing row is inserted as scanning, an existing    *)
(* one keeps its state.                                                     *)
UpdateBlock(n, h) ==
  cursor' = [num |-> n, hash |-> h,
             state |-> IF CursorExists THEN cursor.state ELSE "scanning"]

UpdateState(s) ==
  cursor' = IF CursorExists THEN [cursor EXCEPT !.state = s] ELSE cursor

-----------------------------------------------------------------------------
(* MissingBlockRepo *)

AddMissing(from, to) ==
  /\ Len(missing) < MaxMissing
  /\ missing' = Append(missing, [from |-> from, to |-> to, status |-> "pending"])

MarkMissing(i, s) == missing' = [missing EXCEPT ![i].status = s]

(* GetNext: a pending row with the lowest from_block.                       *)
IsNextMissing(i) ==
  /\ i \in DOMAIN missing
  /\ missing[i].status = "pending"
  /\ \A j \in DOMAIN missing :
       missing[j].status = "pending" => missing[i].from <= missing[j].from

InRow(i, n) == n \in missing[i].from .. missing[i].to

StorageTypeOK ==
  /\ blocks \in [Height -> Hash \cup {NoHash}]
  /\ status \in [Height -> BlockStatus \cup {"none"}]
  /\ txs \in [Tx -> [Height -> TxRow]]
  /\ cursor \in CursorRow
  /\ missing \in Seq(MissingRow)
  /\ failed \subseteq Nat

=============================================================================
