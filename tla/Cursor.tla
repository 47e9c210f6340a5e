------------------------------- MODULE Cursor -------------------------------
(***************************************************************************)
(* The operations of internal/core/cursor/manager.go that the production   *)
(* wiring calls, over the cursors row.  The pipeline goroutine of a chain  *)
(* is their only caller, so the read and the write of one operation are    *)
(* one step here, except for Rollback, whose two writes are two steps: a   *)
(* crash can separate them.                                                *)
(***************************************************************************)
EXTENDS Storage

ValidTransitions ==
  [init     |-> {"scanning", "catchup"},
   scanning |-> {"catchup", "backfill", "paused", "reorg"},
   catchup  |-> {"scanning", "backfill", "paused", "reorg"},
   backfill |-> {"scanning", "paused"},
   paused   |-> {"scanning", "catchup", "backfill"},
   reorg    |-> {"scanning", "catchup"}]

CanTransition(from, to) == to \in ValidTransitions[from]

Initialize(start) ==
  cursor' = [num |-> start, hash |-> NoHash, state |-> "init"]

Jump(n) ==
  /\ CursorExists
  /\ cursor.state # "paused"
  /\ UpdateBlock(n, NoHash)

SetState(s) ==
  /\ CursorExists
  /\ CanTransition(cursor.state, s)
  /\ UpdateState(s)

(* The two halves of Rollback: the state first, whatever it was, then the   *)
(* position.                                                                *)
RollbackState ==
  /\ CursorExists
  /\ UpdateState("reorg")

(* Mutant: the second write is left out.                                    *)
RollbackStateOnly(n, h) ==
  /\ CursorExists
  /\ UNCHANGED cursor

RollbackBlock(n, h) ==
  /\ CursorExists
  /\ UpdateBlock(n, h)

=============================================================================
