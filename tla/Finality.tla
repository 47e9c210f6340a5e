------------------------------ MODULE Finality ------------------------------
(***************************************************************************)
(* FinalityBuffer (internal/indexing/emitter/finality.go): events wait in  *)
(* memory, by block number, until the pipeline reports a tip that is       *)
(* Confirmations above them.  The events of one block travel together, so  *)
(* a block hash stands for them; how often they are delivered is left out. *)
(***************************************************************************)
EXTENDS Chain

CONSTANT Confirmations

ASSUME ConfirmationsAssumption == Confirmations \in Nat

VARIABLES
  pending,   \* pending[n]: blocks whose events are buffered under number n
  emitted    \* blocks whose events have reached the inner emitter

finalityVars == <<pending, emitted>>

NoPending == [n \in Height |-> {}]

FinalityInit == pending = NoPending /\ emitted = {}

(* EmitBatch, QueueEvent: the buffer and what goes out at once when no      *)
(* confirmation is asked for.                                               *)
Queued(n, h) ==
  IF Confirmations > 0 /\ TxsOf[h] # {}
  THEN [pending EXCEPT ![n] = @ \cup {h}]
  ELSE pending

EmittedAtOnce(h) ==
  IF Confirmations = 0 /\ TxsOf[h] # {} THEN {h} ELSE {}

(* OnNewBlock(cur): the numbers at or below the safe block.                 *)
Final(buffer, cur) ==
  {n \in Height : buffer[n] # {} /\ n + Confirmations <= cur}

(* Mutant: every final number leaves the buffer, also after a failure.      *)
EmitBlockForgets(n, h, done) ==
  LET buffer == Queued(n, h) IN
  /\ done \subseteq Final(buffer, n)
  /\ pending' = [m \in Height |-> IF m \in Final(buffer, n) THEN {} ELSE buffer[m]]
  /\ emitted' = emitted \cup EmittedAtOnce(h) \cup UNION {buffer[m] : m \in done}

(* EmitBatch(block n = h), then OnNewBlock(n).  done is the part of the     *)
(* final numbers whose EmitBatch to the inner emitter succeeded before the  *)
(* first failure; the others stay in the buffer.                            *)
EmitBlock(n, h, done) ==
  LET buffer == Queued(n, h) IN
  /\ done \subseteq Final(buffer, n)
  /\ pending' = [m \in Height |-> IF m \in done THEN {} ELSE buffer[m]]
  /\ emitted' = emitted \cup EmittedAtOnce(h) \cup UNION {buffer[m] : m \in done}

(* The buffer is process memory.                                            *)
FinalityCrash == pending' = NoPending /\ UNCHANGED emitted

FinalityTypeOK ==
  /\ pending \in [Height -> SUBSET Hash]
  /\ emitted \subseteq Hash

=============================================================================
