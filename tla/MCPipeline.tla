----------------------------- MODULE MCPipeline -----------------------------
(***************************************************************************)
(* A small instance of Pipeline.  The node reorganises twice: the blocks    *)
(* above a1 (or above a2) are replaced by those of branch b, and those      *)
(* again by the ones of branch a.  t1 is in both branches, t2 in one.       *)
(***************************************************************************)
EXTENDS Pipeline

CONSTANT none

MCHash == {"g", "a1", "a2", "a3", "a4", "a5", "b2", "b3", "b4"}

MCParent ==
  [h \in MCHash |->
    CASE h = "g" -> none
      [] h = "a1" -> "g"
      [] h = "a2" -> "a1"
      [] h = "a3" -> "a2"
      [] h = "a4" -> "a3"
      [] h = "a5" -> "a4"
      [] h = "b2" -> "a1"
      [] h = "b3" -> "b2"
      [] h = "b4" -> "b3"]

MCTx == {"t1", "t2"}

MCTxsOf ==
  [h \in MCHash |->
    CASE h \in {"a2", "b2"} -> {"t1"}
      [] h = "a3" -> {"t2"}
      [] OTHER -> {}]

MCMaxHeight == 5

(* Lengths 2 to 6: a view is only replaced by a longer one.                  *)
MCChains ==
  {<<"g", "a1">>,
   <<"g", "a1", "a2">>,
   <<"g", "a1", "a2", "a3">>,
   <<"g", "a1", "b2", "b3", "b4">>,
   <<"g", "a1", "a2", "a3", "a4", "a5">>}

=============================================================================
