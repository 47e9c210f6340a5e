----------------------------- MODULE MCIndexer ------------------------------
(***************************************************************************)
(* A small instance of Indexer: the cursor starts at block 1 or 2, the head *)
(* runs ahead of it, and the tail of the chain is replaced once.            *)
(***************************************************************************)
EXTENDS Indexer

CONSTANT none

MCHash == {"g", "a1", "a2", "a3", "b2", "b3", "b4"}

MCParent ==
  [h \in MCHash |->
    CASE h = "g" -> none
      [] h = "a1" -> "g"
      [] h = "a2" -> "a1"
      [] h = "a3" -> "a2"
      [] h = "b2" -> "a1"
      [] h = "b3" -> "b2"
      [] h = "b4" -> "b3"]

MCTx == {"t1"}

MCTxsOf == [h \in MCHash |-> IF h \in {"a3", "b3"} THEN {"t1"} ELSE {}]

MCMaxHeight == 4

MCChains ==
  {<<"g", "a1">>,
   <<"g", "a1", "a2", "a3">>,
   <<"g", "a1", "b2", "b3", "b4">>}

=============================================================================
