----------------------------- MODULE MCRescan ------------------------------
(***************************************************************************)
(* A small instance of Rescan: three numbers in chunks of two, a range of  *)
(* two chunks, asked for twice.                                            *)
(***************************************************************************)
EXTENDS Rescan

CONSTANTS w1, w2

MCRequests == {[from |-> 0, to |-> 2]}

=============================================================================
