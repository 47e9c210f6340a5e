------------------------------- MODULE MCRpc -------------------------------
(***************************************************************************)
(* Small instances of Rpc.                                                 *)
(***************************************************************************)
EXTENDS Rpc

CONSTANTS c1, c2

(* One provider with a daily limit and a window, another without limits.    *)
TwoDaily == <<2, 0>>
TwoWindow == <<1, 0>>

(* One provider without limits.                                             *)
OneDaily == <<0>>
OneWindow == <<0>>

=============================================================================
