---------------------------- MODULE MCTcpStack ----------------------------
(* One connection; the bounds are in MCTcpStack.cfg. *)
EXTENDS TcpStack
=============================================================================
