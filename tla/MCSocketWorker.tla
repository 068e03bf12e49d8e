--------------------------- MODULE MCSocketWorker ---------------------------
(* SocketWorker for TLC: all constants are numbers, given in the configs. *)
EXTENDS SocketWorker
=============================================================================
