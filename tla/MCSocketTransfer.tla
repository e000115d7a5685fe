--------------------------- MODULE MCSocketTransfer ---------------------------
(* Instances of SocketTransfer for TLC.                                     *)
EXTENDS SocketTransfer
=============================================================================
