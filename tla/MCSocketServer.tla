---------------------------- MODULE MCSocketServer ----------------------------
(* Instances of SocketServer for TLC: two threads to serve connections and  *)
(* one Socket of the other thread.                                          *)
EXTENDS SocketServer

CONSTANTS w1, w2, u

MCFds == 0..2
MCWorkers == {w1, w2}
MCUsers == {u}
MCSockets == {w1, w2, u, gsListener}
=============================================================================
