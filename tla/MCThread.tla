------------------------------- MODULE MCThread -------------------------------
(* Instances of Thread for TLC.                                             *)
EXTENDS Thread

MCKeys == 0..2
=============================================================================
