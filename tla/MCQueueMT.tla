------------------------------- MODULE MCQueueMT -------------------------------
(* Instances of QueueMT for TLC.                                            *)
EXTENDS QueueMT

MCHeaderSize == 20
MCUMAX == 65536
=============================================================================
