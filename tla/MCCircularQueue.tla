---------------------------- MODULE MCCircularQueue ----------------------------
(* Instances of CircularQueueSpec for TLC.  Words are 16 bits wide: the     *)
(* only width that matters is that one item below offset zero wraps.        *)
EXTENDS CircularQueueSpec

MCHeaderSize == 20          \* sizeof(cque_t): five unsigned words
MCUMAX == 65536

=============================================================================
