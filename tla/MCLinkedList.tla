----------------------------- MODULE MCLinkedList -----------------------------
(* Instances of LinkedList for TLC.                                         *)
EXTENDS LinkedList

CONSTANTS l1, l2, a, b, c

\* No call depends on which call came before it.
Rings == <<links, alive, ringed>>
=============================================================================
