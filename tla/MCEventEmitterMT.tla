--------------------------- MODULE MCEventEmitterMT ---------------------------
(* Instances of EventEmitterMT for TLC: the main thread and the runner of   *)
(* samples/ex-event.cpp, which is the one that is cancelled.                *)
EXTENDS EventEmitterMT

CONSTANTS main, runner, n1, n2, long, f, g

MCHeaderSize == 20          \* sizeof(cque_t)
MCUMAX == 65536
MCNameSize == 16            \* EVENT_NAME_LENGTH_MAX + 1
MCBlockSize == 32           \* three pointers and a bool

\* Two listeners of one name, one of them for once, and a second name.
MCUses == {<<n1, f, TRUE>>, <<n1, g, FALSE>>, <<n2, g, FALSE>>}
=============================================================================
