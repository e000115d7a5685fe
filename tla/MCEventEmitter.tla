---------------------------- MODULE MCEventEmitter ----------------------------
(* Instances of EventEmitter for TLC.                                       *)
EXTENDS EventEmitter

CONSTANTS n1, n2, n3, long, f

MCHeaderSize == 20          \* sizeof(cque_t)
MCUMAX == 65536
MCNameSize == 16            \* EVENT_NAME_LENGTH_MAX + 1
MCBlockSize == 32           \* three pointers and a bool

\* More names than slots, one name with two listeners, and both kinds of
\* registration with and without a listener that is called.
MCUses == {<<n1, f, FALSE>>, <<n1, NULL, TRUE>>, <<n2, f, TRUE>>,
           <<n3, f, FALSE>>, <<long, f, FALSE>>, <<Empty, f, FALSE>>}

\* No call depends on what the one before it returned, and no property on
\* what the call before the last returned.
Queues == <<m_names, m_listeners, fault, blank>>
=============================================================================
