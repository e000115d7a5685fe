---------------------------- MODULE SocketTransfer ----------------------------
(***************************************************************************)
(* gsock_read() and gsock_write() (src/gsocket.cpp), with gsock_readn()    *)
(* and gsock_writen() (include/gsocket.h) on top: a writer and a reader    *)
(* move packets of n bytes over one connection, in the non-blocking mode   *)
(* the samples use.                                                        *)
(*                                                                         *)
(* The connection takes and gives any part of what it is asked for, breaks *)
(* at any time, and then gives each end one error.  Signals and urgent     *)
(* data disturb select().  Time passes between any two steps of a call;    *)
(* timeouts are ones a long holds, and no call lasts longer than           *)
(* elapsed_msec() can tell.  A client whose call fails closes its socket.  *)
(***************************************************************************)
EXTENDS Integers, Sequences

CONSTANTS
  Size,      \* n: the bytes of a packet
  Packets,   \* bound: how many packets each end moves
  Room,      \* the bytes the connection holds
  Timeouts   \* the timeouts clients give

ASSUME TransferAssumption ==
  Size \in Nat \ {0} /\ Packets \in Nat /\ Room \in Nat \ {0} /\ Timeouts \subseteq Nat

Ends == {"reader", "writer"}

VARIABLES
  wire,     \* the bytes sent and not received, each a number of its own
  broken,   \* the connection does not move bytes any more
  err,      \* the error an end has not been told of (SO_ERROR)
  buf,      \* the reader's buffer
  pc,       \* where the call of an end is
  limit,    \* its timeout
  count,    \* count
  rc,       \* what recv() or send() returned last
  elapsed,  \* elapsed_msec(tm1)
  disturbed,\* history: the ends whose select() failed or found urgent data
  done      \* the packets an end has moved

connection == <<wire, broken, err, buf, pc, limit, count, rc, elapsed, disturbed, done>>

\* Results of recv() and send() that are -1: errno is EAGAIN, or is not.
AGAIN == -1
ERROR == -2

\* The k-th packet.
Packet(k) == [i \in 1..Size |-> (k - 1) * Size + i]

TransferInit == /\ wire = <<>> /\ broken = FALSE
        /\ err = [e \in Ends |-> FALSE]
        /\ buf = [i \in 1..Size |-> 0]
        /\ pc = [e \in Ends |-> "ready"]
        /\ limit = [e \in Ends |-> 0] /\ count = [e \in Ends |-> 0]
        /\ rc = [e \in Ends |-> 0] /\ elapsed = [e \in Ends |-> 0]
        /\ disturbed = {}
        /\ done = [e \in Ends |-> 0]

-----------------------------------------------------------------------------
(* The connection.                                                         *)

Lesser(a, b) == IF a <= b THEN a ELSE b

\* n - count.
Asked(e) == Size - count[e]

NoMoreComes == broken \/ pc["writer"] = "closed"

\* What recv(), or send(), may return now.
Outcomes(e) ==
  IF e = "reader"
  THEN IF wire # <<>> THEN 1..Lesser(Len(wire), Asked(e))
       ELSE IF err[e] THEN {ERROR}
       ELSE IF NoMoreComes THEN {0} ELSE {AGAIN}
  ELSE IF broken THEN {ERROR}
       ELSE IF Len(wire) = Room THEN {AGAIN}
       ELSE 1..Lesser(Room - Len(wire), Asked(e))

\* select() finds the socket of e readable, or writable.
Ready(e) == \/ broken
            \/ e = "reader" /\ (wire # <<>> \/ NoMoreComes)
            \/ e = "writer" /\ Len(wire) < Room

\* MUTANT: from and to the start of the buffer.
MoveFromStart(e, r) ==
  IF e = "reader"
  THEN /\ buf' = [i \in 1..Size |-> IF i <= r THEN wire[i] ELSE buf[i]]
       /\ wire' = SubSeq(wire, r + 1, Len(wire))
  ELSE /\ wire' = wire \o SubSeq(Packet(done[e] + 1), 1, r)
       /\ UNCHANGED buf

\* r bytes from or to buf + count.
Move(e, r) ==
  IF e = "reader"
  THEN /\ buf' = [i \in 1..Size |-> IF i - count[e] \in 1..r
                                    THEN wire[i - count[e]] ELSE buf[i]]
       /\ wire' = SubSeq(wire, r + 1, Len(wire))
  ELSE /\ wire' = wire \o SubSeq(Packet(done[e] + 1), count[e] + 1, count[e] + r)
       /\ UNCHANGED buf

\* count after a transfer that returned r.
Counted(e, r) == IF r > 0 THEN count[e] + r ELSE count[e]

\* The call of recv() or send() and the update of count; after it the call
\* goes on at next unless it failed or is complete.
Transfer(e, next) ==
  \E r \in Outcomes(e) :
    /\ rc' = [rc EXCEPT ![e] = r]
    /\ IF r > 0 THEN Move(e, r) ELSE UNCHANGED <<wire, buf>>
    /\ count' = [count EXCEPT ![e] = Counted(e, r)]
    /\ err' = [err EXCEPT ![e] = @ /\ r # ERROR]
    /\ pc' = [pc EXCEPT ![e] = IF r = ERROR \/ count'[e] >= Size
                               THEN "returned" ELSE next]

\* The connection breaks; bytes under way may be lost.
Break ==
  /\ ~broken /\ broken' = TRUE
  /\ err' = [e \in Ends |-> pc[e] # "closed"]
  /\ \E k \in 0..Len(wire) : wire' = SubSeq(wire, 1, k)
  /\ UNCHANGED <<buf, pc, limit, count, rc, elapsed, disturbed, done>>

-----------------------------------------------------------------------------
(* The calls.                                                              *)

Call(e) ==
  /\ pc[e] = "ready" /\ done[e] < Packets
  /\ \E t \in Timeouts : limit' = [limit EXCEPT ![e] = t]
  /\ pc' = [pc EXCEPT ![e] = "first"]
  /\ elapsed' = [elapsed EXCEPT ![e] = 0]
  /\ UNCHANGED <<wire, broken, err, buf, count, rc, disturbed, done>>

\* The transfer before the loop; tm1 is taken after it.
First(e) ==
  /\ pc[e] = "first"
  /\ Transfer(e, IF limit[e] = 0 THEN "returned" ELSE "again")
  /\ UNCHANGED <<broken, limit, elapsed, disturbed, done>>

Again(e) ==
  /\ pc[e] = "again"
  /\ Transfer(e, "time")
  /\ UNCHANGED <<broken, limit, elapsed, disturbed, done>>

\* MUTANT: the loop does not look at the time.
CheckNoTime(e) ==
  /\ pc[e] = "time"
  /\ pc' = [pc EXCEPT ![e] = "select"]
  /\ UNCHANGED <<wire, broken, err, buf, limit, count, rc, elapsed, disturbed, done>>

CheckTime(e) ==
  /\ pc[e] = "time"
  /\ pc' = [pc EXCEPT ![e] = IF elapsed[e] > limit[e] THEN "returned" ELSE "select"]
  /\ UNCHANGED <<wire, broken, err, buf, limit, count, rc, elapsed, disturbed, done>>

\* MUTANT: select() is asked to wait for no time.
SelectAtOnce(e) ==
  /\ pc[e] = "select"
  /\ pc' = [pc EXCEPT ![e] = IF Ready(e) /\ ~err[e] THEN "again" ELSE "returned"]
  /\ err' = [err EXCEPT ![e] = FALSE]
  /\ UNCHANGED <<wire, broken, buf, limit, count, rc, elapsed, disturbed, done>>

\* gsock_is_readable(), gsock_is_writable(): waits until the socket is ready
\* or limit has passed.  Asking for the error of the socket clears it.
Select(e) ==
  /\ pc[e] = "select"
  /\ Ready(e) \/ elapsed[e] >= limit[e]
  /\ pc' = [pc EXCEPT ![e] = IF Ready(e) /\ ~err[e] THEN "again" ELSE "returned"]
  /\ err' = [err EXCEPT ![e] = FALSE]
  /\ UNCHANGED <<wire, broken, buf, limit, count, rc, elapsed, disturbed, done>>

\* select() fails, as when a signal handler runs in the thread, or finds urgent
\* data on the socket: the call ends at once, whatever could be moved.  The
\* error of the socket is not asked for.
Disturb(e) ==
  /\ pc[e] = "select"
  /\ pc' = [pc EXCEPT ![e] = "returned"]
  /\ disturbed' = disturbed \cup {e}
  /\ UNCHANGED <<wire, broken, err, buf, limit, count, rc, elapsed, done>>

\* What gsock_read() and gsock_write() return.
Value(e) == IF rc[e] = ERROR THEN -1 ELSE count[e]

\* readn() and writen() succeed when that is n.
Return(e) ==
  /\ pc[e] = "returned"
  /\ IF Value(e) = Size
     THEN /\ pc' = [pc EXCEPT ![e] = "ready"]
          /\ done' = [done EXCEPT ![e] = @ + 1]
          /\ count' = [count EXCEPT ![e] = 0]
     ELSE /\ pc' = [pc EXCEPT ![e] = "closed"]
          /\ UNCHANGED <<done, count>>
  /\ UNCHANGED <<wire, broken, err, buf, limit, rc, elapsed, disturbed>>

Close(e) ==
  /\ pc[e] = "ready"
  /\ pc' = [pc EXCEPT ![e] = "closed"]
  /\ UNCHANGED <<wire, broken, err, buf, limit, count, rc, elapsed, disturbed, done>>

\* Time passes for the calls that measure it, up to when it is over.
Tick ==
  LET timed == {e \in Ends : /\ pc[e] \in {"again", "time", "select"}
                             /\ elapsed[e] <= limit[e]}
  IN  /\ timed # {}
      /\ elapsed' = [e \in Ends |-> IF e \in timed THEN elapsed[e] + 1
                                    ELSE elapsed[e]]
      /\ UNCHANGED <<wire, broken, err, buf, pc, limit, count, rc, disturbed, done>>

Step(e) == First(e) \/ Again(e) \/ CheckTime(e) \/ Select(e) \/ Return(e)

TransferNext == Tick \/ Break \/ \E e \in Ends : Call(e) \/ Close(e) \/ Step(e) \/ Disturb(e)

TransferSpec == TransferInit /\ [][TransferNext]_connection

\* Both ends run, and time passes.  No end has to call, nothing has to break,
\* and no signal has to come.
TransferFairSpec ==
  TransferSpec /\ WF_connection(Tick) /\ \A e \in Ends : WF_connection(Step(e))

-----------------------------------------------------------------------------
(* Correctness.                                                            *)

Received == done["reader"] * Size + count["reader"]
Sent == done["writer"] * Size + count["writer"]

\* However the loops of both ends cut the stream: no byte is lost, sent twice
\* or stored in the wrong place.  What the reader has of its packet, and what
\* is under way, are the next bytes of the stream, up to what the writer has
\* counted as long as the connection holds.
StreamIntact ==
  /\ \A i \in 1..count["reader"] : buf[i] = Packet(done["reader"] + 1)[i]
  /\ \A i \in 1..Len(wire) : wire[i] = Received + i
  /\ ~broken => Received + Len(wire) = Sent

\* A call that moves less than n has used all its time, or the connection is
\* broken, or its select() was disturbed; an error is returned only for a broken
\* connection.
ShortHasReason ==
  \A e \in Ends : pc[e] = "returned" =>
    /\ Value(e) < Size => elapsed[e] >= limit[e] \/ broken \/ e \in disturbed
    /\ Value(e) < 0 => broken

\* Every call returns, at the end of the stream too.
CallsReturn ==
  \A e \in Ends : (pc[e] = "first") ~> (pc[e] = "returned")
=============================================================================
