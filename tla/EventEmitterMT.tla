---------------------------- MODULE EventEmitterMT ----------------------------
(***************************************************************************)
(* gcl::EventEmitter (include/gevent.h, src/gevent.cpp) shared by threads, *)
(* as in samples/ex-event.cpp: calls wait for m_lock, emit() holds it over *)
(* the listeners it calls, and a thread may be cancelled in a listener,    *)
(* which unwinds its frames and so unlocks.                                *)
(*                                                                         *)
(* In ReentrantSpec listeners call off() too.  The platform refuses to lock *)
(* a lock again that the thread holds (EDEADLK), nobody looks at that, and *)
(* the inner AutoLockWrite unlocks the outer lock.                         *)
(***************************************************************************)
EXTENDS EventQueues

CONSTANTS
  Threads,
  Cancellable,  \* the threads another one may cancel
  NONE          \* no thread

ASSUME EmitterMTAssumption ==
  /\ Cancellable \subseteq Threads
  /\ NONE \notin Threads

VARIABLES
  m_lock,     \* the thread that holds the lock
  pc,         \* where a thread is
  name, peek, \* local variables of emit()
  due,        \* the listeners an emit() found registered when it began
  heard,      \* those it has called
  cancelled   \* the threads with a cancellation pending

locals == <<name, peek, due, heard>>
sharedVars == <<m_names, m_listeners, m_lock, pc, locals, cancelled, fault>>

SharedInit == /\ m_names = Initialise(NULL, MaxNames, NameSize)
        /\ m_listeners = Initialise(NULL, MaxListeners, BlockSize)
        /\ m_lock = NONE /\ fault = FALSE /\ cancelled = {}
        /\ pc = [t \in Threads |-> "outside"]
        /\ name = [t \in Threads |-> NULL] /\ peek = [t \in Threads |-> NULL]
        /\ due = [t \in Threads |-> <<>>] /\ heard = [t \in Threads |-> <<>>]

Goto(t, l) == pc' = [pc EXCEPT ![t] = l]

-----------------------------------------------------------------------------
(* The lock.                                                               *)

\* A call of any of the operations, up to the lock.
Call(t) ==
  /\ pc[t] = "outside" /\ t \notin cancelled /\ ~fault
  /\ Goto(t, "waiting")
  /\ UNCHANGED <<m_names, m_listeners, m_lock, locals, cancelled, fault>>

\* MUTANT: emitting threads share the lock, as readers would.
WriteLockShared(t) ==
  /\ pc[t] = "waiting" /\ ~fault
  /\ m_lock \in {NONE} \cup {u \in Threads : pc[u] = "calling"}
  /\ m_lock' = t /\ Goto(t, "inside")
  /\ UNCHANGED <<m_names, m_listeners, locals, cancelled, fault>>

\* AutoLockWrite::AutoLockWrite().
WriteLock(t) ==
  /\ pc[t] = "waiting" /\ m_lock = NONE /\ ~fault
  /\ m_lock' = t /\ Goto(t, "inside")
  /\ UNCHANGED <<m_names, m_listeners, locals, cancelled, fault>>

\* ~AutoLockWrite().  To unlock a lock one does not hold has no meaning: it
\* may do nothing, take the lock from its owner, or spoil it for ever.
Unlock(t) ==
  IF m_lock = t THEN m_lock' = NONE
  ELSE m_lock' \in {m_lock, NONE} \cup Threads

\* MUTANT: the lock is unlocked by a call at the end of each method, which a
\* cancellation does not reach.
LeaveLocked(t, l) == /\ IF l = "ended" THEN UNCHANGED m_lock ELSE Unlock(t)
                     /\ Goto(t, l)
                     /\ name' = [name EXCEPT ![t] = NULL]
                     /\ peek' = [peek EXCEPT ![t] = NULL]
                     /\ due' = [due EXCEPT ![t] = <<>>]
                     /\ heard' = [heard EXCEPT ![t] = <<>>]

\* The end of a call, or of the thread in it.
Leave(t, l) == /\ Unlock(t) /\ Goto(t, l)
               /\ name' = [name EXCEPT ![t] = NULL]
               /\ peek' = [peek EXCEPT ![t] = NULL]
               /\ due' = [due EXCEPT ![t] = <<>>]
               /\ heard' = [heard EXCEPT ![t] = <<>>]

-----------------------------------------------------------------------------
(* The calls.                                                              *)

\* What a call r of on(), once() or off() leaves.
Applies(r) ==
  IF r.fault THEN fault' = TRUE /\ UNCHANGED <<m_names, m_listeners>>
  ELSE m_names' = r.names /\ m_listeners' = r.q /\ UNCHANGED fault

OnOrOff(t) ==
  /\ pc[t] = "inside" /\ ~fault
  /\ \E u \in Uses :
       \/ Applies(Registered(m_names, m_listeners, u[1], u[2], u[3]))
       \/ Applies(TurnedOff(m_names, m_listeners, u[1], u[2]))
  /\ Leave(t, "outside")
  /\ UNCHANGED cancelled

IsCalled(eb, p) == eb.name = p /\ eb.listener # NULL

\* The listeners of name p in the last n of the blocks c, in order.
ListenersIn(c, p, n) ==
  LET last[i \in 0..n] ==
        IF i = 0 THEN <<>>
        ELSE LET eb == c[Len(c) - i + 1]
             IN  (IF IsCalled(eb, p) THEN <<eb.listener>> ELSE <<>>) \o last[i - 1]
  IN  last[n]

\* emit() has the lock and finds the name, or not.
EmitBegin(t) ==
  /\ pc[t] = "inside" /\ ~fault
  /\ \E u \in Uses :
       LET p == FindName(m_names, u[1])
       IN  IF p = NULL THEN Leave(t, "outside")
           ELSE /\ Goto(t, "walking")
                /\ name' = [name EXCEPT ![t] = p]
                /\ peek' = [peek EXCEPT ![t] = Peek(m_listeners)]
                /\ due' = [due EXCEPT ![t] = ListenersIn(Contents(m_listeners), p, Length(m_listeners))]
                /\ UNCHANGED <<m_lock, heard>>
  /\ UNCHANGED <<m_names, m_listeners, cancelled, fault>>

At(t) == Load(m_listeners, peek[t])

\* MUTANT: after a once block the walk begins at the head again.
AdvanceFromHead(t) ==
  /\ m_listeners' = IF At(t).name = name[t] /\ At(t).once
                    THEN [m_listeners EXCEPT !.buf[peek[t]].name = NULL]
                    ELSE m_listeners
  /\ peek' = [peek EXCEPT ![t] =
       IF At(t).once THEN Peek(m_listeners) ELSE PeekNext(m_listeners, @)]

\* A once block of the name expires; on to the next block.
Advance(t) ==
  /\ m_listeners' = IF At(t).name = name[t] /\ At(t).once
                    THEN [m_listeners EXCEPT !.buf[peek[t]].name = NULL]
                    ELSE m_listeners
  /\ peek' = [peek EXCEPT ![t] = PeekNext(m_listeners, @)]

\* The listener of the block at peek is called.
CallListener(t) ==
  /\ pc[t] = "walking" /\ peek[t] # NULL /\ IsCalled(At(t), name[t]) /\ ~fault
  /\ heard' = [heard EXCEPT ![t] = Append(@, At(t).listener)]
  /\ Goto(t, "calling")
  /\ UNCHANGED <<m_names, m_listeners, m_lock, name, peek, due, cancelled, fault>>

ListenerReturns(t) ==
  /\ pc[t] = "calling" /\ ~fault
  /\ Advance(t) /\ Goto(t, "walking")
  /\ UNCHANGED <<m_names, m_lock, name, due, heard, cancelled, fault>>

\* The block at peek has no listener to call.
PassBy(t) ==
  /\ pc[t] = "walking" /\ peek[t] # NULL /\ ~IsCalled(At(t), name[t]) /\ ~fault
  /\ Advance(t)
  /\ UNCHANGED <<m_names, m_lock, pc, name, due, heard, cancelled, fault>>

EmitEnd(t) ==
  /\ pc[t] = "walking" /\ peek[t] = NULL /\ ~fault
  /\ Leave(t, "outside")
  /\ UNCHANGED <<m_names, m_listeners, cancelled, fault>>

\* A listener calls off(): the lock is not got, but unlocked.
Reenter(t) ==
  /\ pc[t] = "calling" /\ ~fault
  /\ \E u \in Uses : Applies(TurnedOff(m_names, m_listeners, u[1], u[2]))
  /\ Unlock(t)
  /\ UNCHANGED <<pc, locals, cancelled>>

\* Thread::cancel() of a thread that runs.
Cancel(t) ==
  /\ t \in Cancellable \ cancelled /\ pc[t] # "ended" /\ ~fault
  /\ cancelled' = cancelled \cup {t}
  /\ UNCHANGED <<m_names, m_listeners, m_lock, pc, locals, fault>>

\* The cancellation takes effect outside a call, or in a listener, whose
\* block stays as it is.
EndCancelled(t) ==
  /\ t \in cancelled /\ ~fault
  /\ \/ pc[t] = "calling" /\ Leave(t, "ended")
     \/ pc[t] = "outside" /\ Goto(t, "ended") /\ UNCHANGED <<m_lock, locals>>
  /\ UNCHANGED <<m_names, m_listeners, cancelled, fault>>

\* What a thread does by itself inside a call: wait for the lock, emit.
Step(t) ==
  \/ WriteLock(t)
  \/ EmitBegin(t) \/ CallListener(t) \/ ListenerReturns(t) \/ PassBy(t) \/ EmitEnd(t)

SharedNext == \E t \in Threads :
                Call(t) \/ Step(t) \/ OnOrOff(t) \/ Cancel(t) \/ EndCancelled(t)

SharedSpec == SharedInit /\ [][SharedNext]_sharedVars

\* With listeners that call the emitter back.
ReentrantSpec == SharedInit /\ [][SharedNext \/ \E t \in Threads : Reenter(t)]_sharedVars

\* Threads inside a call run, listeners return, a lock that stays free is
\* given to a thread that waits for it.  Nobody has to call anything.  A thread
\* that is about to turn a listener on or off could emit, and a step of either
\* kind takes it away from there: its fairness is that of Step.
SharedFairSpec == SharedSpec /\ \A t \in Threads : WF_sharedVars(Step(t))

-----------------------------------------------------------------------------
(* Correctness.                                                            *)

\* Clients keep away from the empty name (EventEmitter says what it does).
\* The properties of emitting threads are for such clients.
NoEmptyName == \A u \in Uses : u[1] # Empty

Emitting(t) == pc[t] \in {"walking", "calling"}

\* README.md:13 "thread-safe": no two threads are in the emitter at once, and
\* the lock is free when none is, also after a thread was cancelled in a call.
Exclusion ==
  {t \in Threads : pc[t] = "inside" \/ Emitting(t)} = {m_lock} \ {NONE}

\* off() is final: a listener that runs is registered at that moment, for the
\* name it is called for.  It is not called after the off() of any thread has
\* returned, although emit() has found the block long before.
RunningIsRegistered ==
  \A t \in Threads :
    pc[t] = "calling" =>
      /\ \E i \in 1..Length(m_listeners) : Nth(m_listeners, i) = peek[t]
      /\ At(t).name = name[t]
      /\ Load(m_names, name[t]) # Empty

\* An emit() serves the listeners that were registered when it got the lock,
\* each once and in their order: what it has called and what is left from
\* peek to the tail is what was due, although once blocks expire meanwhile.
EmitsAtOneInstant ==
  \A t \in Threads :
    Emitting(t) =>
      LET c == Contents(m_listeners)
          next == IF peek[t] = NULL THEN Len(c) + 1
                  ELSE CHOOSE k \in DOMAIN c : Nth(m_listeners, k) = peek[t]
          left == IF pc[t] = "calling" THEN Len(c) - next ELSE Len(c) - next + 1
      IN  due[t] = heard[t] \o ListenersIn(c, name[t], left)

\* Once no thread makes a new call every call returns, or its thread ends.
CallsReturn ==
  <>[][\A t \in Threads : ~Call(t)]_sharedVars =>
    \A t \in Threads : []<>(pc[t] \in {"outside", "ended"} \/ fault)
=============================================================================
