----------------------------- MODULE EventEmitter -----------------------------
(***************************************************************************)
(* gcl::EventEmitter (include/gevent.h, src/gevent.cpp) used by one thread *)
(* whose listeners do not call the emitter back: the calls one after the   *)
(* other, with what they answer.                                           *)
(***************************************************************************)
EXTENDS EventQueues, FiniteSets

VARIABLES
  called,       \* the listeners the last call called, in order
  call,         \* the last call: operation and arguments
  ret,          \* what it returned
  blank         \* history: on() or once() was given the empty name

vars == <<m_names, m_listeners, called, call, ret, fault, blank>>

\* Calls are numbered odd and even: two equal calls in a row are two steps.
Invocation(op, n, l, odd) ==
  [op |-> op, name |-> n, listener |-> l, odd |-> odd]
Calls(op, n, l) == call' = Invocation(op, n, l, ~call.odd)
OnOrOnce(once) == IF once THEN "once" ELSE "on"

\* Both queues are made by the constructor; capacity 0 leaves a null queue.
Init == /\ m_names = Initialise(NULL, MaxNames, NameSize)
        /\ m_listeners = Initialise(NULL, MaxListeners, BlockSize)
        /\ called = <<>>
        /\ call = Invocation("ctor", NULL, NULL, FALSE) /\ ret = TRUE
        /\ fault = FALSE /\ blank = FALSE

-----------------------------------------------------------------------------
(* The operations.                                                         *)

\* A call that leaves r, or the fault of trimming from the tail.
Takes(op, n, l, r) ==
  /\ ~fault
  /\ IF r.fault THEN fault' = TRUE /\ UNCHANGED <<m_names, m_listeners, called, call, ret>>
     ELSE /\ Calls(op, n, l) /\ called' = <<>> /\ ret' = r.ret
          /\ m_names' = r.names /\ m_listeners' = r.q
          /\ UNCHANGED fault

\* Nobody refuses the empty name: its slot looks unused.
On(n, l, once) ==
  /\ Takes(OnOrOnce(once), n, l, Registered(m_names, m_listeners, n, l, once))
  /\ blank' = (blank \/ n = Empty)

Off(n, l) ==
  /\ Takes("off", n, l, TurnedOff(m_names, m_listeners, n, l))
  /\ UNCHANGED blank

\* emit(): calls the listeners of the name from head to tail; a once block
\* expires where it is.
Emit(n) ==
  LET name == FindName(m_names, n)
      q == m_listeners
      blocks == Contents(q)
      served == Without(blocks, {eb \in BlocksOf(q) : eb.name # name \/ eb.listener = NULL})
      spent == {Nth(q, i) : i \in {j \in DOMAIN blocks :
                                     blocks[j].name = name /\ blocks[j].once}}
  IN  /\ ~fault
      /\ Calls("emit", n, NULL) /\ ret' = (name # NULL)
      /\ called' = IF name = NULL THEN <<>>
                   ELSE [i \in 1..Len(served) |-> served[i].listener]
      /\ m_listeners' =
           IF name = NULL \/ q = NULL THEN q
           ELSE [q EXCEPT !.buf = [o \in DOMAIN q.buf |->
                   IF o \in spent THEN [q.buf[o] EXCEPT !.name = NULL]
                   ELSE q.buf[o]]]
      /\ UNCHANGED <<m_names, fault, blank>>

Next == \/ \E u \in Uses : On(u[1], u[2], u[3]) \/ Off(u[1], u[2])
        \/ \E n \in EventNames : Emit(n)

Spec == Init /\ [][Next]_vars

-----------------------------------------------------------------------------
(* Correctness.                                                            *)

Names == Contents(m_names)
Blocks == Contents(m_listeners)

\* Types.
TypeOK ==
  /\ fault \in BOOLEAN
  /\ Names \in Seq((EventNames \ TooLong) \cup {Empty})
  /\ Len(Names) <= MaxNames /\ Len(Blocks) <= MaxListeners
  /\ \A i \in 1..Len(Blocks) :
       /\ Blocks[i].listener \in Listeners /\ Blocks[i].once \in BOOLEAN
       /\ Blocks[i].name \in DOMAIN m_names.buf \cup {NULL}

\* The pointers between the queues: a name is held by one slot at most, and a
\* live block points at a slot that is in use, so that no slot is given to
\* another name while a listener still waits for the old one.  That is so
\* until on() or once() is given the empty name.
NamesLinked ==
  blank \/
  /\ \A i, j \in 1..Len(Names) :
       Names[i] = Names[j] /\ Names[i] # Empty => i = j
  /\ \A i \in 1..Len(Blocks) :
       ~Expired(Blocks[i]) =>
         /\ \E j \in 1..Len(Names) : Nth(m_names, j) = Blocks[i].name
         /\ Load(m_names, Blocks[i].name) # Empty

\* The registrations that the blocks stand for, and the names in use.
Registrations ==
  LET live == Without(Blocks, {eb \in BlocksOf(m_listeners) : Expired(eb)})
  IN  [i \in DOMAIN live |->
         [live[i] EXCEPT !.name = Load(m_names, live[i].name)]]

KnownNames == ItemsOf(Names) \ {Empty}

\* The emitter implements the registry: each call returns what the registry
\* returns and calls the listeners the registry calls, in its order, however
\* often names and slots were given up and used again.  That is so until on()
\* or once() is given the empty name, or trimming from the tail runs into the
\* fault, after which nothing happens here.
Registry == INSTANCE EventRegistry WITH regs <- Registrations, known <- KnownNames

ImplementsRegistry ==
  Registry!Init /\ [][blank' \/ Registry!Next]_(Registry!vars)
=============================================================================
