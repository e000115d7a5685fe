------------------------------- MODULE QueueMT -------------------------------
(***************************************************************************)
(* gcl::QueueMT<T> (include/gque.h) shared by threads.  Every method holds *)
(* an RWLock through an AutoLockRead or AutoLockWrite: locked in the       *)
(* constructor, unlocked in the destructor, which runs after the return    *)
(* value is computed and on every way out.  In between, the body of the    *)
(* queue operation runs step by step: the loads and the test, the copy of  *)
(* the item, the update of head or tail.                                   *)
(*                                                                         *)
(* init() and clear() of QueueMT do not compile when they are used (a      *)
(* wrong argument count, a const method that locks a non-mutable lock), so *)
(* the capacity is the constructor's.                                      *)
(***************************************************************************)
EXTENDS CircularQueue, Sequences

CONSTANTS
  Threads,
  Items,        \* the values threads store
  ItemSize,     \* sizeof(T)
  Cap,          \* the capacity given to the constructor
  Ops           \* the operations threads call

Writers == {"put", "push", "get", "pop"}
Readers == {"length", "available", "is_empty", "is_full"}

Value == Items \cup {Garbage}

\* What NULL stands for is none of these: a call, what it returns, a block.
Invocations == [op : Writers \cup Readers, item : Items \cup {NULL}]
Returns == [val : BOOLEAN \cup Int, item : Value \cup {NULL}]
ControlBlocks ==
  [begin : Nat, end : Nat, head : Nat, tail : Nat, item_size : Nat,
   buf : [{HeaderSize + k * ItemSize : k \in 0..Cap} -> Value]]

ASSUME MTAssumption ==
  /\ Cap \in Nat \ {0} /\ ItemSize \in 1..HeaderSize
  /\ HeaderSize + (Cap + 1) * ItemSize < UMAX
  /\ Ops \subseteq Writers \cup Readers
  /\ NULL \notin Value \cup Threads /\ NULL \notin Nat
  /\ NULL \notin Invocations /\ NULL \notin Returns /\ NULL \notin ControlBlocks

VARIABLES
  m_q,          \* the queue
  writer,       \* m_lock: the thread that holds it for writing, or NULL
  readers,      \* m_lock: the threads that hold it for reading
  pc,           \* where each thread is
  call,         \* per thread, the call it is in, or NULL
  tmp,          \* per thread, the local variable of the body
  ret           \* per thread, the return value once it is computed

vars == <<m_q, writer, readers, pc, call, tmp, ret>>

Invocation(op, x) == [op |-> op, item |-> x]
Answer(v, x) == [val |-> v, item |-> x]
Args(op) == IF op \in {"put", "push"} THEN Items \cup {NULL} ELSE {NULL}

Init ==
  /\ m_q = NewQueue(Cap, ItemSize)
  /\ writer = NULL /\ readers = {}
  /\ pc = [t \in Threads |-> "idle"]
  /\ call = [t \in Threads |-> NULL]
  /\ tmp = [t \in Threads |-> NULL]
  /\ ret = [t \in Threads |-> NULL]

\* Thread t is at step "from" of one of the operations ops.
At(t, from, ops) == pc[t] = from /\ call[t].op \in ops
Goto(t, to) == pc' = [pc EXCEPT ![t] = to]
SetTmp(t, v) == tmp' = [tmp EXCEPT ![t] = v]
Answers(t, v, x) == ret' = [ret EXCEPT ![t] = Answer(v, x)]

-----------------------------------------------------------------------------
(* Entering and leaving a method.                                          *)

Call(t) ==
  /\ pc[t] = "idle" /\ Goto(t, "lock")
  /\ \E op \in Ops : \E x \in Args(op) :
       call' = [call EXCEPT ![t] = Invocation(op, x)]
  /\ UNCHANGED <<m_q, writer, readers, tmp, ret>>

\* MUTANT: a writer does not wait for readers.
WriteLockPastReaders(t) ==
  /\ At(t, "lock", Writers) /\ Goto(t, "test")
  /\ writer = NULL
  /\ writer' = t
  /\ UNCHANGED <<m_q, readers, call, tmp, ret>>

WriteLock(t) ==
  /\ At(t, "lock", Writers) /\ Goto(t, "test")
  /\ writer = NULL /\ readers = {}
  /\ writer' = t
  /\ UNCHANGED <<m_q, readers, call, tmp, ret>>

\* MUTANT: a reader does not wait for a writer.
ReadLockPastWriter(t) ==
  /\ At(t, "lock", Readers) /\ Goto(t, "load")
  /\ readers' = readers \cup {t}
  /\ UNCHANGED <<m_q, writer, call, tmp, ret>>

ReadLock(t) ==
  /\ At(t, "lock", Readers) /\ Goto(t, "load")
  /\ writer = NULL
  /\ readers' = readers \cup {t}
  /\ UNCHANGED <<m_q, writer, call, tmp, ret>>

\* MUTANT: a reader's lock is not released.
UnlockWriterOnly(t) ==
  /\ pc[t] = "unlock" /\ Goto(t, "idle")
  /\ writer' = IF writer = t THEN NULL ELSE writer
  /\ call' = [call EXCEPT ![t] = NULL]
  /\ tmp' = [tmp EXCEPT ![t] = NULL]
  /\ ret' = [ret EXCEPT ![t] = NULL]
  /\ UNCHANGED <<m_q, readers>>

\* The destructor of the lock object, then the return to the caller.
Unlock(t) ==
  /\ pc[t] = "unlock" /\ Goto(t, "idle")
  /\ writer' = IF writer = t THEN NULL ELSE writer
  /\ readers' = readers \ {t}
  /\ call' = [call EXCEPT ![t] = NULL]
  /\ tmp' = [tmp EXCEPT ![t] = NULL]
  /\ ret' = [ret EXCEPT ![t] = NULL]
  /\ UNCHANGED m_q

-----------------------------------------------------------------------------
(* put(): compute the next tail, refuse when full; copy; move tail.        *)

PutTest(t) ==
  /\ At(t, "test", {"put"})
  /\ SetTmp(t, NextPos(m_q))
  /\ IF IsFull(m_q)
     THEN Goto(t, "unlock") /\ Answers(t, FALSE, NULL)
     ELSE Goto(t, "copy") /\ UNCHANGED ret
  /\ UNCHANGED <<m_q, writer, readers, call>>

PutCopy(t) ==
  /\ At(t, "copy", {"put"}) /\ Goto(t, "move")
  /\ m_q' = [m_q EXCEPT !.buf = Store(m_q, m_q.tail, call[t].item)]
  /\ UNCHANGED <<writer, readers, call, tmp, ret>>

PutMove(t) ==
  /\ At(t, "move", {"put"}) /\ Goto(t, "unlock")
  /\ m_q' = [m_q EXCEPT !.tail = tmp[t]]
  /\ Answers(t, TRUE, NULL)
  /\ UNCHANGED <<writer, readers, call, tmp>>

(* push(): compute the new head (its full test never holds); copy; move.   *)

PushTest(t) ==
  /\ At(t, "test", {"push"})
  /\ SetTmp(t, PushPos(m_q))
  /\ IF CanPush(m_q)
     THEN Goto(t, "copy") /\ UNCHANGED ret
     ELSE Goto(t, "unlock") /\ Answers(t, FALSE, NULL)
  /\ UNCHANGED <<m_q, writer, readers, call>>

PushCopy(t) ==
  /\ At(t, "copy", {"push"}) /\ Goto(t, "move")
  /\ m_q' = [m_q EXCEPT !.buf = Store(m_q, tmp[t], call[t].item)]
  /\ UNCHANGED <<writer, readers, call, tmp, ret>>

PushMove(t) ==
  /\ At(t, "move", {"push"}) /\ Goto(t, "unlock")
  /\ m_q' = [m_q EXCEPT !.head = tmp[t]]
  /\ Answers(t, TRUE, NULL)
  /\ UNCHANGED <<writer, readers, call, tmp>>

(* get(), and pop(), which calls get(): refuse when empty; copy the item   *)
(* out; advance head; wrap head at end.                                    *)

Gets == {"get", "pop"}

GetTest(t) ==
  /\ At(t, "test", Gets)
  /\ IF IsEmpty(m_q)
     THEN Goto(t, "unlock") /\ Answers(t, FALSE, NULL)
     ELSE Goto(t, "copy") /\ UNCHANGED ret
  /\ UNCHANGED <<m_q, writer, readers, call, tmp>>

GetCopy(t) ==
  /\ At(t, "copy", Gets) /\ Goto(t, "move")
  /\ SetTmp(t, Load(m_q, m_q.head))
  /\ UNCHANGED <<m_q, writer, readers, call, ret>>

GetMove(t) ==
  /\ At(t, "move", Gets) /\ Goto(t, "wrap")
  /\ m_q' = [m_q EXCEPT !.head = U(m_q.head + m_q.item_size)]
  /\ Answers(t, TRUE, tmp[t])
  /\ UNCHANGED <<writer, readers, call, tmp>>

GetWrap(t) ==
  /\ At(t, "wrap", Gets) /\ Goto(t, "unlock")
  /\ m_q' = [m_q EXCEPT !.head = IF m_q.head = m_q.end THEN m_q.begin
                                                       ELSE m_q.head]
  /\ UNCHANGED <<writer, readers, call, tmp, ret>>

(* The readers: head is loaded first, the rest of the answer after it.     *)

LoadHead(t) ==
  /\ At(t, "load", Readers) /\ Goto(t, "answer")
  /\ SetTmp(t, m_q.head)
  /\ UNCHANGED <<m_q, writer, readers, call, ret>>

ReadAnswer(t) ==
  LET q == [m_q EXCEPT !.head = tmp[t]]
  IN  /\ At(t, "answer", Readers) /\ Goto(t, "unlock")
      /\ Answers(t, CASE call[t].op = "length" -> Length(q)
                      [] call[t].op = "available" -> Available(q)
                      [] call[t].op = "is_empty" -> IsEmpty(q)
                      [] call[t].op = "is_full" -> IsFull(q), NULL)
      /\ UNCHANGED <<m_q, writer, readers, call, tmp>>

-----------------------------------------------------------------------------

Body(t) ==
  \/ PutTest(t) \/ PutCopy(t) \/ PutMove(t)
  \/ PushTest(t) \/ PushCopy(t) \/ PushMove(t)
  \/ GetTest(t) \/ GetCopy(t) \/ GetMove(t) \/ GetWrap(t)
  \/ LoadHead(t) \/ ReadAnswer(t)

\* What a thread does by itself once it has made a call.
Step(t) == WriteLock(t) \/ ReadLock(t) \/ Body(t) \/ Unlock(t)

Next == \E t \in Threads : Call(t) \/ Step(t)

Spec == Init /\ [][Next]_vars

\* The scheduler runs every thread that can run, and the lock is eventually
\* given to a waiting thread to which it stays free.  Nothing is assumed of
\* the order in which waiting threads get it, nor that calls are made.
FairSpec == Spec /\ \A t \in Threads : WF_vars(Step(t))

-----------------------------------------------------------------------------
(* Correctness.                                                            *)

\* A caller never sees or leaves a queue in the middle of another call: the
\* lock is held exactly while a body runs, a writer excludes everyone, and
\* outside all bodies head and tail are at slots (head at end, as between
\* the two updates of get(), is never left behind).
Exclusion ==
  LET holders == {t \in Threads : pc[t] \notin {"idle", "lock"}}
  IN  /\ holders = readers \cup ({writer} \ {NULL})
      /\ writer # NULL => holders = {writer}
      /\ (writer = NULL \/ pc[writer] = "unlock") =>
           {m_q.head, m_q.tail} \subseteq DOMAIN m_q.buf

\* Linearizability: the steps of the bodies, interleaved in any way the lock
\* admits, are calls that take effect at one instant.  The instant is the
\* step that makes the return value: the test that refuses, the move of head
\* or tail, the answer of a reader.  What takes effect is what this code does:
\* pop() takes the first item, as get() does (gque.h:146), and push() empties
\* a full queue (gque.cpp:78).
Atomic == INSTANCE AtomicQueue WITH items <- Contents(m_q)

Linearizable == Atomic!Spec

\* Once no thread makes a new call, every call that was made returns: no
\* path out of a method keeps the lock, and no two calls wait for each other.
CallsReturn ==
  <>[][\A t \in Threads : ~Call(t)]_vars =>
    \A t \in Threads : []<>(pc[t] = "idle")
=============================================================================
