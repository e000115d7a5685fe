----------------------------- MODULE AtomicQueue -----------------------------
(***************************************************************************)
(* What QueueMT adds to the sequential queue: several threads call it, and *)
(* each call takes effect at one instant between its invocation and its    *)
(* return (linearizability).  What one call does to the items is what the  *)
(* code does: pop() takes the first item, where gque.h:41 says "pop from   *)
(* tail", and push() empties a full queue instead of being refused.        *)
(***************************************************************************)
EXTENDS Integers, Sequences

CONSTANTS
  Threads,
  Items,        \* the values stored
  Cap,          \* the capacity given to the constructor
  Ops,          \* the operations called
  NULL, Garbage

VARIABLES
  items,        \* the queue
  call,         \* per thread, the call it is in, or NULL
  ret           \* per thread, what that call returns once it took effect

vars == <<items, call, ret>>

Writers == {"put", "push", "get", "pop"}
Readers == {"length", "available", "is_empty", "is_full"}

\* The arguments a call of op can have.
Args(op) == IF op \in {"put", "push"} THEN Items \cup {NULL} ELSE {NULL}

Invocation(op, x) == [op |-> op, item |-> x]
Answer(v, x) == [val |-> v, item |-> x]

Init == /\ items = <<>>
        /\ call = [t \in Threads |-> NULL]
        /\ ret = [t \in Threads |-> NULL]

Call(t) == /\ call[t] = NULL
           /\ \E op \in Ops : \E x \in Args(op) :
                call' = [call EXCEPT ![t] = Invocation(op, x)]
           /\ UNCHANGED <<items, ret>>

Answers(t, v, x) == ret' = [ret EXCEPT ![t] = Answer(v, x)]

Stored(x) == IF x = NULL THEN Items \cup {Garbage} ELSE {x}

Put(t) ==
  /\ call[t].op = "put"
  /\ IF Len(items) < Cap
     THEN /\ \E v \in Stored(call[t].item) : items' = Append(items, v)
          /\ Answers(t, TRUE, NULL)
     ELSE UNCHANGED items /\ Answers(t, FALSE, NULL)

\* On a full queue push() moves head onto tail: the queue is empty.
Push(t) ==
  /\ call[t].op = "push"
  /\ \E v \in Stored(call[t].item) :
       items' = IF Len(items) < Cap THEN <<v>> \o items ELSE <<>>
  /\ Answers(t, TRUE, NULL)

\* QueueMT::pop() calls Queue::get() (gque.h:146): both take from the head.  The
\* header has it otherwise, of the class it makes "thread-safe" too (gque.h:130).
Get(t) ==
  /\ call[t].op \in {"get", "pop"}
  /\ IF items # <<>>
     THEN items' = Tail(items) /\ Answers(t, TRUE, Head(items))
     ELSE UNCHANGED items /\ Answers(t, FALSE, NULL)

Ask(t) ==
  /\ call[t].op \in Readers
  /\ Answers(t, CASE call[t].op = "length" -> Len(items)
                  [] call[t].op = "available" -> Cap - Len(items)
                  [] call[t].op = "is_empty" -> items = <<>>
                  [] call[t].op = "is_full" -> Len(items) = Cap, NULL)
  /\ UNCHANGED items

\* The call of t takes effect.
TakesEffect(t) == /\ call[t] # NULL /\ ret[t] = NULL
                  /\ Put(t) \/ Push(t) \/ Get(t) \/ Ask(t)
                  /\ UNCHANGED call

Return(t) == /\ ret[t] # NULL
             /\ call' = [call EXCEPT ![t] = NULL]
             /\ ret' = [ret EXCEPT ![t] = NULL]
             /\ UNCHANGED items

Next == \E t \in Threads : Call(t) \/ TakesEffect(t) \/ Return(t)

Spec == Init /\ [][Next]_vars
=============================================================================
