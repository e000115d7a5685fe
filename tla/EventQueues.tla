------------------------------ MODULE EventQueues ------------------------------
(***************************************************************************)
(* The two queues of gcl::EventEmitter (include/gevent.h, src/gevent.cpp)  *)
(* and what on(), once() and off() do to them, as operators on the queue   *)
(* values: the state of the emitter, for one thread (EventEmitter) and for *)
(* many (EventEmitterMT).                                                  *)
(*                                                                         *)
(* The slots of m_names hold event names, those of m_listeners event       *)
(* blocks.  A block points at its name: the pointer is the offset of a     *)
(* slot of m_names.  Names are never taken out of m_names; an unused slot  *)
(* holds the empty name, and is found and used again.  A block with a null *)
(* name has expired; expired blocks are dropped only when on() needs room. *)
(***************************************************************************)
EXTENDS CircularQueue, Sequences, Subsequences

CONSTANTS
  EventNames,   \* the names clients use, the empty one perhaps among them
  TooLong,      \* the names longer than EVENT_NAME_LENGTH_MAX
  Empty,        \* the empty name
  Listeners,    \* the listeners clients register, NULL for a null one
  Uses,         \* what they register: name, listener, once or not
  NameSize,     \* sizeof(event_name_t)
  BlockSize,    \* sizeof(event_block)
  MaxNames,     \* the first argument of the constructor
  MaxListeners  \* the second one

\* What slots hold, and the control blocks of queues with such slots.
NameValues == EventNames \cup {Empty, Garbage}
BlockValues == [name : Nat \cup {NULL}, listener : Listeners, once : BOOLEAN]
               \cup {Garbage}
ControlBlocks(cap, size, values) ==
  [begin : Nat, end : Nat, head : Nat, tail : Nat, item_size : Nat,
   buf : [{HeaderSize + k * size : k \in 0..cap} -> values]]

\* Sizes fit in words; a null pointer is no name, block, position or queue.
ASSUME EmitterAssumption ==
  /\ Uses \subseteq EventNames \X Listeners \X BOOLEAN
  /\ TooLong \subseteq EventNames \ {Empty}
  /\ MaxNames \in Nat /\ MaxListeners \in Nat
  /\ NameSize \in Nat \ {0} /\ BlockSize \in Nat \ {0}
  /\ HeaderSize + (MaxNames + 1) * NameSize < UMAX
  /\ HeaderSize + (MaxListeners + 1) * BlockSize < UMAX
  /\ NULL \notin Nat /\ NULL \notin NameValues /\ NULL \notin BlockValues
  /\ NULL \notin ControlBlocks(MaxNames, NameSize, NameValues)
  /\ NULL \notin ControlBlocks(MaxListeners, BlockSize, BlockValues)

VARIABLES
  m_names,      \* the queue of names
  m_listeners,  \* the queue of event blocks
  fault         \* trimming from the tail has read far outside a queue

Block(name, l, once) == [name |-> name, listener |-> l, once |-> once]

-----------------------------------------------------------------------------
(* Names.                                                                  *)

\* MUTANT: the place in the queue instead of the slot.
FindNameIndex(q, n) ==
  LET hits == {i \in 1..Length(q) : Load(q, Nth(q, i)) = n}
  IN  IF hits = {} THEN NULL ELSE CHOOSE i \in hits : \A j \in hits : i <= j

\* The first slot of q, in queue order, that holds n; NULL if none does.
FindName(q, n) ==
  LET hits == {i \in 1..Length(q) : Load(q, Nth(q, i)) = n}
  IN  IF hits = {} THEN NULL
      ELSE Nth(q, CHOOSE i \in hits : \A j \in hits : i <= j)

\* MUTANT: a known name gets a second slot when one is unused.
RegisterNameTwice(q, n) ==
  IF FindName(q, Empty) # NULL
  THEN [q EXCEPT !.buf = Store(q, FindName(q, Empty), n)]
  ELSE IF FindName(q, n) # NULL THEN q
  ELSE Put(q, n)

\* MUTANT: slots of names that were given up are not used again.
RegisterNameAtEnd(q, n) == IF FindName(q, n) # NULL THEN q ELSE Put(q, n)

\* The names with n in them: n's own slot, else an unused one, else a new
\* one at the end, if there is room.
RegisterName(q, n) ==
  IF FindName(q, n) # NULL THEN q
  ELSE IF FindName(q, Empty) # NULL
       THEN [q EXCEPT !.buf = Store(q, FindName(q, Empty), n)]
  ELSE Put(q, n)

UnregisterName(q, n) ==
  IF FindName(q, n) = NULL THEN q
  ELSE [q EXCEPT !.buf = Store(q, FindName(q, n), Empty)]

-----------------------------------------------------------------------------
(* Blocks.                                                                 *)

Expired(eb) == eb.name = NULL

\* The blocks of q, in no order.
BlocksOf(q) == ItemsOf(Contents(q))

\* length() times: take the first block, put it back unless it is dropped.
Rotate(q, dropped) ==
  LET after[i \in 0..Length(q)] ==
        IF i = 0 THEN q
        ELSE LET r == after[i - 1]
                 eb == Load(r, r.head)
             IN  IF eb \in dropped THEN Get(r) ELSE Put(Get(r), eb)
  IN  after[Length(q)]

\* The loops of __squeez_listeners() that trim expired blocks from the head,
\* and from the tail.  A queue of capacity c needs at most c rounds.
TrimHead(q) ==
  LET after[i \in 0..Length(q)] ==
        IF i = 0 THEN q
        ELSE LET r == after[i - 1]
             IN  IF Peek(r) # NULL /\ Expired(Load(r, Peek(r))) THEN Get(r)
                 ELSE r
  IN  after[Length(q)]

\* pop() does not wrap: with tail at begin the last block is the one below
\* end, but pop() leaves tail one block below begin, and the next last() is
\* read from there.  That is the fault; the queue means nothing after it.
TrimsTail(r) == Last(r) # NULL /\ Expired(Load(r, Last(r)))

TrimTail(q) ==
  LET after[i \in 0..Length(q)] ==
        IF i = 0 THEN [q |-> q, fault |-> FALSE]
        ELSE LET r == after[i - 1]
             IN  IF r.fault \/ ~TrimsTail(r.q) THEN r
                 ELSE IF r.q.tail = r.q.begin THEN [r EXCEPT !.fault = TRUE]
                 ELSE [r EXCEPT !.q = Pop(r.q)]
  IN  after[Length(q)]

Squeeze(q) ==
  LET r == TrimTail(TrimHead(q))
  IN  [r EXCEPT !.q = IF r.fault THEN r.q
                      ELSE Rotate(r.q, {eb \in BlocksOf(r.q) : Expired(eb)})]

-----------------------------------------------------------------------------
(* Calls: what each leaves in the queues and returns, and whether it has   *)
(* read outside a queue.                                                   *)

Outcome(names, q, ret, faults) ==
  [names |-> names, q |-> q, ret |-> ret, fault |-> faults]

\* _on(): on() without, once() with the once mark.  A name that got its slot
\* keeps it when the listener finds no room.
Registered(names, q, n, l, once) ==
  LET ns == RegisterName(names, n)
      name == FindName(ns, n)
      s == IF Available(q) <= 0 THEN Squeeze(q) ELSE [q |-> q, fault |-> FALSE]
      room == Available(s.q) > 0
  IN  IF n \in TooLong \/ name = NULL THEN Outcome(names, q, FALSE, FALSE)
      ELSE IF s.fault THEN Outcome(ns, s.q, FALSE, TRUE)
      ELSE Outcome(ns, IF room THEN Put(s.q, Block(name, l, once)) ELSE s.q,
                   room, FALSE)

\* off(): drops the blocks of this name and listener; the name goes when no
\* block of it is left.
TurnedOff(names, q, n, l) ==
  LET name == FindName(names, n)
      r == Rotate(q, {eb \in BlocksOf(q) : eb.name = name /\ eb.listener = l})
      left == \E eb \in BlocksOf(r) : eb.name = name
  IN  IF name = NULL THEN Outcome(names, q, FALSE, FALSE)
      ELSE Outcome(IF left THEN names ELSE UnregisterName(names, n), r, TRUE, FALSE)
=============================================================================
