-------------------------- MODULE CircularQueueSpec --------------------------
(***************************************************************************)
(* One gcl::Queue<T> object used by one thread: every call of its public   *)
(* interface that changes it, with the value the call returns.             *)
(*                                                                         *)
(* Three corners of push() and pop() leave the bounded deque the rest of   *)
(* the interface implements.  Corners says which of them the clients may   *)
(* drive the queue into, so that a run can show both what each corner does *)
(* and that nothing else goes wrong.                                       *)
(***************************************************************************)
EXTENDS CircularQueue, Sequences

CONSTANTS
  Items,        \* the values clients store
  Capacities,   \* the capacities clients pass to init()
  ItemSize,     \* sizeof(T)
  Ops,          \* the operations clients call
  Corners       \* the corners clients may reach, a subset of AllCorners

AllOps == {"init", "clear", "put", "get", "push", "pop", "dtor"}
AllCorners == {"push when full", "push below begin", "pop at begin"}

Value == Items \cup {Garbage}
Arguments == Items \cup Capacities \cup {NULL}

\* The blocks a queue of capacity c can have.
ControlBlock(c) ==
  [begin : Nat, end : Nat, head : Nat, tail : Nat, item_size : Nat,
   buf : [{HeaderSize + k * ItemSize : k \in 0..c} -> Value]]

\* Bound of the sizes: the slots of every capacity fit in an unsigned word.
\* The null pointer is neither an item nor a block nor a position.
ASSUME QueueAssumption ==
  /\ ItemSize \in Nat \ {0}
  /\ Capacities \subseteq Nat
  /\ \A c \in Capacities : HeaderSize + (c + 1) * ItemSize < UMAX
  /\ Ops \subseteq AllOps
  /\ Corners \subseteq AllCorners
  /\ NULL \notin Value /\ NULL \notin Nat
  /\ \A c \in Capacities : NULL \notin ControlBlock(c)

VARIABLES
  m_q,          \* the control block and its slots, NULL for a null pointer
  out,          \* the last call: its argument, what it returned
  fault         \* a write hit something that is not a slot: the run is over

vars == <<m_q, out, fault>>

Result(op, arg, ret, x) ==
  [op |-> op, arg |-> arg, ret |-> ret, item |-> x]

Init == /\ m_q = NULL
        /\ out = Result("ctor", NULL, TRUE, NULL)
        /\ fault = FALSE

\* The corner a call is about to hit, if any.
PushCorner ==
  IF m_q = NULL THEN {}
  ELSE (IF IsFull(m_q) THEN {"push when full"} ELSE {})
       \cup (IF m_q.head = m_q.begin /\ m_q.item_size > m_q.begin
             THEN {"push below begin"} ELSE {})

PopCorner ==
  IF CanPop(m_q) /\ m_q.tail = m_q.begin THEN {"pop at begin"} ELSE {}

\* Outside the slots nothing the code does is meaningful any more: a write
\* overwrites the control block or foreign memory, a read above the control
\* block (an offset that wrapped below zero) is far outside the allocation.
\* A read of the control block itself merely returns bytes nobody stored.
WriteFaults(o, x) == x # NULL /\ o \notin DOMAIN m_q.buf
ReadFaults(o) == o \notin DOMAIN m_q.buf /\ o >= m_q.begin

InitQueue(c) ==
  /\ "init" \in Ops /\ ~fault
  /\ m_q' = Initialise(m_q, c, ItemSize)
  /\ out' = Result("init", c, TRUE, NULL)
  /\ UNCHANGED fault

ClearQueue ==
  /\ "clear" \in Ops /\ ~fault
  /\ m_q' = Clear(m_q)
  /\ out' = Result("clear", NULL, TRUE, NULL)
  /\ UNCHANGED fault

\* The destructor; what is used afterwards is a new, empty object.
Destroy ==
  /\ "dtor" \in Ops /\ ~fault
  /\ m_q' = NULL
  /\ out' = Result("dtor", NULL, TRUE, NULL)
  /\ UNCHANGED fault

PutItem(x) ==
  /\ "put" \in Ops /\ ~fault
  /\ fault' = (CanPut(m_q) /\ WriteFaults(m_q.tail, x))
  /\ m_q' = IF fault' THEN m_q ELSE Put(m_q, x)
  /\ out' = Result("put", x, CanPut(m_q), NULL)

GetItem ==
  /\ "get" \in Ops /\ ~fault
  /\ fault' = (CanGet(m_q) /\ ReadFaults(m_q.head))
  /\ m_q' = IF fault' THEN m_q ELSE Get(m_q)
  /\ out' = Result("get", NULL, CanGet(m_q),
                   IF CanGet(m_q) THEN Load(m_q, m_q.head) ELSE NULL)

PushItem(x) ==
  /\ "push" \in Ops /\ ~fault /\ PushCorner \subseteq Corners
  /\ fault' = (CanPush(m_q) /\ WriteFaults(PushPos(m_q), x))
  /\ m_q' = IF fault' THEN m_q ELSE Push(m_q, x)
  /\ out' = Result("push", x, CanPush(m_q), NULL)

PopItem ==
  /\ "pop" \in Ops /\ ~fault /\ PopCorner \subseteq Corners
  /\ fault' = (CanPop(m_q) /\ ReadFaults(PopPos(m_q)))
  /\ m_q' = IF fault' THEN m_q ELSE Pop(m_q)
  /\ out' = Result("pop", NULL, CanPop(m_q),
                   IF CanPop(m_q) THEN Load(m_q, PopPos(m_q)) ELSE NULL)

Next == \/ \E x \in Items \cup {NULL} : PutItem(x) \/ PushItem(x)
        \/ GetItem \/ PopItem \/ ClearQueue \/ Destroy
        \/ \E c \in Capacities : InitQueue(c)

Spec == Init /\ [][Next]_vars

-----------------------------------------------------------------------------
(* Correctness.                                                            *)

\* The offsets at which the slots of q start.
SlotOffsets(q) ==
  {q.begin + k * q.item_size : k \in 0..Capacity(q)}

\* Types.
TypeOK ==
  /\ fault \in BOOLEAN
  /\ out \in [op : AllOps \cup {"ctor"},
              arg : Arguments,
              ret : BOOLEAN, item : Value \cup {NULL}]
  /\ m_q = NULL \/ \E c \in Capacities : m_q \in ControlBlock(c)

\* The shape of the control block that all offset arithmetic relies on: head
\* and tail always point at one of the capacity+1 slots, the last of which
\* ends at end, so that no call reads or writes anything but a slot.
RingShape ==
  /\ ~fault
  /\ m_q # NULL =>
       /\ m_q.begin = HeaderSize /\ m_q.item_size = ItemSize
       /\ m_q.end = HeaderSize + (Capacity(m_q) + 1) * ItemSize
       /\ Capacity(m_q) \in Capacities \ {0}
       /\ m_q.head \in SlotOffsets(m_q) /\ m_q.tail \in SlotOffsets(m_q)

\* Every state-changing call returns and does what the bounded deque does:
\* items come out in the order the interface promises, none is lost,
\* duplicated or overwritten, whatever mix of calls moved head and tail
\* round the ring.
Deque == INSTANCE BoundedDeque WITH
           items <- Contents(m_q), cap <- Capacity(m_q)

ImplementsDeque == Deque!Spec

\* The accessors agree with each other and with the items: length() and
\* available() add up to the capacity, is_full() and is_empty() are its two
\* ends, first() and last() point at the end items wherever the ring wraps.
AccessorsAgree ==
  LET n == Length(m_q)
  IN  /\ n + Available(m_q) = Capacity(m_q)
      /\ IsFull(m_q) <=> Available(m_q) = 0
      /\ IsEmpty(m_q) <=> n = 0
      /\ n > 0 => /\ Peek(m_q) = Nth(m_q, 1)
                  /\ Last(m_q) = Nth(m_q, n)

\* The iteration idiom of the samples: a loop from peek() by peek_next() visits
\* the items in order, each once, and then gets null; a loop from last() by
\* peek_prev() visits the same items backwards and ends as well.
IterationAgrees ==
  LET n == Length(m_q)
      at(i) == IF i \in 1..n THEN Nth(m_q, i) ELSE NULL
  IN  /\ Peek(m_q) = at(1) /\ Last(m_q) = at(n)
      /\ \A i \in 1..n : /\ PeekNext(m_q, at(i)) = at(i + 1)
                        /\ PeekPrev(m_q, at(i)) = at(i - 1)
=============================================================================
