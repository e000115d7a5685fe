---------------------------- MODULE CircularQueue ----------------------------
(***************************************************************************)
(* The operations of gcl::CircularQueue (include/gque.h, src/gque.cpp) as  *)
(* operators on a queue value.                                             *)
(*                                                                         *)
(* A queue value is NULL (the null m_q: a queue of capacity zero) or a     *)
(* record with the fields of the control block cque_t.  Positions are BYTE *)
(* OFFSETS from the start of the allocation, held in unsigned words: the   *)
(* control block occupies 0 .. HeaderSize-1 and the item slots follow it.  *)
(* The bytes of the slots are abstracted to one value per slot, in buf.    *)
(* One slot always stays free, so capacity c takes c+1 slots.              *)
(*                                                                         *)
(* The module has no variables: CircularQueueSpec makes a state machine of *)
(* it, QueueMT and EventEmitter use it for the queues they contain.        *)
(***************************************************************************)
EXTENDS Integers

CONSTANTS
  HeaderSize,   \* sizeof(cque_t): the offset of the first slot
  UMAX,         \* number of values of an unsigned word (2^32 in the builds)
  NULL,         \* the null pointer
  Garbage       \* what is read where no item was ever stored

ASSUME HeaderAssumption == /\ HeaderSize \in Nat \ {0}
                           /\ UMAX \in Nat \ {0}
                           /\ HeaderSize < UMAX

\* Unsigned wrap-around of the result of one addition or one subtraction.
U(x) == IF x < 0 THEN x + UMAX ELSE IF x >= UMAX THEN x - UMAX ELSE x

-----------------------------------------------------------------------------
(* Accessors.                                                              *)

Capacity(q) == IF q = NULL THEN 0
               ELSE U((U(q.end - q.begin) \div q.item_size) - 1)

IsEmpty(q) == q = NULL \/ q.head = q.tail

\* The position tail moves to when an item is appended.
NextPos(q) == LET npos == U(q.tail + q.item_size)
              IN  IF npos = q.end THEN q.begin ELSE npos

IsFull(q) == q = NULL \/ NextPos(q) = q.head

Length(q) ==
  IF q = NULL THEN 0
  ELSE (IF q.head <= q.tail THEN q.tail - q.head
        ELSE U((q.end - q.head) + (q.tail - q.begin))) \div q.item_size

Available(q) ==
  IF q = NULL THEN 0
  ELSE U(((IF q.head > q.tail THEN q.head - q.tail
           ELSE U((q.end - q.tail) + (q.head - q.begin))) \div q.item_size) - 1)

\* What a read at offset o returns: the stored item, or whatever lies there.
Load(q, o) == IF o \in DOMAIN q.buf THEN q.buf[o] ELSE Garbage

\* memcpy of item x to offset o; a null x copies nothing and keeps the bytes.
Store(q, o, x) == IF x = NULL THEN q.buf ELSE [q.buf EXCEPT ![o] = x]

-----------------------------------------------------------------------------
(* Peeking and iteration: positions stand for the pointers the code hands  *)
(* out, NULL for the null pointer.                                         *)

Peek(q) == IF IsEmpty(q) THEN NULL ELSE q.head

\* MUTANT: the last item is looked for below begin.
LastNoWrap(q) == IF IsEmpty(q) THEN NULL ELSE U(q.tail - q.item_size)

Last(q) ==
  IF IsEmpty(q) THEN NULL
  ELSE U((IF q.tail = q.begin THEN q.end ELSE q.tail) - q.item_size)

\* MUTANT: iteration stops at the end of the block.
PeekNextNoWrap(q, p) ==
  IF IsEmpty(q) THEN NULL
  ELSE IF p = NULL THEN q.head
  ELSE IF p + q.item_size \in {q.end, q.tail} THEN NULL
  ELSE p + q.item_size

PeekNext(q, p) ==
  LET npos == IF p + q.item_size = q.end THEN q.begin ELSE p + q.item_size
  IN  IF IsEmpty(q) THEN NULL
      ELSE IF p = NULL THEN q.head
      ELSE IF p < q.begin \/ p >= q.end \/ npos = q.tail THEN NULL
      ELSE npos

PeekPrev(q, p) ==
  IF IsEmpty(q) THEN NULL
  ELSE IF p = NULL THEN U(q.tail - q.item_size)
  ELSE IF p < q.begin \/ p >= q.end \/ p = q.head THEN NULL
  ELSE (IF p = q.begin THEN q.end ELSE p) - q.item_size

-----------------------------------------------------------------------------
(* Operations that change the queue: the new queue value, and the position *)
(* each one reads or writes.                                               *)

\* MUTANT: no slot is left free for telling full from empty.
NewQueueNoSpare(c, item_size) ==
  [begin |-> HeaderSize, end |-> HeaderSize + c * item_size,
   head |-> HeaderSize, tail |-> HeaderSize, item_size |-> item_size,
   buf |-> [o \in {HeaderSize + k * item_size : k \in 0..c-1} |-> Garbage]]

\* An empty control block for capacity c; the sizes wrap like unsigned words.
NewQueue(c, item_size) ==
  LET bytes == (((c + 1) % UMAX) * item_size) % UMAX
  IN  [begin |-> HeaderSize, end |-> U(HeaderSize + bytes),
       head |-> HeaderSize, tail |-> HeaderSize, item_size |-> item_size,
       buf |-> [o \in {HeaderSize + k * item_size : k \in 0..c} |-> Garbage]]

Clear(q) == IF q = NULL THEN q
            ELSE [q EXCEPT !.head = q.begin, !.tail = q.begin]

\* init(): an equal capacity only clears, zero frees the block, anything else
\* allocates a new block (the old one is not freed).
Initialise(q, c, item_size) ==
  IF Capacity(q) = c THEN Clear(q)
  ELSE IF c = 0 THEN NULL
  ELSE NewQueue(c, item_size)

\* MUTANT: put() overwrites the first item of a full queue.
CanPutAlways(q) == q # NULL

CanPut(q) == ~IsFull(q)

Put(q, x) == IF ~CanPut(q) THEN q
             ELSE [q EXCEPT !.buf = Store(q, q.tail, x), !.tail = NextPos(q)]

CanGet(q) == ~IsEmpty(q)

\* MUTANT: head runs past the last slot.
GetNoWrap(q) == IF ~CanGet(q) THEN q
                ELSE [q EXCEPT !.head = U(q.head + q.item_size)]

Get(q) ==
  LET npos == U(q.head + q.item_size)
  IN  IF ~CanGet(q) THEN q
      ELSE [q EXCEPT !.head = IF npos = q.end THEN q.begin ELSE npos]

\* The position push() writes: one item below head, or the last slot.
PushPos(q) == LET pos == U(q.head - q.item_size)
              IN  IF pos < q.begin THEN U(q.end - q.item_size) ELSE pos

\* The test the code labels "full" compares the new position with head, not
\* with tail.
CanPush(q) == q # NULL /\ PushPos(q) # q.head

Push(q, x) == IF ~CanPush(q) THEN q
              ELSE [q EXCEPT !.buf = Store(q, PushPos(q), x),
                             !.head = PushPos(q)]

\* The position pop() reads and moves tail to: it does not wrap at begin.
PopPos(q) == U(q.tail - q.item_size)

CanPop(q) == ~IsEmpty(q)

Pop(q) == IF ~CanPop(q) THEN q ELSE [q EXCEPT !.tail = PopPos(q)]

-----------------------------------------------------------------------------
(* What a queue value means: the items from head to tail, in order.        *)

\* Offset of the i-th item from head.
Nth(q, i) == LET o == q.head + (i - 1) * q.item_size
             IN  IF o < q.end THEN o ELSE o - (q.end - q.begin)

Contents(q) == [i \in 1..Length(q) |-> Load(q, Nth(q, i))]
=============================================================================
