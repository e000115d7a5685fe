------------------------- MODULE CircularQueue_proofs -------------------------
(***************************************************************************)
(* Proofs about CircularQueueSpec for every item size, every set of        *)
(* capacities and every width of the unsigned word, as long as clients     *)
(* stay out of the three corners of push() and pop().                      *)
(*                                                                         *)
(* Slots are numbered: At(k) is the offset of slot k.  RingOf(q, c, h, t)  *)
(* says that q is a queue of capacity c whose head is slot h and whose     *)
(* tail is slot t.  That such c, h and t exist is the inductive invariant; *)
(* every operation is first described by what it does to h and t, which    *)
(* takes the words and their wrap-around out of the rest of the argument.  *)
(***************************************************************************)
EXTENDS CircularQueueSpec, SequenceTheorems, TLAPS

At(k) == HeaderSize + k * ItemSize

Slots(c) == {At(k) : k \in 0..c}

RingOf(q, c, h, t) ==
  /\ q \in ControlBlock(c)
  /\ q.buf \in [Slots(c) -> Value]
  /\ q.begin = At(0) /\ q.end = At(c + 1)
  /\ q.head = At(h) /\ q.tail = At(t)
  /\ q.item_size = ItemSize

IsRing(q) == \E c \in Capacities \ {0} : \E h, t \in 0..c : RingOf(q, c, h, t)

Outcome == [op : AllOps \cup {"ctor"}, arg : Arguments, ret : BOOLEAN,
            item : Value \cup {NULL}]

\* The inductive invariant.
RingInv == /\ fault = FALSE
           /\ out \in Outcome
           /\ m_q = NULL \/ IsRing(m_q)

\* The slot after, and the slot before, slot k of a queue of capacity c; the
\* i-th slot from slot h; the number of slots from h up to t.
Succ(k, c) == IF k = c THEN 0 ELSE k + 1
Pred(k, c) == IF k = 0 THEN c ELSE k - 1
Slot(h, i, c) == IF h + i - 1 <= c THEN h + i - 1 ELSE h + i - 1 - (c + 1)
Count(h, t, c) == IF h <= t THEN t - h ELSE c + 1 - h + t

-----------------------------------------------------------------------------
(* Arithmetic of slots.                                                    *)

LEMMA AtType ==
  ASSUME NEW k \in Nat
  PROVE  /\ At(k) \in Nat /\ At(k) >= HeaderSize
         /\ At(k) + ItemSize = At(k + 1)
<1>1. k * ItemSize \in Nat /\ k * ItemSize + ItemSize = (k + 1) * ItemSize
  BY QueueAssumption
<1> QED BY <1>1, HeaderAssumption, QueueAssumption DEF At

LEMMA AtLess ==
  ASSUME NEW i \in Nat, NEW j \in Nat, i < j
  PROVE  At(i) + ItemSize <= At(j) /\ At(i) < At(j)
<1>1. i * ItemSize + ItemSize <= j * ItemSize
  BY QueueAssumption
<1> QED BY <1>1, HeaderAssumption, QueueAssumption DEF At

\* Different slots have different offsets, in the same order.
LEMMA AtOrder ==
  ASSUME NEW i \in Nat, NEW j \in Nat
  PROVE  /\ At(i) = At(j) <=> i = j
         /\ At(i) < At(j) <=> i < j
         /\ At(i) <= At(j) <=> i <= j
<1>1. CASE i < j  BY <1>1, AtLess, AtType
<1>2. CASE j < i  BY <1>2, AtLess, AtType
<1>3. CASE i = j  BY <1>3, AtType
<1> QED BY <1>1, <1>2, <1>3

\* The distance between two slots, in bytes and in items.
LEMMA AtDistance ==
  ASSUME NEW i \in Nat, NEW j \in Nat, i <= j
  PROVE  /\ At(j) - At(i) = (j - i) * ItemSize
         /\ (At(j) - At(i)) \div ItemSize = j - i
<1>1. j * ItemSize - i * ItemSize = (j - i) * ItemSize
  BY QueueAssumption
<1>2. ((j - i) * ItemSize) \div ItemSize = j - i
  BY QueueAssumption
<1> QED BY <1>1, <1>2, HeaderAssumption, QueueAssumption DEF At

\* All slots, and the end, fit in an unsigned word.
LEMMA AtFits ==
  ASSUME NEW c \in Capacities, NEW k \in 0..(c + 1)
  PROVE  /\ At(k) \in 0..(UMAX - 1) /\ U(At(k)) = At(k)
         /\ c \in Nat /\ k <= At(k)
<1>1. c \in Nat /\ k \in Nat /\ At(c + 1) < UMAX
  BY QueueAssumption DEF At
<1>2. At(k) <= At(c + 1)  BY <1>1, AtOrder
<1>3. k <= At(k)
  <2>1. k <= k * ItemSize  BY <1>1, QueueAssumption
  <2> QED BY <2>1, <1>1, HeaderAssumption, QueueAssumption DEF At
<1> QED BY <1>1, <1>2, <1>3, AtType, HeaderAssumption DEF U

LEMMA SlotType ==
  ASSUME NEW c \in Nat \ {0}, NEW h \in 0..c, NEW t \in 0..c
  PROVE  /\ Succ(t, c) \in 0..c /\ Pred(h, c) \in 0..c
         /\ Count(h, t, c) \in 0..c
         /\ \A i \in 1..(c + 1) : Slot(h, i, c) \in 0..c
BY DEF Succ, Pred, Count, Slot

-----------------------------------------------------------------------------
(* What the operators of CircularQueue compute on a ring.                  *)

\* capacity() is the capacity the queue was made with.
LEMMA CapacityOfRing ==
  ASSUME NEW q, NEW c \in Capacities \ {0}, NEW h \in 0..c, NEW t \in 0..c,
         RingOf(q, c, h, t)
  PROVE  q # NULL /\ Capacity(q) = c
<1>1. q # NULL  BY QueueAssumption DEF RingOf
<1>2. c \in Nat  BY QueueAssumption
<1>3. At(c + 1) - At(0) \in 0..(UMAX - 1)
  <2>1. c + 1 \in 0..(c + 1) /\ 0 \in 0..(c + 1) /\ c + 1 \in Nat /\ 0 < c + 1
    BY <1>2
  <2>2. At(c + 1) \in 0..(UMAX - 1) /\ At(0) \in 0..(UMAX - 1)
    BY <2>1, AtFits
  <2>3. At(0) < At(c + 1)
    BY <2>1, AtLess
  <2> QED BY <2>2, <2>3, HeaderAssumption
<1>4. U(q.end - q.begin) = At(c + 1) - At(0)
  BY <1>3, HeaderAssumption DEF RingOf, U
<1>5. U(q.end - q.begin) \div q.item_size = c + 1
  BY <1>2, <1>4, AtDistance DEF RingOf
<1>6. U(c + 1 - 1) = c
  <2>1. c \in 0..(c + 1) /\ c + 1 - 1 = c  BY <1>2
  <2>2. c <= At(c) /\ At(c) < UMAX
    BY <1>2, <2>1, AtFits, AtType, HeaderAssumption
  <2> QED BY <1>2, <2>1, <2>2, AtType, HeaderAssumption DEF U
<1> QED BY <1>1, <1>2, <1>5, <1>6 DEF Capacity

\* Appending moves tail to the next slot.
LEMMA NextPosOfRing ==
  ASSUME NEW q, NEW c \in Capacities \ {0}, NEW h \in 0..c, NEW t \in 0..c,
         RingOf(q, c, h, t)
  PROVE  NextPos(q) = At(Succ(t, c))
<1>1. c \in Nat /\ t \in Nat  BY QueueAssumption
<1>2. U(q.tail + q.item_size) = At(t + 1)
  BY <1>1, AtType, AtFits DEF RingOf
<1>3. At(t + 1) = At(c + 1) <=> t = c
  BY <1>1, AtOrder
<1> QED BY <1>1, <1>2, <1>3 DEF NextPos, Succ, RingOf

\* Prepending moves head to the slot before, unless an item reaches below 0.
LEMMA PushPosOfRing ==
  ASSUME NEW q, NEW c \in Capacities \ {0}, NEW h \in 0..c, NEW t \in 0..c,
         RingOf(q, c, h, t), h = 0 => ItemSize <= HeaderSize
  PROVE  PushPos(q) = At(Pred(h, c))
<1>1. c \in Nat /\ h \in Nat  BY QueueAssumption
<1>2. U(q.end - q.item_size) = At(c)
  <2>1. At(c) + ItemSize = At(c + 1) /\ At(c) \in Nat  BY <1>1, AtType
  <2>2. q.end - q.item_size = At(c)
    BY <2>1, QueueAssumption DEF RingOf
  <2> QED BY <1>1, <2>2, AtFits
<1>3. CASE h = 0
  <2>1. U(q.head - q.item_size) = HeaderSize - ItemSize
    BY <1>3, HeaderAssumption, QueueAssumption DEF RingOf, At, U
  <2>2. U(q.head - q.item_size) < q.begin
    BY <2>1, HeaderAssumption, QueueAssumption DEF RingOf, At
  <2> QED BY <2>2, <1>2, <1>3 DEF PushPos, Pred
<1>4. CASE h # 0
  <2>1. h - 1 \in 0..c /\ (h - 1) + 1 = h  BY <1>1, <1>4
  <2>2. At(h - 1) + ItemSize = At(h)  BY <2>1, AtType
  <2>3. q.head - q.item_size = At(h - 1)
    BY <2>1, <2>2, AtType, QueueAssumption DEF RingOf
  <2>4. U(q.head - q.item_size) = At(h - 1)
    BY <1>1, <2>1, <2>3, AtFits
  <2>5. ~(At(h - 1) < At(0))
    BY <2>1, AtOrder
  <2> QED BY <2>4, <2>5, <1>4 DEF PushPos, Pred, RingOf
<1> QED BY <1>3, <1>4

\* Removing from the back moves tail to the slot before, unless it is slot 0.
LEMMA PopPosOfRing ==
  ASSUME NEW q, NEW c \in Capacities \ {0}, NEW h \in 0..c, NEW t \in 0..c,
         RingOf(q, c, h, t), t # 0
  PROVE  PopPos(q) = At(t - 1)
<1>1. t - 1 \in 0..c /\ (t - 1) + 1 = t /\ t \in Nat  BY QueueAssumption
<1>2. At(t - 1) + ItemSize = At(t)  BY <1>1, AtType
<1>3. q.tail - q.item_size = At(t - 1)
  BY <1>1, <1>2, AtType, QueueAssumption DEF RingOf
<1> QED BY <1>1, <1>3, AtFits, QueueAssumption DEF PopPos

\* Removing from the front moves head to the next slot.
LEMMA GetOfRing ==
  ASSUME NEW q, NEW c \in Capacities \ {0}, NEW h \in 0..c, NEW t \in 0..c,
         RingOf(q, c, h, t), h # t
  PROVE  RingOf(Get(q), c, Succ(h, c), t) /\ Get(q).buf = q.buf
<1>1. c \in Nat /\ h \in Nat /\ t \in Nat /\ q # NULL
  BY QueueAssumption, CapacityOfRing
<1>2. ~IsEmpty(q)  BY <1>1, AtOrder DEF IsEmpty, RingOf
<1>3. U(q.head + q.item_size) = At(h + 1)
  BY <1>1, AtType, AtFits DEF RingOf
<1>4. At(h + 1) = At(c + 1) <=> h = c
  BY <1>1, AtOrder
<1>5. Get(q) = [q EXCEPT !.head = At(Succ(h, c))]
  BY <1>1, <1>2, <1>3, <1>4 DEF Get, CanGet, Succ, RingOf
<1>6. Succ(h, c) \in Nat  BY <1>1 DEF Succ
<1>7. At(Succ(h, c)) \in Nat  BY <1>6, AtType
<1> QED BY <1>5, <1>7 DEF RingOf, ControlBlock

\* What the item x leaves behind in the slot it is stored to: a null item
\* keeps what was there.
Kept(q, o, x) == IF x = NULL THEN q.buf[o] ELSE x

LEMMA StoreOfRing ==
  ASSUME NEW q, NEW c \in Capacities \ {0}, NEW h \in 0..c, NEW t \in 0..c,
         RingOf(q, c, h, t), NEW k \in 0..c, NEW x \in Items \cup {NULL}
  PROVE  /\ At(k) \in DOMAIN q.buf /\ Kept(q, At(k), x) \in Value
         /\ Store(q, At(k), x) \in [Slots(c) -> Value]
         /\ \A j \in 0..c : Store(q, At(k), x)[At(j)] =
                            IF j = k THEN Kept(q, At(k), x) ELSE q.buf[At(j)]
<1>1. c \in Nat  BY QueueAssumption
<1>2. At(k) \in Slots(c) /\ \A j \in 0..c : At(j) \in Slots(c)
  BY DEF Slots
<1>3. \A j \in 0..c : At(j) = At(k) <=> j = k
  BY <1>1, AtOrder
<1>4. q.buf \in [Slots(c) -> Value]
  BY DEF RingOf
<1>5. x # NULL => x \in Value
  BY DEF Value
<1> QED BY <1>2, <1>3, <1>4, <1>5 DEF Store, Kept

\* put() stores behind the last item and moves tail; it refuses exactly when
\* the next slot is head.
LEMMA PutOfRing ==
  ASSUME NEW q, NEW c \in Capacities \ {0}, NEW h \in 0..c, NEW t \in 0..c,
         RingOf(q, c, h, t), NEW x \in Items \cup {NULL}
  PROVE  /\ CanPut(q) <=> Succ(t, c) # h
         /\ CanPut(q) => /\ RingOf(Put(q, x), c, h, Succ(t, c))
                         /\ Put(q, x).buf = Store(q, At(t), x)
<1>1. c \in Nat /\ q # NULL /\ NextPos(q) = At(Succ(t, c))
  BY QueueAssumption, CapacityOfRing, NextPosOfRing
<1>2. Succ(t, c) \in 0..c  BY <1>1, SlotType
<1>3. CanPut(q) <=> Succ(t, c) # h
  BY <1>1, <1>2, AtOrder DEF CanPut, IsFull, RingOf
<1>4. Store(q, At(t), x) \in [Slots(c) -> Value]
  BY StoreOfRing
<1>5. At(Succ(t, c)) \in Nat  BY <1>2, AtType
<1>6. ASSUME CanPut(q)
      PROVE  Put(q, x) = [q EXCEPT !.buf = Store(q, At(t), x),
                                   !.tail = At(Succ(t, c))]
  BY <1>1, <1>6 DEF Put, RingOf
<1> QED BY <1>3, <1>4, <1>5, <1>6 DEF RingOf, ControlBlock, Slots, At

\* push() stores in front of head and moves head there, full or not.
LEMMA PushOfRing ==
  ASSUME NEW q, NEW c \in Capacities \ {0}, NEW h \in 0..c, NEW t \in 0..c,
         RingOf(q, c, h, t), NEW x \in Items \cup {NULL},
         h = 0 => ItemSize <= HeaderSize
  PROVE  /\ CanPush(q) /\ PushPos(q) = At(Pred(h, c))
         /\ RingOf(Push(q, x), c, Pred(h, c), t)
         /\ Push(q, x).buf = Store(q, At(Pred(h, c)), x)
<1>1. c \in Nat \ {0} /\ q # NULL /\ PushPos(q) = At(Pred(h, c))
  BY QueueAssumption, CapacityOfRing, PushPosOfRing
<1>2. Pred(h, c) \in 0..c /\ Pred(h, c) # h
  BY <1>1 DEF Pred
<1>3. CanPush(q)
  BY <1>1, <1>2, AtOrder DEF CanPush, RingOf
<1>4. Store(q, At(Pred(h, c)), x) \in [Slots(c) -> Value]
  BY <1>2, StoreOfRing
<1>5. At(Pred(h, c)) \in Nat  BY <1>2, AtType
<1>6. Push(q, x) = [q EXCEPT !.buf = Store(q, At(Pred(h, c)), x),
                             !.head = At(Pred(h, c))]
  BY <1>1, <1>3 DEF Push
<1> QED BY <1>1, <1>3, <1>4, <1>5, <1>6 DEF RingOf, ControlBlock, Slots, At

\* pop() moves tail back; tail must not be at slot 0.
LEMMA PopOfRing ==
  ASSUME NEW q, NEW c \in Capacities \ {0}, NEW h \in 0..c, NEW t \in 0..c,
         RingOf(q, c, h, t), h # t, t # 0
  PROVE  /\ CanPop(q) /\ PopPos(q) = At(t - 1)
         /\ RingOf(Pop(q), c, h, t - 1) /\ Pop(q).buf = q.buf
<1>1. c \in Nat /\ t - 1 \in 0..c
  BY QueueAssumption
<1>a. q # NULL /\ PopPos(q) = At(t - 1)
  BY CapacityOfRing, PopPosOfRing
<1>2. CanPop(q)
  BY <1>1, <1>a, AtOrder DEF CanPop, IsEmpty, RingOf
<1>3. Pop(q) = [q EXCEPT !.tail = At(t - 1)]
  BY <1>a, <1>2 DEF Pop
<1>4. At(t - 1) \in Nat  BY <1>1, AtType
<1> QED BY <1>1, <1>a, <1>2, <1>3, <1>4 DEF RingOf, ControlBlock

\* clear() and a new block put head and tail at slot 0.
LEMMA ClearOfRing ==
  ASSUME NEW q, NEW c \in Capacities \ {0}, NEW h \in 0..c, NEW t \in 0..c,
         RingOf(q, c, h, t)
  PROVE  RingOf(Clear(q), c, 0, 0)
<1>1. q # NULL /\ At(0) \in Nat
  BY CapacityOfRing, AtType
<1> QED BY <1>1 DEF Clear, RingOf, ControlBlock

LEMMA NewQueueIsRing ==
  ASSUME NEW c \in Capacities \ {0}
  PROVE  RingOf(NewQueue(c, ItemSize), c, 0, 0)
<1>1. c \in Nat /\ c + 1 < UMAX /\ At(c + 1) < UMAX
  <2>1. c \in Nat  BY QueueAssumption
  <2>2. c + 1 <= At(c + 1) /\ At(c + 1) < UMAX
    BY <2>1, AtFits, AtType, HeaderAssumption
  <2> QED BY <2>1, <2>2, AtType, HeaderAssumption
<1>2. (c + 1) * ItemSize \in Nat /\ (c + 1) * ItemSize < UMAX
  BY <1>1, HeaderAssumption, QueueAssumption DEF At
<1>3. (((c + 1) % UMAX) * ItemSize) % UMAX = (c + 1) * ItemSize
  <2>1. (c + 1) % UMAX = c + 1
    BY <1>1, HeaderAssumption
  <2>2. ((c + 1) * ItemSize) % UMAX = (c + 1) * ItemSize
    BY <1>2, HeaderAssumption
  <2> QED BY <2>1, <2>2, Zenon
<1>4. U(HeaderSize + ((((c + 1) % UMAX) * ItemSize) % UMAX)) = At(c + 1)
  <2>1. HeaderSize + ((((c + 1) % UMAX) * ItemSize) % UMAX) = At(c + 1)
    BY <1>3, Zenon DEF At
  <2>2. U(At(c + 1)) = At(c + 1)
    BY <1>1, AtFits
  <2> QED BY <2>1, <2>2, Zenon
<1>5. At(c + 1) \in Nat /\ At(0) = HeaderSize /\ At(0) \in Nat
  BY <1>1, AtType, HeaderAssumption, QueueAssumption DEF At
<1> DEFINE q == NewQueue(c, ItemSize)
           buf == [o \in Slots(c) |-> Garbage]
<1>6. buf \in [Slots(c) -> Value]
  BY DEF Value
<1>7. Slots(c) = {HeaderSize + k * ItemSize : k \in 0..c}
  BY DEF Slots, At
<1>8. q = [begin |-> At(0), end |-> At(c + 1), head |-> At(0), tail |-> At(0),
           item_size |-> ItemSize, buf |-> buf]
  BY <1>4, <1>5, <1>7, Zenon DEF NewQueue
<1> SUFFICES RingOf(q, c, 0, 0)  OBVIOUS
<1> HIDE DEF buf, q
<1> QED BY <1>5, <1>6, <1>7, <1>8, QueueAssumption DEF RingOf, ControlBlock

-----------------------------------------------------------------------------
(* The invariant.                                                          *)

\* What a read of slot k returns.
LEMMA LoadOfRing ==
  ASSUME NEW q, NEW c \in Capacities \ {0}, NEW h \in 0..c, NEW t \in 0..c,
         RingOf(q, c, h, t), NEW k \in 0..c
  PROVE  At(k) \in DOMAIN q.buf /\ Load(q, At(k)) = q.buf[At(k)]
         /\ Load(q, At(k)) \in Value
BY DEF RingOf, Slots, Load

\* A null m_q refuses every call.
LEMMA NullQueue ==
  /\ ~CanPut(NULL) /\ ~CanGet(NULL) /\ ~CanPush(NULL) /\ ~CanPop(NULL)
  /\ Clear(NULL) = NULL /\ Get(NULL) = NULL /\ Pop(NULL) = NULL
  /\ \A x : Put(NULL, x) = NULL /\ Push(NULL, x) = NULL
  /\ Capacity(NULL) = 0 /\ Length(NULL) = 0
BY DEF CanPut, CanGet, CanPush, CanPop, IsFull, IsEmpty, Clear, Get, Pop, Put,
       Push, Capacity, Length

\* init() leaves an empty ring of the capacity asked for, or no block at all.
LEMMA InitialiseMakesRing ==
  ASSUME NEW q, q = NULL \/ IsRing(q), NEW c \in Capacities
  PROVE  \/ c = 0 /\ Initialise(q, c, ItemSize) = NULL
         \/ c # 0 /\ RingOf(Initialise(q, c, ItemSize), c, 0, 0)
<1>1. CASE q = NULL
  BY <1>1, NullQueue, NewQueueIsRing DEF Initialise
<1>2. CASE IsRing(q)
  <2>1. PICK d \in Capacities \ {0} : \E h, t \in 0..d : RingOf(q, d, h, t)
    BY <1>2 DEF IsRing
  <2>2. PICK h \in 0..d, t \in 0..d : RingOf(q, d, h, t)
    BY <2>1
  <2>3. Capacity(q) = d /\ RingOf(Clear(q), d, 0, 0)
    BY <2>2, CapacityOfRing, ClearOfRing
  <2> QED BY <2>1, <2>3, NewQueueIsRing DEF Initialise
<1> QED BY <1>1, <1>2

\* Outside the corners no call meets one.
LEMMA NoPushCorner ==
  ASSUME PushCorner \subseteq {},
         NEW c \in Capacities \ {0}, NEW h \in 0..c, NEW t \in 0..c,
         RingOf(m_q, c, h, t)
  PROVE  ~IsFull(m_q) /\ (h = 0 => ItemSize <= HeaderSize)
<1>1. m_q # NULL  BY CapacityOfRing
<1>2. ~IsFull(m_q) /\ ~(m_q.head = m_q.begin /\ m_q.item_size > m_q.begin)
  BY <1>1 DEF PushCorner
<1>3. h = 0 => m_q.head = m_q.begin /\ m_q.begin = HeaderSize
  BY HeaderAssumption, QueueAssumption DEF RingOf, At
<1> QED BY <1>2, <1>3, HeaderAssumption, QueueAssumption DEF RingOf

LEMMA NoPopCorner ==
  ASSUME PopCorner \subseteq {}, CanPop(m_q),
         NEW c \in Capacities \ {0}, NEW h \in 0..c, NEW t \in 0..c,
         RingOf(m_q, c, h, t)
  PROVE  h # t /\ t # 0
<1>1. m_q.tail # m_q.begin  BY DEF PopCorner
<1>2. m_q.head # m_q.tail  BY DEF CanPop, IsEmpty
<1> QED BY <1>1, <1>2 DEF RingOf

LEMMA RingIntro ==
  ASSUME NEW q, NEW c \in Capacities \ {0}, NEW h \in 0..c, NEW t \in 0..c,
         RingOf(q, c, h, t)
  PROVE  IsRing(q)
BY DEF IsRing

LEMMA OutcomeType ==
  /\ \A op \in AllOps \cup {"ctor"}, arg \in Arguments, ret \in BOOLEAN,
        x \in Value \cup {NULL} :
       Result(op, arg, ret, x) \in Outcome
  /\ NULL \in Arguments /\ Capacities \subseteq Arguments
  /\ Items \cup {NULL} \subseteq Arguments
  /\ \A q : /\ CanPut(q) \in BOOLEAN /\ CanPush(q) \in BOOLEAN
           /\ CanGet(q) \in BOOLEAN /\ CanPop(q) \in BOOLEAN
BY DEF Result, Outcome, Arguments, CanPut, CanPush, CanGet, CanPop, IsFull, IsEmpty

LEMMA RingInvInit == Init => RingInv
BY OutcomeType DEF Init, RingInv, AllOps

LEMMA RingInvStep ==
  ASSUME Corners = {}, RingInv, [Next]_vars
  PROVE  RingInv'
<1> USE DEF RingInv
<1>1. ASSUME NEW c \in Capacities, InitQueue(c)  PROVE RingInv'
  <2>1. m_q' = NULL \/ IsRing(m_q')
    <3>1. 0 \in 0..c  BY QueueAssumption
    <3> QED BY <1>1, <3>1, InitialiseMakesRing, RingIntro DEF InitQueue
  <2> QED BY <2>1, <1>1, OutcomeType DEF InitQueue, AllOps
<1>2. CASE ClearQueue
  <2>1. m_q' = NULL \/ IsRing(m_q')
    <3>1. CASE m_q = NULL  BY <3>1, <1>2, NullQueue DEF ClearQueue
    <3>2. CASE IsRing(m_q)
      <4>1. PICK c \in Capacities \ {0} : \E h, t \in 0..c : RingOf(m_q, c, h, t)
        BY <3>2 DEF IsRing
      <4>2. PICK h \in 0..c, t \in 0..c : RingOf(m_q, c, h, t)
        BY <4>1
      <4>3. RingOf(m_q', c, 0, 0) /\ 0 \in 0..c
        BY <1>2, <4>2, ClearOfRing, QueueAssumption DEF ClearQueue
      <4> QED BY <4>3, RingIntro
    <3> QED BY <3>1, <3>2
  <2> QED BY <2>1, <1>2, OutcomeType DEF ClearQueue, AllOps
<1>3. CASE Destroy
  BY <1>3, OutcomeType DEF Destroy, AllOps
<1>4. ASSUME NEW x \in Items \cup {NULL}, PutItem(x)  PROVE RingInv'
  <2>1. CASE m_q = NULL
    BY <2>1, <1>4, NullQueue, OutcomeType DEF PutItem, AllOps
  <2>2. CASE IsRing(m_q)
    <3>1. PICK c \in Capacities \ {0} : \E h, t \in 0..c : RingOf(m_q, c, h, t)
      BY <2>2 DEF IsRing
    <3>2. PICK h \in 0..c, t \in 0..c : RingOf(m_q, c, h, t)
      BY <3>1
    <3>3. At(t) \in DOMAIN m_q.buf /\ m_q.tail = At(t)
      BY <3>2, LoadOfRing DEF RingOf
    <3>4. ~fault'  BY <1>4, <3>3 DEF PutItem, WriteFaults
    <3>5. Succ(t, c) \in 0..c  BY QueueAssumption, SlotType
    <3>6. IsRing(m_q')
      BY <1>4, <3>2, <3>4, <3>5, PutOfRing, RingIntro DEF PutItem, Put
    <3> QED BY <1>4, <3>4, <3>6, OutcomeType DEF PutItem, AllOps
  <2> QED BY <2>1, <2>2
<1>5. ASSUME NEW x \in Items \cup {NULL}, PushItem(x)  PROVE RingInv'
  <2>1. CASE m_q = NULL
    BY <2>1, <1>5, NullQueue, OutcomeType DEF PushItem, AllOps
  <2>2. CASE IsRing(m_q)
    <3>1. PICK c \in Capacities \ {0} : \E h, t \in 0..c : RingOf(m_q, c, h, t)
      BY <2>2 DEF IsRing
    <3>2. PICK h \in 0..c, t \in 0..c : RingOf(m_q, c, h, t)
      BY <3>1
    <3>3. h = 0 => ItemSize <= HeaderSize
      BY <1>5, <3>2, NoPushCorner DEF PushItem
    <3>4. Pred(h, c) \in 0..c  BY QueueAssumption, SlotType
    <3>5. At(Pred(h, c)) \in DOMAIN m_q.buf /\ PushPos(m_q) = At(Pred(h, c))
      BY <3>2, <3>3, <3>4, LoadOfRing, PushOfRing
    <3>6. ~fault'  BY <1>5, <3>5 DEF PushItem, WriteFaults
    <3>7. IsRing(m_q')
      BY <1>5, <3>2, <3>3, <3>4, <3>6, PushOfRing, RingIntro DEF PushItem
    <3> QED BY <1>5, <3>6, <3>7, OutcomeType DEF PushItem, AllOps
  <2> QED BY <2>1, <2>2
<1>6. CASE GetItem
  <2>1. CASE m_q = NULL
    BY <2>1, <1>6, NullQueue, OutcomeType DEF GetItem, AllOps
  <2>2. CASE IsRing(m_q)
    <3>1. PICK c \in Capacities \ {0} : \E h, t \in 0..c : RingOf(m_q, c, h, t)
      BY <2>2 DEF IsRing
    <3>2. PICK h \in 0..c, t \in 0..c : RingOf(m_q, c, h, t)
      BY <3>1
    <3>3. At(h) \in DOMAIN m_q.buf /\ m_q.head = At(h) /\ Load(m_q, At(h)) \in Value
      BY <3>2, LoadOfRing DEF RingOf
    <3>4. ~fault'  BY <1>6, <3>3 DEF GetItem, ReadFaults
    <3>5. Succ(h, c) \in 0..c  BY QueueAssumption, SlotType
    <3>6. CanGet(m_q) => h # t  BY <3>2 DEF CanGet, IsEmpty, RingOf
    <3>7. IsRing(m_q')
      BY <1>6, <3>2, <3>4, <3>5, <3>6, GetOfRing, RingIntro DEF GetItem, Get
    <3> QED BY <1>6, <3>3, <3>4, <3>7, OutcomeType DEF GetItem, AllOps
  <2> QED BY <2>1, <2>2
<1>7. CASE PopItem
  <2>1. CASE m_q = NULL
    BY <2>1, <1>7, NullQueue, OutcomeType DEF PopItem, AllOps
  <2>2. CASE IsRing(m_q) /\ CanPop(m_q)
    <3>1. PICK c \in Capacities \ {0} : \E h, t \in 0..c : RingOf(m_q, c, h, t)
      BY <2>2 DEF IsRing
    <3>2. PICK h \in 0..c, t \in 0..c : RingOf(m_q, c, h, t)
      BY <3>1
    <3>3. h # t /\ t # 0  BY <1>7, <2>2, <3>2, NoPopCorner DEF PopItem
    <3>4. t - 1 \in 0..c  BY <3>3, QueueAssumption
    <3>5. At(t - 1) \in DOMAIN m_q.buf /\ PopPos(m_q) = At(t - 1)
          /\ Load(m_q, At(t - 1)) \in Value
      BY <3>2, <3>3, <3>4, LoadOfRing, PopOfRing
    <3>6. ~fault'  BY <1>7, <3>5 DEF PopItem, ReadFaults
    <3>7. IsRing(m_q')
      BY <1>7, <3>2, <3>3, <3>4, <3>6, PopOfRing, RingIntro DEF PopItem
    <3> QED BY <1>7, <3>5, <3>6, <3>7, OutcomeType DEF PopItem, AllOps
  <2>3. CASE ~CanPop(m_q)
    BY <1>7, <2>3, OutcomeType DEF PopItem, Pop, AllOps
  <2> QED BY <2>1, <2>2, <2>3
<1>8. CASE UNCHANGED vars
  BY <1>8 DEF vars, IsRing
<1> QED BY <1>1, <1>2, <1>3, <1>4, <1>5, <1>6, <1>7, <1>8 DEF Next

\* A ring is a control block of the shape RingShape describes.
LEMMA RingInvShape == RingInv => TypeOK /\ RingShape
<1>1. CASE RingInv /\ m_q = NULL
  BY <1>1 DEF RingInv, TypeOK, RingShape, Outcome
<1>2. CASE RingInv /\ IsRing(m_q)
  <2>1. PICK c \in Capacities \ {0} : \E h, t \in 0..c : RingOf(m_q, c, h, t)
    BY <1>2 DEF IsRing
  <2>2. PICK h \in 0..c, t \in 0..c : RingOf(m_q, c, h, t)
    BY <2>1
  <2>3. Capacity(m_q) = c  BY <2>2, CapacityOfRing
  <2>4. m_q.begin = HeaderSize
    BY <2>2, HeaderAssumption, QueueAssumption DEF RingOf, At
  <2>5. m_q.head \in SlotOffsets(m_q) /\ m_q.tail \in SlotOffsets(m_q)
    BY <2>2, <2>3, <2>4 DEF SlotOffsets, RingOf, At
  <2>6. TypeOK  BY <1>2, <2>2 DEF RingInv, TypeOK, Outcome, RingOf
  <2>7. RingShape
    BY <1>2, <2>2, <2>3, <2>4, <2>5 DEF RingInv, RingShape, RingOf, At
  <2> QED BY <2>6, <2>7
<1> QED BY <1>1, <1>2 DEF RingInv

\* The type invariant, and the shape of the control block: while clients stay
\* out of the corners of push() and pop(), whatever the calls, head and tail
\* point at slots and no call touches a byte outside the slots.
THEOREM TypeCorrect ==
  ASSUME Corners = {}
  PROVE  Spec => []TypeOK
<1>1. Init => RingInv  BY RingInvInit
<1>2. RingInv /\ [Next]_vars => RingInv'  BY RingInvStep
<1>3. RingInv => TypeOK  BY RingInvShape
<1> QED BY <1>1, <1>2, <1>3, PTL DEF Spec

THEOREM ShapeCorrect ==
  ASSUME Corners = {}
  PROVE  Spec => []RingShape
<1>1. Init => RingInv  BY RingInvInit
<1>2. RingInv /\ [Next]_vars => RingInv'  BY RingInvStep
<1>3. RingInv => RingShape  BY RingInvShape
<1> QED BY <1>1, <1>2, <1>3, PTL DEF Spec

-----------------------------------------------------------------------------
(***************************************************************************)
(* The refinement of the bounded deque.  On a ring with head slot h and    *)
(* tail slot t, the contents are the items in slots h, h+1, ... cyclically *)
(* up to t.  Each operation changes h, t and at most one slot that held no *)
(* item, so the contents change as the deque's do.                         *)
(***************************************************************************)

LEMMA FunctionIsSeq ==
  ASSUME NEW S, NEW n \in Nat, NEW f \in [1..n -> S]
  PROVE  f \in Seq(S) /\ Len(f) = n
<1>1. f \in Seq(S)  BY SeqDef
<1>2. Len(f) \in Nat /\ DOMAIN f = 1..Len(f)  BY <1>1, LenProperties
<1> QED BY <1>1, <1>2

-----------------------------------------------------------------------------
(* The contents of a ring.                                                 *)

LEMMA LengthOfRing ==
  ASSUME NEW q, NEW c \in Capacities \ {0}, NEW h \in 0..c, NEW t \in 0..c,
         RingOf(q, c, h, t)
  PROVE  Length(q) = Count(h, t, c)
<1>1. c \in Nat \ {0} /\ h \in Nat /\ t \in Nat  BY QueueAssumption
<1>2. q # NULL  BY CapacityOfRing
<1>3. At(h) <= At(t) <=> h <= t  BY <1>1, AtOrder
<1>4. CASE h <= t
  <2>1. (At(t) - At(h)) \div ItemSize = t - h
    BY <1>1, <1>4, AtDistance
  <2> QED BY <1>2, <1>3, <1>4, <2>1 DEF Length, Count, RingOf
<1>5. CASE t < h
  <2> DEFINE n == c + 1 - h + t
  <2>1. n \in 0..c  BY <1>1, <1>5
  <2>2. At(c + 1) - At(h) = (c + 1 - h) * ItemSize /\ At(t) - At(0) = (t - 0) * ItemSize
    BY <1>1, AtDistance
  <2>3. (c + 1 - h) * ItemSize + (t - 0) * ItemSize = n * ItemSize
    BY <1>1, <1>5, QueueAssumption
  <2>4. At(n) - At(0) = (n - 0) * ItemSize /\ (At(n) - At(0)) \div ItemSize = n - 0
    BY <2>1, AtDistance
  <2>5. At(n) - At(0) \in 0..(UMAX - 1)
    <3>1. n \in 0..(c + 1) /\ 0 \in 0..(c + 1) /\ n \in Nat  BY <1>1, <2>1
    <3>2. At(n) \in 0..(UMAX - 1) /\ At(0) \in 0..(UMAX - 1)  BY <3>1, AtFits
    <3>3. At(0) <= At(n)  BY <3>1, AtOrder
    <3> QED BY <3>2, <3>3, HeaderAssumption
  <2>6. (At(c + 1) - At(h)) + (At(t) - At(0)) = At(n) - At(0)
    BY <2>1, <2>2, <2>3, <2>4
  <2>7. U(At(n) - At(0)) = At(n) - At(0)
    BY <2>5, HeaderAssumption DEF U
  <2>8. Length(q) = U((At(c + 1) - At(h)) + (At(t) - At(0))) \div ItemSize
    BY <1>1, <1>2, <1>3, <1>5 DEF Length, RingOf
  <2>9. Length(q) = n
    BY <2>1, <2>4, <2>6, <2>7, <2>8
  <2> QED BY <2>9, <1>1, <1>5 DEF Count
<1> QED BY <1>1, <1>4, <1>5

\* The i-th item is in the i-th slot from head, cyclically.
LEMMA NthOfRing ==
  ASSUME NEW q, NEW c \in Capacities \ {0}, NEW h \in 0..c, NEW t \in 0..c,
         RingOf(q, c, h, t), NEW i \in 1..(c + 1)
  PROVE  Nth(q, i) = At(Slot(h, i, c)) /\ Slot(h, i, c) \in 0..c
<1>1. c \in Nat \ {0} /\ h \in Nat /\ i \in Nat \ {0}  BY QueueAssumption
<1> DEFINE k == h + i - 1
<1>2. k \in Nat /\ k - h = i - 1 /\ h <= k  BY <1>1
<1>3. At(k) - At(h) = (i - 1) * ItemSize
  BY <1>1, <1>2, AtDistance
<1>4. (i - 1) * ItemSize \in Int  BY <1>1, QueueAssumption
<1>5. q.head + (i - 1) * q.item_size = At(k)
  BY <1>1, <1>2, <1>3, <1>4, AtType DEF RingOf
<1>6. At(k) < At(c + 1) <=> k <= c
  BY <1>1, <1>2, AtOrder
<1>7. CASE k <= c
  BY <1>1, <1>5, <1>6, <1>7 DEF Nth, Slot, RingOf
<1>8. CASE ~(k <= c)
  <2> DEFINE j == k - (c + 1)
  <2>1. j \in 0..c /\ j \in Nat /\ k - j = c + 1 - 0 /\ j <= k
    BY <1>1, <1>2, <1>8
  <2>2. At(k) - At(j) = (k - j) * ItemSize /\ At(c + 1) - At(0) = (c + 1 - 0) * ItemSize
    BY <1>1, <1>2, <2>1, AtDistance
  <2>3. At(k) - At(j) = At(c + 1) - At(0)
    BY <2>1, <2>2
  <2>4. At(k) - (At(c + 1) - At(0)) = At(j)
    BY <1>1, <1>2, <2>1, <2>3, AtType
  <2>5. Nth(q, i) = At(k) - (At(c + 1) - At(0))
    BY <1>5, <1>6, <1>8 DEF Nth, RingOf
  <2> QED BY <1>8, <2>1, <2>4, <2>5 DEF Slot
<1> QED BY <1>7, <1>8

LEMMA ContentsOfRing ==
  ASSUME NEW q, NEW c \in Capacities \ {0}, NEW h \in 0..c, NEW t \in 0..c,
         RingOf(q, c, h, t)
  PROVE  /\ Contents(q) \in Seq(Value)
         /\ Len(Contents(q)) = Count(h, t, c)
         /\ \A i \in 1..Count(h, t, c) :
              Contents(q)[i] = q.buf[At(Slot(h, i, c))]
<1> DEFINE n == Count(h, t, c)
<1>1. c \in Nat \ {0} /\ n \in 0..c  BY QueueAssumption, SlotType
<1>2. Length(q) = n  BY LengthOfRing
<1>3. \A i \in 1..n : Load(q, Nth(q, i)) = q.buf[At(Slot(h, i, c))]
                      /\ Load(q, Nth(q, i)) \in Value
  <2> TAKE i \in 1..n
  <2>1. i \in 1..(c + 1)  BY <1>1
  <2>2. Nth(q, i) = At(Slot(h, i, c)) /\ Slot(h, i, c) \in 0..c
    BY <2>1, NthOfRing
  <2> QED BY <2>2, LoadOfRing
<1>4. Contents(q) = [i \in 1..n |-> Load(q, Nth(q, i))]
  BY <1>2 DEF Contents
<1>5. Contents(q) \in [1..n -> Value]
  BY <1>3, <1>4
<1>6. n \in Nat  BY <1>1
<1> QED BY <1>3, <1>4, <1>5, <1>6, FunctionIsSeq

\* What put() and get() are tested against: full and empty.
LEMMA CountBounds ==
  ASSUME NEW c \in Nat \ {0}, NEW h \in 0..c, NEW t \in 0..c
  PROVE  /\ Count(h, t, c) \in 0..c
         /\ Succ(t, c) # h <=> Count(h, t, c) < c
         /\ h # t <=> Count(h, t, c) # 0
BY DEF Count, Succ

-----------------------------------------------------------------------------
(* What the operations do to the contents.                                 *)

LEMMA PutContents ==
  ASSUME NEW q, NEW c \in Capacities \ {0}, NEW h \in 0..c, NEW t \in 0..c,
         RingOf(q, c, h, t), NEW x \in Items \cup {NULL}, CanPut(q)
  PROVE  Contents(Put(q, x)) = Append(Contents(q), Kept(q, At(t), x))
<1> DEFINE n == Count(h, t, c)
           r == Put(q, x)
           v == Kept(q, At(t), x)
<1>1. c \in Nat \ {0} /\ Succ(t, c) \in 0..c  BY QueueAssumption, SlotType
<1>2. Succ(t, c) # h /\ RingOf(r, c, h, Succ(t, c)) /\ r.buf = Store(q, At(t), x)
  BY PutOfRing
<1>3. n \in 0..(c - 1) /\ Count(h, Succ(t, c), c) = n + 1
  BY <1>1, <1>2 DEF Count, Succ
<1>4. v \in Value /\ \A j \in 0..c : r.buf[At(j)] = IF j = t THEN v ELSE q.buf[At(j)]
  BY <1>2, StoreOfRing
<1>5. Contents(q) \in Seq(Value) /\ Len(Contents(q)) = n
      /\ \A i \in 1..n : Contents(q)[i] = q.buf[At(Slot(h, i, c))]
  BY ContentsOfRing
<1>6. Contents(r) \in Seq(Value) /\ Len(Contents(r)) = n + 1
      /\ \A i \in 1..(n + 1) : Contents(r)[i] = r.buf[At(Slot(h, i, c))]
  BY <1>1, <1>2, <1>3, ContentsOfRing
<1>7. Slot(h, n + 1, c) = t /\ \A i \in 1..n : Slot(h, i, c) \in 0..c /\ Slot(h, i, c) # t
  BY <1>1, <1>2, <1>3 DEF Slot, Count, Succ
<1>8. \A i \in 1..n : Contents(r)[i] = Contents(q)[i]
  BY <1>3, <1>4, <1>5, <1>6, <1>7
<1>9. Contents(r)[n + 1] = v
  BY <1>3, <1>4, <1>6, <1>7
<1>10. Append(Contents(q), v) \in Seq(Value) /\ Len(Append(Contents(q), v)) = n + 1
       /\ Append(Contents(q), v)[n + 1] = v
       /\ \A i \in 1..n : Append(Contents(q), v)[i] = Contents(q)[i]
  BY <1>4, <1>5, AppendProperties
<1>11. \A i \in 1..(n + 1) : Contents(r)[i] = Append(Contents(q), v)[i]
  BY <1>3, <1>8, <1>9, <1>10
<1> HIDE DEF r, v
<1>12. Contents(r) = Append(Contents(q), v)
  BY <1>6, <1>10, <1>11, SeqEqual
<1> QED BY <1>12 DEF r, v

LEMMA PushContents ==
  ASSUME NEW q, NEW c \in Capacities \ {0}, NEW h \in 0..c, NEW t \in 0..c,
         RingOf(q, c, h, t), NEW x \in Items \cup {NULL},
         ~IsFull(q), h = 0 => ItemSize <= HeaderSize
  PROVE  Contents(Push(q, x)) = <<Kept(q, At(Pred(h, c)), x)>> \o Contents(q)
<1> DEFINE n == Count(h, t, c)
           g == Pred(h, c)
           r == Push(q, x)
           v == Kept(q, At(g), x)
           w == <<v>> \o Contents(q)
<1>1. c \in Nat \ {0} /\ g \in 0..c  BY QueueAssumption, SlotType
<1>2. RingOf(r, c, g, t) /\ r.buf = Store(q, At(g), x)
  BY PushOfRing
<1>3. Succ(t, c) # h  BY PutOfRing DEF CanPut
<1>4. n \in 0..(c - 1) /\ Count(g, t, c) = n + 1
  <2>1. CASE h = 0  BY <2>1, <1>1, <1>3 DEF Count, Succ, Pred
  <2>2. CASE h # 0  BY <2>2, <1>1, <1>3 DEF Count, Succ, Pred
  <2> QED BY <2>1, <2>2
<1>5. v \in Value /\ \A j \in 0..c : r.buf[At(j)] = IF j = g THEN v ELSE q.buf[At(j)]
  <2> HIDE DEF g, r
  <2>1. /\ v \in Value
        /\ \A j \in 0..c : Store(q, At(g), x)[At(j)]
                           = IF j = g THEN v ELSE q.buf[At(j)]
    BY <1>1, StoreOfRing
  <2> QED BY <1>2, <2>1
<1>6. Contents(q) \in Seq(Value) /\ Len(Contents(q)) = n
      /\ \A i \in 1..n : Contents(q)[i] = q.buf[At(Slot(h, i, c))]
  BY ContentsOfRing
<1>7. Contents(r) \in Seq(Value) /\ Len(Contents(r)) = n + 1
      /\ \A i \in 1..(n + 1) : Contents(r)[i] = r.buf[At(Slot(g, i, c))]
  BY <1>1, <1>2, <1>4, ContentsOfRing
<1>8. Slot(g, 1, c) = g
      /\ \A i \in 1..n : /\ Slot(g, i + 1, c) = Slot(h, i, c)
                         /\ Slot(h, i, c) \in 0..c /\ Slot(h, i, c) # g
  BY <1>1, <1>3, <1>4 DEF Slot, Count, Succ, Pred
<1>9. Contents(r)[1] = v
  BY <1>1, <1>4, <1>5, <1>7, <1>8
<1>10. \A i \in 1..n : Contents(r)[i + 1] = Contents(q)[i]
  <2> SUFFICES ASSUME NEW i \in 1..n
               PROVE  Contents(r)[i + 1] = Contents(q)[i]
    OBVIOUS
  <2>1. i + 1 \in 1..(n + 1)  BY <1>4
  <2>2. Contents(r)[i + 1] = r.buf[At(Slot(h, i, c))]
    BY <2>1, <1>7, <1>8
  <2>3. Slot(h, i, c) \in 0..c /\ Slot(h, i, c) # g
    BY <1>8
  <2> HIDE DEF r, g, v
  <2>4. r.buf[At(Slot(h, i, c))] = q.buf[At(Slot(h, i, c))]
    BY <1>5, <2>3
  <2> QED BY <2>2, <2>4, <1>6
<1>11. <<v>> \in Seq(Value) /\ Len(<<v>>) = 1 /\ <<v>>[1] = v
  BY <1>5
<1>12. w \in Seq(Value) /\ Len(w) = n + 1
       /\ \A i \in 1..(n + 1) : w[i] = IF i <= 1 THEN v ELSE Contents(q)[i - 1]
  BY <1>4, <1>6, <1>11, ConcatProperties
<1>13. \A i \in 1..(n + 1) : Contents(r)[i] = w[i]
  <2> TAKE i \in 1..(n + 1)
  <2>1. CASE i = 1  BY <2>1, <1>4, <1>9, <1>12
  <2>2. CASE i # 1
    <3>1. i - 1 \in 1..n /\ (i - 1) + 1 = i  BY <2>2, <1>4
    <3> QED BY <3>1, <2>2, <1>4, <1>10, <1>12
  <2> QED BY <2>1, <2>2
<1> HIDE DEF r, v, w
<1>14. Contents(r) = w
  BY <1>7, <1>12, <1>13, SeqEqual
<1> QED BY <1>14 DEF r, v, w

LEMMA GetContents ==
  ASSUME NEW q, NEW c \in Capacities \ {0}, NEW h \in 0..c, NEW t \in 0..c,
         RingOf(q, c, h, t), h # t
  PROVE  /\ Contents(Get(q)) = Tail(Contents(q))
         /\ Head(Contents(q)) = Load(q, q.head)
<1> DEFINE n == Count(h, t, c)
           r == Get(q)
<1>1. c \in Nat \ {0} /\ Succ(h, c) \in 0..c  BY QueueAssumption, SlotType
<1>2. RingOf(r, c, Succ(h, c), t) /\ r.buf = q.buf
  BY GetOfRing
<1>3. n \in 1..c /\ Count(Succ(h, c), t, c) = n - 1
  BY <1>1 DEF Count, Succ
<1>4. Contents(q) \in Seq(Value) /\ Len(Contents(q)) = n
      /\ \A i \in 1..n : Contents(q)[i] = q.buf[At(Slot(h, i, c))]
  BY ContentsOfRing
<1>5. Contents(r) \in Seq(Value) /\ Len(Contents(r)) = n - 1
      /\ \A i \in 1..(n - 1) : Contents(r)[i] = r.buf[At(Slot(Succ(h, c), i, c))]
  BY <1>1, <1>2, <1>3, ContentsOfRing
<1>6. Slot(h, 1, c) = h
      /\ \A i \in 1..(n - 1) : Slot(Succ(h, c), i, c) = Slot(h, i + 1, c)
  BY <1>1, <1>3 DEF Slot, Count, Succ
<1>7. Contents(q) # <<>>  BY <1>3, <1>4
<1>8. Tail(Contents(q)) \in Seq(Value) /\ Len(Tail(Contents(q))) = n - 1
      /\ \A i \in 1..(n - 1) : Tail(Contents(q))[i] = Contents(q)[i + 1]
  BY <1>4, <1>7, HeadTailProperties
<1>9. \A i \in 1..(n - 1) : Contents(r)[i] = Tail(Contents(q))[i]
  <2> SUFFICES ASSUME NEW i \in 1..(n - 1)
               PROVE  Contents(r)[i] = Tail(Contents(q))[i]
    OBVIOUS
  <2>1. i + 1 \in 1..n  BY <1>3
  <2> HIDE DEF r
  <2>2. Contents(r)[i] = q.buf[At(Slot(h, i + 1, c))]
    BY <1>2, <1>5, <1>6
  <2>3. Tail(Contents(q))[i] = q.buf[At(Slot(h, i + 1, c))]
    BY <2>1, <1>4, <1>8
  <2> QED BY <2>2, <2>3
<1>10. Contents(r) = Tail(Contents(q))
  <2> HIDE DEF r
  <2> QED BY <1>5, <1>8, <1>9, SeqEqual
<1>11. Head(Contents(q)) = Contents(q)[1]  BY <1>4
<1>12. Contents(q)[1] = q.buf[At(h)]  BY <1>3, <1>4, <1>6
<1>13. Load(q, q.head) = q.buf[At(h)]  BY LoadOfRing DEF RingOf
<1> QED BY <1>10, <1>11, <1>12, <1>13

LEMMA PopContents ==
  ASSUME NEW q, NEW c \in Capacities \ {0}, NEW h \in 0..c, NEW t \in 0..c,
         RingOf(q, c, h, t), h # t, t # 0
  PROVE  /\ Contents(Pop(q)) = SubSeq(Contents(q), 1, Len(Contents(q)) - 1)
         /\ Contents(q)[Len(Contents(q))] = Load(q, PopPos(q))
<1> DEFINE n == Count(h, t, c)
           r == Pop(q)
           w == SubSeq(Contents(q), 1, n - 1)
<1>1. c \in Nat \ {0} /\ t - 1 \in 0..c  BY QueueAssumption
<1>2. RingOf(r, c, h, t - 1) /\ r.buf = q.buf /\ PopPos(q) = At(t - 1)
  BY PopOfRing
<1>3. n \in 1..c /\ Count(h, t - 1, c) = n - 1
  BY <1>1 DEF Count
<1>4. Contents(q) \in Seq(Value) /\ Len(Contents(q)) = n
      /\ \A i \in 1..n : Contents(q)[i] = q.buf[At(Slot(h, i, c))]
  BY ContentsOfRing
<1>5. Contents(r) \in Seq(Value) /\ Len(Contents(r)) = n - 1
      /\ \A i \in 1..(n - 1) : Contents(r)[i] = r.buf[At(Slot(h, i, c))]
  BY <1>1, <1>2, <1>3, ContentsOfRing
<1>6. Slot(h, n, c) = t - 1
  BY <1>1, <1>3 DEF Slot, Count
<1>7. \A i \in 1..(n - 1) : Contents(q)[i] \in Value
  BY <1>3, <1>4, ElementOfSeq
<1>8. w \in Seq(Value) /\ Len(w) = n - 1
      /\ \A i \in 1..(n - 1) : w[i] = Contents(q)[i]
  <2>1. n \in Int /\ n - 1 \in Nat  BY <1>3
  <2>2. /\ w \in Seq(Value) /\ Len(w) = IF 1 <= n - 1 THEN (n - 1) - 1 + 1 ELSE 0
        /\ \A i \in 1..((n - 1) - 1 + 1) : w[i] = Contents(q)[1 + i - 1]
    BY <2>1, <1>7, SubSeqProperties
  <2> HIDE DEF w
  <2> QED BY <2>1, <2>2
<1>9. \A i \in 1..(n - 1) : Contents(r)[i] = w[i]
  BY <1>2, <1>3, <1>4, <1>5, <1>8
<1>10. Contents(r) = w
  <2> HIDE DEF r, w
  <2> QED BY <1>5, <1>8, <1>9, SeqEqual
<1>11. Contents(q)[n] = q.buf[At(t - 1)]
  BY <1>3, <1>4, <1>6
<1> QED BY <1>1, <1>2, <1>4, <1>10, <1>11, LoadOfRing

\* An empty ring, like a null m_q, has no contents.
LEMMA EmptyContents ==
  /\ Contents(NULL) = <<>>
  /\ \A q : \A c \in Capacities \ {0} : \A h \in 0..c :
       RingOf(q, c, h, h) => Contents(q) = <<>>
<1>1. Contents(NULL) = <<>>
  <2>1. Contents(NULL) = [i \in 1..0 |-> Load(NULL, Nth(NULL, i))]
    BY NullQueue DEF Contents
  <2> QED BY <2>1
<1>2. ASSUME NEW q, NEW c \in Capacities \ {0}, NEW h \in 0..c, RingOf(q, c, h, h)
      PROVE  Contents(q) = <<>>
  <2>1. Contents(q) \in Seq(Value) /\ Len(Contents(q)) = Count(h, h, c)
    BY <1>2, ContentsOfRing
  <2>2. Count(h, h, c) = 0  BY QueueAssumption DEF Count
  <2> QED BY <2>1, <2>2, EmptySeq
<1> QED BY <1>1, <1>2

-----------------------------------------------------------------------------
(* The refinement: the initial state is an empty deque of capacity zero,   *)
(* and every call is the deque's call.                                     *)

LEMMA DequeInit == Init => Deque!Init
BY EmptyContents, NullQueue DEF Init, Deque!Init, Result, Deque!Result

\* A null m_q is the empty deque of capacity zero; a ring has capacity c and
\* as many items as slots lie between head and tail.
LEMMA DequeOfRing ==
  ASSUME NEW q, NEW c \in Capacities \ {0}, NEW h \in 0..c, NEW t \in 0..c,
         RingOf(q, c, h, t)
  PROVE  /\ Capacity(q) = c
         /\ CanPut(q) <=> Len(Contents(q)) < Capacity(q)
         /\ CanGet(q) <=> Contents(q) # <<>>
         /\ CanPop(q) <=> Contents(q) # <<>>
<1>1. c \in Nat \ {0} /\ h \in Nat /\ t \in Nat  BY QueueAssumption
<1>2. Capacity(q) = c /\ q # NULL  BY CapacityOfRing
<1>3. Contents(q) \in Seq(Value) /\ Len(Contents(q)) = Count(h, t, c)
  BY ContentsOfRing
<1>4. CanPut(q) <=> Succ(t, c) # h
  <2>1. NULL \in Items \cup {NULL}  OBVIOUS
  <2> QED BY <2>1, PutOfRing
<1>5. (CanGet(q) <=> h # t) /\ (CanPop(q) <=> h # t)
  BY <1>1, <1>2, AtOrder DEF CanGet, CanPop, IsEmpty, RingOf
<1>6. Contents(q) # <<>> <=> Count(h, t, c) # 0
  BY <1>3, EmptySeq
<1>7. /\ Succ(t, c) # h <=> Count(h, t, c) < c
      /\ h # t <=> Count(h, t, c) # 0
  BY <1>1, CountBounds
<1> QED BY <1>2, <1>3, <1>4, <1>5, <1>6, <1>7

\* A null m_q refuses, and changes nothing.
LEMMA NullDeque ==
  /\ Contents(NULL) = <<>> /\ Capacity(NULL) = 0 /\ ~(Len(Contents(NULL)) < 0)
  /\ CanPut(NULL) = FALSE /\ CanPush(NULL) = FALSE
  /\ CanGet(NULL) = FALSE /\ CanPop(NULL) = FALSE
BY EmptyContents, NullQueue, OutcomeType

LEMMA PutRefines ==
  ASSUME RingInv, NEW x \in Items \cup {NULL}, PutItem(x), ~fault'
  PROVE  Deque!Put(x)
<1>1. m_q' = Put(m_q, x) /\ out' = Result("put", x, CanPut(m_q), NULL)
  BY DEF PutItem
<1>2. CASE m_q = NULL
  BY <1>1, <1>2, NullQueue, NullDeque DEF Deque!Put, Result, Deque!Result
<1>3. CASE IsRing(m_q)
  <2>1. PICK c \in Capacities \ {0} : \E h, t \in 0..c : RingOf(m_q, c, h, t)
    BY <1>3 DEF IsRing
  <2>2. PICK h \in 0..c, t \in 0..c : RingOf(m_q, c, h, t)
    BY <2>1
  <2>3. Capacity(m_q) = c /\ (CanPut(m_q) <=> Len(Contents(m_q)) < Capacity(m_q))
    BY <2>2, DequeOfRing
  <2>4. CASE CanPut(m_q)
    <3>1. Contents(m_q') = Append(Contents(m_q), Kept(m_q, At(t), x))
      BY <1>1, <2>2, <2>4, PutContents
    <3>2. Succ(t, c) \in 0..c  BY QueueAssumption, SlotType
    <3>3. RingOf(m_q', c, h, Succ(t, c))
      BY <1>1, <2>2, <2>4, PutOfRing
    <3>4. Capacity(m_q') = c
      BY <3>2, <3>3, CapacityOfRing
    <3>5. Kept(m_q, At(t), x) \in Deque!Stored(x)
      BY <2>2, StoreOfRing DEF Kept, Deque!Stored, Value, Deque!Value
    <3> QED BY <1>1, <2>3, <2>4, <3>1, <3>4, <3>5
            DEF Deque!Put, Result, Deque!Result
  <2>5. CASE ~CanPut(m_q)
    <3>1. m_q' = m_q /\ CanPut(m_q) = FALSE
      BY <1>1, <2>5, OutcomeType DEF Put
    <3> QED BY <1>1, <2>3, <3>1 DEF Deque!Put, Result, Deque!Result
  <2> QED BY <2>4, <2>5
<1> QED BY <1>2, <1>3 DEF RingInv

LEMMA PushRefines ==
  ASSUME RingInv, NEW x \in Items \cup {NULL}, PushItem(x), ~fault',
         Corners = {}
  PROVE  Deque!Push(x)
<1>1. m_q' = Push(m_q, x) /\ out' = Result("push", x, CanPush(m_q), NULL)
      /\ PushCorner \subseteq {}
  BY DEF PushItem
<1>2. CASE m_q = NULL
  BY <1>1, <1>2, NullQueue, NullDeque DEF Deque!Push, Result, Deque!Result
<1>3. CASE IsRing(m_q)
  <2>1. PICK c \in Capacities \ {0} : \E h, t \in 0..c : RingOf(m_q, c, h, t)
    BY <1>3 DEF IsRing
  <2>2. PICK h \in 0..c, t \in 0..c : RingOf(m_q, c, h, t)
    BY <2>1
  <2>3. ~IsFull(m_q) /\ (h = 0 => ItemSize <= HeaderSize)
    BY <1>1, <2>2, NoPushCorner
  <2>4. Capacity(m_q) = c /\ Len(Contents(m_q)) < Capacity(m_q)
    BY <2>2, <2>3, DequeOfRing DEF CanPut
  <2>5. Pred(h, c) \in 0..c  BY QueueAssumption, SlotType
  <2>6. CanPush(m_q) = TRUE /\ RingOf(m_q', c, Pred(h, c), t)
    BY <1>1, <2>2, <2>3, PushOfRing, OutcomeType
  <2>7. Contents(m_q') = <<Kept(m_q, At(Pred(h, c)), x)>> \o Contents(m_q)
    BY <1>1, <2>2, <2>3, PushContents
  <2>8. Capacity(m_q') = c
    BY <2>5, <2>6, CapacityOfRing
  <2>9. Kept(m_q, At(Pred(h, c)), x) \in Deque!Stored(x)
    BY <2>2, <2>5, StoreOfRing DEF Kept, Deque!Stored, Value, Deque!Value
  <2> QED BY <1>1, <2>4, <2>6, <2>7, <2>8, <2>9
          DEF Deque!Push, Result, Deque!Result
<1> QED BY <1>2, <1>3 DEF RingInv

LEMMA GetRefines ==
  ASSUME RingInv, GetItem, ~fault'
  PROVE  Deque!Get
<1>1. m_q' = Get(m_q)
      /\ out' = Result("get", NULL, CanGet(m_q),
                       IF CanGet(m_q) THEN Load(m_q, m_q.head) ELSE NULL)
  BY DEF GetItem
<1>2. CASE m_q = NULL
  BY <1>1, <1>2, NullQueue, NullDeque DEF Deque!Get, Result, Deque!Result
<1>3. CASE IsRing(m_q)
  <2>1. PICK c \in Capacities \ {0} : \E h, t \in 0..c : RingOf(m_q, c, h, t)
    BY <1>3 DEF IsRing
  <2>2. PICK h \in 0..c, t \in 0..c : RingOf(m_q, c, h, t)
    BY <2>1
  <2>3. Capacity(m_q) = c /\ (CanGet(m_q) <=> Contents(m_q) # <<>>)
    BY <2>2, DequeOfRing
  <2>4. CASE CanGet(m_q)
    <3>1. h # t  BY <2>2, <2>4 DEF CanGet, IsEmpty, RingOf
    <3>2. Contents(m_q') = Tail(Contents(m_q))
          /\ Head(Contents(m_q)) = Load(m_q, m_q.head)
      BY <1>1, <2>2, <3>1, GetContents
    <3>3. Succ(h, c) \in 0..c  BY QueueAssumption, SlotType
    <3>4. RingOf(m_q', c, Succ(h, c), t)
      BY <1>1, <2>2, <3>1, GetOfRing
    <3>5. Capacity(m_q') = c  BY <3>3, <3>4, CapacityOfRing
    <3>6. CanGet(m_q) = TRUE  BY <2>4, OutcomeType
    <3> QED BY <1>1, <2>3, <3>2, <3>5, <3>6 DEF Deque!Get, Result, Deque!Result
  <2>5. CASE ~CanGet(m_q)
    <3>1. m_q' = m_q /\ CanGet(m_q) = FALSE
      BY <1>1, <2>5, OutcomeType DEF Get
    <3> QED BY <1>1, <2>3, <3>1 DEF Deque!Get, Result, Deque!Result
  <2> QED BY <2>4, <2>5
<1> QED BY <1>2, <1>3 DEF RingInv

LEMMA PopRefines ==
  ASSUME RingInv, PopItem, ~fault', Corners = {}
  PROVE  Deque!Pop
<1>1. m_q' = Pop(m_q) /\ PopCorner \subseteq {}
      /\ out' = Result("pop", NULL, CanPop(m_q),
                       IF CanPop(m_q) THEN Load(m_q, PopPos(m_q)) ELSE NULL)
  BY DEF PopItem
<1>2. CASE m_q = NULL
  BY <1>1, <1>2, NullQueue, NullDeque DEF Deque!Pop, Result, Deque!Result
<1>3. CASE IsRing(m_q)
  <2>1. PICK c \in Capacities \ {0} : \E h, t \in 0..c : RingOf(m_q, c, h, t)
    BY <1>3 DEF IsRing
  <2>2. PICK h \in 0..c, t \in 0..c : RingOf(m_q, c, h, t)
    BY <2>1
  <2>3. Capacity(m_q) = c /\ (CanPop(m_q) <=> Contents(m_q) # <<>>)
    BY <2>2, DequeOfRing
  <2>4. CASE CanPop(m_q)
    <3>1. h # t /\ t # 0  BY <1>1, <2>2, <2>4, NoPopCorner
    <3>2. Contents(m_q') = SubSeq(Contents(m_q), 1, Len(Contents(m_q)) - 1)
          /\ Contents(m_q)[Len(Contents(m_q))] = Load(m_q, PopPos(m_q))
      BY <1>1, <2>2, <3>1, PopContents
    <3>3. t - 1 \in 0..c  BY <3>1, QueueAssumption
    <3>4. RingOf(m_q', c, h, t - 1)
      BY <1>1, <2>2, <3>1, PopOfRing
    <3>5. Capacity(m_q') = c  BY <3>3, <3>4, CapacityOfRing
    <3>6. CanPop(m_q) = TRUE  BY <2>4, OutcomeType
    <3> QED BY <1>1, <2>3, <3>2, <3>5, <3>6 DEF Deque!Pop, Result, Deque!Result
  <2>5. CASE ~CanPop(m_q)
    <3>1. m_q' = m_q /\ CanPop(m_q) = FALSE
      BY <1>1, <2>5, OutcomeType DEF Pop
    <3> QED BY <1>1, <2>3, <3>1 DEF Deque!Pop, Result, Deque!Result
  <2> QED BY <2>4, <2>5
<1> QED BY <1>2, <1>3 DEF RingInv

LEMMA ClearRefines ==
  ASSUME RingInv, ClearQueue
  PROVE  Deque!Clear
<1>1. m_q' = Clear(m_q) /\ out' = Result("clear", NULL, TRUE, NULL)
  BY DEF ClearQueue
<1>2. CASE m_q = NULL
  BY <1>1, <1>2, NullQueue, NullDeque DEF Deque!Clear, Result, Deque!Result
<1>3. CASE IsRing(m_q)
  <2>1. PICK c \in Capacities \ {0} : \E h, t \in 0..c : RingOf(m_q, c, h, t)
    BY <1>3 DEF IsRing
  <2>2. PICK h \in 0..c, t \in 0..c : RingOf(m_q, c, h, t)
    BY <2>1
  <2>3. 0 \in 0..c  BY QueueAssumption
  <2>4. RingOf(m_q', c, 0, 0)  BY <1>1, <2>2, ClearOfRing
  <2>5. Contents(m_q') = <<>> /\ Capacity(m_q') = c
    BY <2>3, <2>4, EmptyContents, CapacityOfRing
  <2>6. Capacity(m_q) = c  BY <2>2, CapacityOfRing
  <2> QED BY <1>1, <2>5, <2>6 DEF Deque!Clear, Result, Deque!Result
<1> QED BY <1>2, <1>3 DEF RingInv

LEMMA InitRefines ==
  ASSUME RingInv, NEW c \in Capacities, InitQueue(c)
  PROVE  Deque!Initialise(c)
<1>1. m_q' = Initialise(m_q, c, ItemSize) /\ out' = Result("init", c, TRUE, NULL)
  BY DEF InitQueue
<1>2. \/ c = 0 /\ m_q' = NULL
      \/ c # 0 /\ RingOf(m_q', c, 0, 0)
  BY <1>1, InitialiseMakesRing DEF RingInv
<1>3. 0 \in 0..c  BY QueueAssumption
<1>4. Contents(m_q') = <<>> /\ Capacity(m_q') = c
  BY <1>2, <1>3, EmptyContents, NullDeque, CapacityOfRing
<1> QED BY <1>1, <1>4 DEF Deque!Initialise, Result, Deque!Result

LEMMA DestroyRefines ==
  ASSUME Destroy
  PROVE  Deque!Destroy
BY NullDeque DEF Destroy, Deque!Destroy, Result, Deque!Result

LEMMA DequeStep ==
  ASSUME Corners = {}, RingInv, RingInv', [Next]_vars
  PROVE  [Deque!Next]_(Deque!vars)
<1>1. ~fault'  BY DEF RingInv
<1>2. ASSUME NEW x \in Items \cup {NULL}, PutItem(x)  PROVE Deque!Next
  BY <1>1, <1>2, PutRefines DEF Deque!Next
<1>3. ASSUME NEW x \in Items \cup {NULL}, PushItem(x)  PROVE Deque!Next
  BY <1>1, <1>3, PushRefines DEF Deque!Next
<1>4. CASE GetItem  BY <1>1, <1>4, GetRefines DEF Deque!Next
<1>5. CASE PopItem  BY <1>1, <1>5, PopRefines DEF Deque!Next
<1>6. CASE ClearQueue  BY <1>6, ClearRefines DEF Deque!Next
<1>7. CASE Destroy  BY <1>7, DestroyRefines DEF Deque!Next
<1>8. ASSUME NEW c \in Capacities, InitQueue(c)  PROVE Deque!Next
  BY <1>8, InitRefines DEF Deque!Next
<1>9. CASE UNCHANGED vars
  BY <1>9 DEF vars, Deque!vars
<1> QED BY <1>2, <1>3, <1>4, <1>5, <1>6, <1>7, <1>8, <1>9 DEF Next

\* Outside the corners the queue implements the bounded deque: every call
\* returns what the deque returns and leaves the items the deque leaves, for
\* every item size, capacity and word width.
THEOREM QueueImplementsDeque ==
  ASSUME Corners = {}
  PROVE  Spec => ImplementsDeque
<1>1. Init => RingInv  BY RingInvInit
<1>2. RingInv /\ [Next]_vars => RingInv'  BY RingInvStep
<1>3. Init => Deque!Init  BY DequeInit
<1>4. RingInv /\ RingInv' /\ [Next]_vars => [Deque!Next]_(Deque!vars)
  BY DequeStep
<1> QED BY <1>1, <1>2, <1>3, <1>4, PTL DEF Spec, ImplementsDeque, Deque!Spec

-----------------------------------------------------------------------------
(* The accessors.                                                          *)

LEMMA AvailableOfRing ==
  ASSUME NEW q, NEW c \in Capacities \ {0}, NEW h \in 0..c, NEW t \in 0..c,
         RingOf(q, c, h, t)
  PROVE  Available(q) = c - Count(h, t, c)
<1>1. c \in Nat \ {0} /\ h \in Nat /\ t \in Nat  BY QueueAssumption
<1>2. q # NULL  BY CapacityOfRing
<1>3. At(t) < At(h) <=> t < h  BY <1>1, AtOrder
<1> DEFINE n == IF t < h THEN h - t ELSE c + 1 - t + h
<1>4. n \in 1..(c + 1) /\ n \in Nat /\ n - 1 = c - Count(h, t, c)
  BY <1>1 DEF Count
<1>5. U(n - 1) = n - 1
  <2>1. n - 1 \in 0..(c + 1) /\ n - 1 \in Nat  BY <1>1, <1>4
  <2>2. n - 1 <= At(n - 1) /\ At(n - 1) \in 0..(UMAX - 1)
    BY <2>1, AtFits
  <2> HIDE DEF n
  <2> QED BY <2>1, <2>2, HeaderAssumption DEF U
<1>6. CASE t < h
  <2>1. (At(h) - At(t)) \div ItemSize = h - t  BY <1>1, <1>6, AtDistance
  <2>2. Available(q) = U((At(h) - At(t)) \div ItemSize - 1)
    BY <1>1, <1>2, <1>3, <1>6, AtType DEF Available, RingOf
  <2> QED BY <1>4, <1>5, <1>6, <2>1, <2>2
<1>7. CASE ~(t < h)
  <2>1. At(c + 1) - At(t) = (c + 1 - t) * ItemSize /\ At(h) - At(0) = (h - 0) * ItemSize
    BY <1>1, AtDistance
  <2>2. (c + 1 - t) * ItemSize + (h - 0) * ItemSize = n * ItemSize
    BY <1>1, <1>7, QueueAssumption
  <2>3. At(n) - At(0) = (n - 0) * ItemSize /\ (At(n) - At(0)) \div ItemSize = n - 0
    BY <1>4, AtDistance
  <2>4. At(n) - At(0) \in 0..(UMAX - 1)
    <3>1. n \in 0..(c + 1) /\ 0 \in 0..(c + 1)  BY <1>1, <1>4
    <3>2. At(n) \in 0..(UMAX - 1) /\ At(0) \in 0..(UMAX - 1)  BY <3>1, AtFits
    <3>3. At(0) <= At(n)  BY <1>4, AtOrder
    <3> HIDE DEF n
    <3> QED BY <3>2, <3>3, HeaderAssumption
  <2>5. (At(c + 1) - At(t)) + (At(h) - At(0)) = At(n) - At(0)
    BY <1>4, <2>1, <2>2, <2>3
  <2>6. U(At(n) - At(0)) = At(n) - At(0)
    <3> HIDE DEF n
    <3> QED BY <2>4, HeaderAssumption DEF U
  <2>7. Available(q)
          = U(U((At(c + 1) - At(t)) + (At(h) - At(0))) \div ItemSize - 1)
    BY <1>1, <1>2, <1>3, <1>7, AtType DEF Available, RingOf
  <2>8. Available(q) = U(n - 1)
    <3> HIDE DEF n
    <3> QED BY <1>4, <2>3, <2>5, <2>6, <2>7
  <2> QED BY <1>4, <1>5, <2>8
<1> QED BY <1>6, <1>7

LEMMA LastOfRing ==
  ASSUME NEW q, NEW c \in Capacities \ {0}, NEW h \in 0..c, NEW t \in 0..c,
         RingOf(q, c, h, t), h # t
  PROVE  Last(q) = At(Pred(t, c))
<1>1. c \in Nat \ {0} /\ h \in Nat /\ t \in Nat  BY QueueAssumption
<1>2. ~IsEmpty(q)  BY <1>1, CapacityOfRing, AtOrder DEF IsEmpty, RingOf
<1>3. At(t) = At(0) <=> t = 0  BY <1>1, AtOrder
<1> DEFINE k == IF t = 0 THEN c + 1 ELSE t
<1>4. k - 1 = Pred(t, c) /\ k - 1 \in 0..(c + 1) /\ k - 1 \in Nat /\ (k - 1) + 1 = k
  BY <1>1 DEF Pred
<1>5. At(k - 1) + ItemSize = At(k)
  <2> HIDE DEF k
  <2> QED BY <1>4, AtType
<1>6. U(At(k) - ItemSize) = At(k - 1)
  <2> HIDE DEF k
  <2>1. At(k) - ItemSize = At(k - 1)
    BY <1>4, <1>5, AtType, QueueAssumption
  <2> QED BY <1>4, <2>1, AtFits
<1>7. Last(q) = U(At(k) - ItemSize)
  BY <1>2, <1>3 DEF Last, RingOf
<1> QED BY <1>4, <1>6, <1>7

LEMMA RingAccessorsAgree == RingInv => AccessorsAgree
<1>1. CASE RingInv /\ m_q = NULL
  <2>1. Available(NULL) = 0 /\ IsFull(NULL) /\ IsEmpty(NULL)
    BY DEF Available, IsFull, IsEmpty
  <2> QED BY <1>1, <2>1, NullQueue DEF AccessorsAgree
<1>2. CASE RingInv /\ IsRing(m_q)
  <2>1. PICK c \in Capacities \ {0} : \E h, t \in 0..c : RingOf(m_q, c, h, t)
    BY <1>2 DEF IsRing
  <2>2. PICK h \in 0..c, t \in 0..c : RingOf(m_q, c, h, t)
    BY <2>1
  <2> DEFINE n == Count(h, t, c)
  <2>3. c \in Nat \ {0} /\ h \in Nat /\ t \in Nat  BY QueueAssumption
  <2>4. n \in 0..c /\ (Succ(t, c) # h <=> n < c) /\ (h # t <=> n # 0)
    BY <2>3, CountBounds
  <2>5. Length(m_q) = n /\ Available(m_q) = c - n /\ Capacity(m_q) = c
        /\ m_q # NULL
    BY <2>2, LengthOfRing, AvailableOfRing, CapacityOfRing
  <2>6. IsFull(m_q) <=> Succ(t, c) = h
    <3>1. NULL \in Items \cup {NULL}  OBVIOUS
    <3> QED BY <3>1, <2>2, PutOfRing DEF CanPut
  <2>7. IsEmpty(m_q) <=> h = t
    BY <2>2, <2>3, <2>5, AtOrder DEF IsEmpty, RingOf
  <2>8. ASSUME n > 0
        PROVE  Peek(m_q) = Nth(m_q, 1) /\ Last(m_q) = Nth(m_q, n)
    <3>1. 1 \in 1..(c + 1) /\ n \in 1..(c + 1) /\ h # t
      BY <2>3, <2>4, <2>8
    <3>2. Nth(m_q, 1) = At(Slot(h, 1, c)) /\ Nth(m_q, n) = At(Slot(h, n, c))
      BY <2>2, <3>1, NthOfRing
    <3>3. Slot(h, 1, c) = h /\ Slot(h, n, c) = Pred(t, c)
      BY <2>3, <3>1 DEF Slot, Pred, Count
    <3>4. Peek(m_q) = At(h)  BY <2>2, <2>7, <3>1 DEF Peek, RingOf
    <3>5. Last(m_q) = At(Pred(t, c))  BY <2>2, <3>1, LastOfRing
    <3> QED BY <3>2, <3>3, <3>4, <3>5
  <2> HIDE DEF n
  <2> QED BY <2>3, <2>4, <2>5, <2>6, <2>7, <2>8 DEF AccessorsAgree
<1> QED BY <1>1, <1>2 DEF RingInv

\* length(), available(), capacity(), is_full(), is_empty(), first() and
\* last() agree in every state outside the corners.
THEOREM AccessorsCorrect ==
  ASSUME Corners = {}
  PROVE  Spec => []AccessorsAgree
<1>1. Init => RingInv  BY RingInvInit
<1>2. RingInv /\ [Next]_vars => RingInv'  BY RingInvStep
<1>3. RingInv => AccessorsAgree  BY RingAccessorsAgree
<1> QED BY <1>1, <1>2, <1>3, PTL DEF Spec

-----------------------------------------------------------------------------
(* Iteration.                                                              *)

\* peek_next() and peek_prev() from slot k of a ring that is not empty.
LEMMA PeekOfRing ==
  ASSUME NEW q, NEW c \in Capacities \ {0}, NEW h \in 0..c, NEW t \in 0..c,
         RingOf(q, c, h, t), h # t, NEW k \in 0..c
  PROVE  /\ PeekNext(q, At(k)) = IF Succ(k, c) = t THEN NULL ELSE At(Succ(k, c))
         /\ PeekPrev(q, At(k)) = IF k = h THEN NULL ELSE At(Pred(k, c))
<1>1. c \in Nat \ {0} /\ h \in Nat /\ t \in Nat /\ k \in Nat /\ NULL \notin Nat
  BY QueueAssumption
<1>2. ~IsEmpty(q)
  BY <1>1, CapacityOfRing, AtOrder DEF IsEmpty, RingOf
<1>3. /\ At(k) \in Nat /\ At(k) # NULL /\ At(c + 1) \in Nat
      /\ ~(At(k) < At(0)) /\ ~(At(k) >= At(c + 1))
  <2>1. At(k) \in Nat /\ At(c + 1) \in Nat /\ At(0) \in Nat
    BY <1>1, AtType
  <2>2. ~(At(k) < At(0)) /\ At(k) < At(c + 1)
    BY <1>1, AtOrder
  <2> QED BY <1>1, <2>1, <2>2
<1>4. /\ At(k) + ItemSize = At(k + 1)
      /\ At(k + 1) = At(c + 1) <=> k = c
  <2>1. At(k + 1) = At(c + 1) <=> k + 1 = c + 1
    BY <1>1, AtOrder
  <2> QED BY <1>1, <2>1, AtType
<1>5. (IF At(k) + ItemSize = At(c + 1) THEN At(0) ELSE At(k) + ItemSize) = At(Succ(k, c))
  BY <1>4 DEF Succ
<1>6. Succ(k, c) \in 0..c /\ (At(Succ(k, c)) = At(t) <=> Succ(k, c) = t)
  <2>1. Succ(k, c) \in 0..c /\ Succ(k, c) \in Nat
    BY <1>1 DEF Succ
  <2> QED BY <1>1, <2>1, AtOrder
<1>7. PeekNext(q, At(k)) = IF Succ(k, c) = t THEN NULL ELSE At(Succ(k, c))
  BY <1>2, <1>3, <1>5, <1>6 DEF PeekNext, RingOf
<1>8. (At(k) = At(h) <=> k = h) /\ (At(k) = At(0) <=> k = 0)
  BY <1>1, AtOrder
<1> DEFINE j == IF k = 0 THEN c + 1 ELSE k
<1>9. (IF At(k) = At(0) THEN At(c + 1) ELSE At(k)) = At(j)
  BY <1>8
<1>10. j - 1 \in Nat /\ (j - 1) + 1 = j /\ j - 1 = Pred(k, c)
  BY <1>1 DEF Pred
<1> HIDE DEF j
<1>11. At(j) - ItemSize = At(Pred(k, c))
  <2>1. At(j - 1) + ItemSize = At(j) /\ At(j - 1) \in Nat
    BY <1>10, AtType
  <2> QED BY <1>10, <2>1, QueueAssumption
<1>12. PeekPrev(q, At(k)) = IF k = h THEN NULL ELSE At(Pred(k, c))
  BY <1>2, <1>3, <1>8, <1>9, <1>11 DEF PeekPrev, RingOf
<1> QED BY <1>7, <1>12

\* The places of the items of any queue, for the loops over them.
IsQueue(q) == q = NULL \/ IsRing(q)

LEMMA QueueWalk ==
  ASSUME NEW q, IsQueue(q)
  PROVE  LET n == Length(q)
             at(i) == IF i \in 1..n THEN Nth(q, i) ELSE NULL
         IN  /\ n \in Nat /\ Peek(q) = at(1) /\ Last(q) = at(n)
             /\ \A i \in 1..n : /\ PeekNext(q, at(i)) = at(i + 1)
                               /\ PeekPrev(q, at(i)) = at(i - 1)
<1>1. CASE q = NULL
  <2>1. Peek(NULL) = NULL /\ Last(NULL) = NULL
    BY DEF Peek, Last, IsEmpty
  <2> QED BY <1>1, <2>1, NullQueue
<1>2. CASE IsRing(q)
  <2>1. PICK c \in Capacities \ {0} : \E h, t \in 0..c : RingOf(q, c, h, t)
    BY <1>2 DEF IsRing
  <2>2. PICK h \in 0..c, t \in 0..c : RingOf(q, c, h, t)
    BY <2>1
  <2> DEFINE n == Count(h, t, c)
             at(i) == IF i \in 1..n THEN Nth(q, i) ELSE NULL
  <2>3. c \in Nat \ {0} /\ h \in Nat /\ t \in Nat  BY QueueAssumption
  <2>4. n \in 0..c /\ (h # t <=> n # 0) /\ Length(q) = n
    BY <2>2, <2>3, CountBounds, LengthOfRing
  <2>5. Peek(q) = at(1) /\ Last(q) = at(n)
    <3>1. CASE n = 0
      <4>1. IsEmpty(q)
        BY <2>2, <2>4, <3>1 DEF IsEmpty, RingOf
      <4> QED BY <3>1, <4>1 DEF Peek, Last
    <3>2. CASE n # 0
      <4>1. 1 \in 1..n /\ n \in 1..n /\ 1 \in 1..(c + 1) /\ n \in 1..(c + 1) /\ h # t
        BY <2>3, <2>4, <3>2
      <4>2. Nth(q, 1) = At(Slot(h, 1, c)) /\ Nth(q, n) = At(Slot(h, n, c))
        BY <2>2, <4>1, NthOfRing
      <4>3. Slot(h, 1, c) = h /\ Slot(h, n, c) = Pred(t, c)
        BY <2>3, <4>1 DEF Slot, Pred, Count
      <4>4. Peek(q) = At(h)
        BY <2>2, <2>3, <4>1, CapacityOfRing, AtOrder DEF Peek, IsEmpty, RingOf
      <4>5. Last(q) = At(Pred(t, c))
        BY <2>2, <4>1, LastOfRing
      <4> QED BY <4>1, <4>2, <4>3, <4>4, <4>5
    <3> QED BY <3>1, <3>2
  <2>6. ASSUME NEW i \in 1..n
        PROVE  /\ PeekNext(q, at(i)) = at(i + 1)
               /\ PeekPrev(q, at(i)) = at(i - 1)
    <3> DEFINE k == Slot(h, i, c)
    <3>1. i \in 1..(c + 1) /\ h # t /\ i \in Nat
      BY <2>3, <2>4
    <3>2. at(i) = At(k) /\ k \in 0..c
      BY <2>2, <3>1, NthOfRing
    <3>3. /\ Succ(k, c) = t <=> i = n
          /\ k = h <=> i = 1
          /\ i # n => Succ(k, c) = Slot(h, i + 1, c)
          /\ i # 1 => Pred(k, c) = Slot(h, i - 1, c)
      BY <2>3, <3>1 DEF Slot, Succ, Pred, Count
    <3>4. /\ i # n => i + 1 \in 1..n /\ i + 1 \in 1..(c + 1)
          /\ i # 1 => i - 1 \in 1..n /\ i - 1 \in 1..(c + 1)
          /\ n + 1 \notin 1..n /\ 1 - 1 \notin 1..n
      BY <2>3, <2>4, <3>1
    <3>5. /\ i # n => Nth(q, i + 1) = At(Slot(h, i + 1, c))
          /\ i # 1 => Nth(q, i - 1) = At(Slot(h, i - 1, c))
      BY <2>2, <3>4, NthOfRing
    <3> HIDE DEF k, n
    <3>6. /\ at(i + 1) = IF i = n THEN NULL ELSE At(Succ(k, c))
          /\ at(i - 1) = IF i = 1 THEN NULL ELSE At(Pred(k, c))
      BY <3>3, <3>4, <3>5
    <3>7. /\ PeekNext(q, At(k)) = IF Succ(k, c) = t THEN NULL ELSE At(Succ(k, c))
          /\ PeekPrev(q, At(k)) = IF k = h THEN NULL ELSE At(Pred(k, c))
      BY <2>2, <3>1, <3>2, PeekOfRing
    <3> QED BY <3>2, <3>3, <3>6, <3>7
  <2>7. Length(q) \in Nat
    BY <2>3, <2>4
  <2> HIDE DEF n
  <2> QED BY <2>4, <2>5, <2>6, <2>7
<1> QED BY <1>1, <1>2 DEF IsQueue

LEMMA RingIterationAgrees == RingInv => IterationAgrees
BY QueueWalk DEF RingInv, IsQueue, IterationAgrees

\* peek(), peek_next(), last() and peek_prev(): the loops of the samples visit
\* every item once and end, in every state outside the corners.
THEOREM IterationCorrect ==
  ASSUME Corners = {}
  PROVE  Spec => []IterationAgrees
<1>1. Init => RingInv  BY RingInvInit
<1>2. RingInv /\ [Next]_vars => RingInv'  BY RingInvStep
<1>3. RingInv => IterationAgrees  BY RingIterationAgrees
<1> QED BY <1>1, <1>2, <1>3, PTL DEF Spec

-----------------------------------------------------------------------------
(* What the users of a queue need to know of it, without its slots: the    *)
(* emitter has two.                                                        *)

LEMMA QueueFacts ==
  ASSUME NEW q, IsQueue(q)
  PROVE  /\ Contents(q) \in Seq(Value) /\ Len(Contents(q)) = Length(q)
         /\ Length(q) \in Nat /\ Capacity(q) \in Nat /\ Length(q) <= Capacity(q)
         /\ Available(q) = Capacity(q) - Length(q)
         /\ CanPut(q) <=> Length(q) < Capacity(q)
         /\ CanGet(q) <=> Length(q) # 0
         /\ \A i \in 1..Length(q) :
              /\ q # NULL /\ Nth(q, i) \in DOMAIN q.buf /\ Nth(q, i) \in Nat
              /\ Contents(q)[i] = q.buf[Nth(q, i)]
              /\ Contents(q)[i] = Load(q, Nth(q, i))
         /\ \A i, j \in 1..Length(q) : Nth(q, i) = Nth(q, j) => i = j
<1>1. CASE q = NULL
  <2>1. Contents(q) \in Seq(Value) /\ Len(Contents(q)) = 0
    BY <1>1, EmptyContents
  <2>2. Available(NULL) = 0
    BY DEF Available
  <2> QED BY <1>1, <2>1, <2>2, NullQueue
<1>2. CASE IsRing(q)
  <2>1. PICK c \in Capacities \ {0} : \E h, t \in 0..c : RingOf(q, c, h, t)
    BY <1>2 DEF IsRing
  <2>2. PICK h \in 0..c, t \in 0..c : RingOf(q, c, h, t)
    BY <2>1
  <2> DEFINE n == Count(h, t, c)
  <2>3. c \in Nat \ {0} /\ h \in Nat /\ t \in Nat  BY QueueAssumption
  <2>4. /\ n \in 0..c /\ (Succ(t, c) # h <=> n < c) /\ (h # t <=> n # 0)
        /\ Length(q) = n /\ Available(q) = c - n /\ Capacity(q) = c /\ q # NULL
    BY <2>2, <2>3, CountBounds, LengthOfRing, AvailableOfRing, CapacityOfRing
  <2>5. Contents(q) \in Seq(Value) /\ Len(Contents(q)) = n
        /\ \A i \in 1..n : Contents(q)[i] = q.buf[At(Slot(h, i, c))]
    BY <2>2, ContentsOfRing
  <2>6. /\ CanPut(q) <=> n < c
        /\ CanGet(q) <=> n # 0
    BY <2>2, <2>4, <2>5, DequeOfRing, EmptySeq
  <2>7. ASSUME NEW i \in 1..n
        PROVE  /\ Nth(q, i) = At(Slot(h, i, c)) /\ Slot(h, i, c) \in 0..c
               /\ Nth(q, i) \in Nat
               /\ Nth(q, i) \in DOMAIN q.buf /\ Load(q, Nth(q, i)) = q.buf[Nth(q, i)]
    <3>1. i \in 1..(c + 1)
      BY <2>3, <2>4
    <3>2. Nth(q, i) = At(Slot(h, i, c)) /\ Slot(h, i, c) \in 0..c
      BY <2>2, <3>1, NthOfRing
    <3>3. Slot(h, i, c) \in Nat
      BY <2>3, <3>2
    <3>4. Nth(q, i) \in Nat
      BY <3>2, <3>3, AtType
    <3>5. Nth(q, i) \in DOMAIN q.buf /\ Load(q, Nth(q, i)) = q.buf[Nth(q, i)]
      BY <2>2, <3>2, LoadOfRing
    <3> QED BY <3>2, <3>4, <3>5
  <2>8. ASSUME NEW i \in 1..n, NEW j \in 1..n, Nth(q, i) = Nth(q, j)
        PROVE  i = j
    <3>1. Slot(h, i, c) \in Nat /\ Slot(h, j, c) \in Nat
          /\ At(Slot(h, i, c)) = At(Slot(h, j, c))
      BY <2>7, <2>8
    <3>2. Slot(h, i, c) = Slot(h, j, c)
      BY <3>1, AtOrder
    <3> QED BY <2>3, <2>4, <3>2 DEF Slot
  <2>9. n \in Nat /\ c \in Nat /\ n <= c
    BY <2>3, <2>4
  <2> HIDE DEF n
  <2> QED BY <2>4, <2>5, <2>6, <2>7, <2>8, <2>9
<1> QED BY <1>1, <1>2 DEF IsQueue

\* put() of an item: the others stay where they are.
LEMMA QueuePut ==
  ASSUME NEW q, IsQueue(q), NEW x \in Items, CanPut(q)
  PROVE  /\ IsQueue(Put(q, x)) /\ Capacity(Put(q, x)) = Capacity(q)
         /\ Contents(Put(q, x)) = Append(Contents(q), x)
         /\ \A i : Nth(Put(q, x), i) = Nth(q, i)
<1>1. IsRing(q)
  BY NullQueue DEF IsQueue
<1>2. PICK c \in Capacities \ {0} : \E h, t \in 0..c : RingOf(q, c, h, t)
  BY <1>1 DEF IsRing
<1>3. PICK h \in 0..c, t \in 0..c : RingOf(q, c, h, t)
  BY <1>2
<1>4. c \in Nat \ {0} /\ Succ(t, c) \in 0..c
  BY QueueAssumption, SlotType
<1>5. RingOf(Put(q, x), c, h, Succ(t, c))
  BY <1>3, PutOfRing
<1>6. x # NULL
  BY QueueAssumption DEF Value
<1>7. Contents(Put(q, x)) = Append(Contents(q), x)
  BY <1>3, <1>6, PutContents DEF Kept
<1>8. Capacity(Put(q, x)) = c /\ Capacity(q) = c
  BY <1>3, <1>4, <1>5, CapacityOfRing
<1>9. \A i : Nth(Put(q, x), i) = Nth(q, i)
  BY <1>3, <1>5 DEF Nth, RingOf
<1> QED BY <1>4, <1>5, <1>7, <1>8, <1>9, RingIntro DEF IsQueue

LEMMA QueueGet ==
  ASSUME NEW q, IsQueue(q), Length(q) # 0
  PROVE  /\ IsQueue(Get(q)) /\ Capacity(Get(q)) = Capacity(q)
         /\ Contents(Get(q)) = Tail(Contents(q))
         /\ Load(q, q.head) = Contents(q)[1]
<1>1. IsRing(q)
  BY NullQueue DEF IsQueue
<1>2. PICK c \in Capacities \ {0} : \E h, t \in 0..c : RingOf(q, c, h, t)
  BY <1>1 DEF IsRing
<1>3. PICK h \in 0..c, t \in 0..c : RingOf(q, c, h, t)
  BY <1>2
<1>4. c \in Nat \ {0} /\ Succ(h, c) \in 0..c
  BY QueueAssumption, SlotType
<1>5. h # t /\ Contents(q) # <<>> /\ Contents(q) \in Seq(Value)
  <2>1. Length(q) = Count(h, t, c) /\ Len(Contents(q)) = Count(h, t, c)
        /\ Contents(q) \in Seq(Value)
    BY <1>3, LengthOfRing, ContentsOfRing
  <2>2. h # t <=> Count(h, t, c) # 0
    BY <1>4, CountBounds
  <2> QED BY <2>1, <2>2, EmptySeq
<1>6. RingOf(Get(q), c, Succ(h, c), t)
  BY <1>3, <1>5, GetOfRing
<1>7. Contents(Get(q)) = Tail(Contents(q)) /\ Head(Contents(q)) = Load(q, q.head)
  BY <1>3, <1>5, GetContents
<1>8. Capacity(Get(q)) = c /\ Capacity(q) = c
  BY <1>3, <1>4, <1>6, CapacityOfRing
<1>9. Head(Contents(q)) = Contents(q)[1]
  BY <1>5
<1> QED BY <1>4, <1>6, <1>7, <1>8, <1>9, RingIntro DEF IsQueue

\* pop() where it need not wrap.
LEMMA QueuePop ==
  ASSUME NEW q, IsQueue(q), Length(q) # 0, q.tail # q.begin
  PROVE  /\ IsQueue(Pop(q)) /\ Capacity(Pop(q)) = Capacity(q)
         /\ Contents(Pop(q)) = SubSeq(Contents(q), 1, Length(q) - 1)
<1>1. IsRing(q)
  BY NullQueue DEF IsQueue
<1>2. PICK c \in Capacities \ {0} : \E h, t \in 0..c : RingOf(q, c, h, t)
  BY <1>1 DEF IsRing
<1>3. PICK h \in 0..c, t \in 0..c : RingOf(q, c, h, t)
  BY <1>2
<1>4. c \in Nat \ {0} /\ t # 0 /\ t - 1 \in 0..c
  BY <1>3, QueueAssumption DEF RingOf
<1>5. h # t /\ Len(Contents(q)) = Length(q)
  <2>1. Length(q) = Count(h, t, c) /\ Len(Contents(q)) = Count(h, t, c)
    BY <1>3, LengthOfRing, ContentsOfRing
  <2>2. h # t <=> Count(h, t, c) # 0
    BY <1>4, CountBounds
  <2> QED BY <2>1, <2>2
<1>6. RingOf(Pop(q), c, h, t - 1)
  BY <1>3, <1>4, <1>5, PopOfRing
<1>7. Contents(Pop(q)) = SubSeq(Contents(q), 1, Length(q) - 1)
  BY <1>3, <1>4, <1>5, PopContents
<1>8. Capacity(Pop(q)) = c /\ Capacity(q) = c
  BY <1>3, <1>4, <1>6, CapacityOfRing
<1> QED BY <1>4, <1>6, <1>7, <1>8, RingIntro DEF IsQueue

\* New values in the slots: the places stay.
LEMMA QueueRewrite ==
  ASSUME NEW q, IsQueue(q), q # NULL, NEW b \in [DOMAIN q.buf -> Value]
  PROVE  LET r == [q EXCEPT !.buf = b]
         IN  /\ IsQueue(r) /\ r # NULL /\ Capacity(r) = Capacity(q)
             /\ Length(r) = Length(q)
             /\ \A i : Nth(r, i) = Nth(q, i)
             /\ \A i \in 1..Length(q) : Contents(r)[i] = b[Nth(q, i)]
             /\ Peek(r) = Peek(q) /\ \A p : PeekNext(r, p) = PeekNext(q, p)
<1> DEFINE r == [q EXCEPT !.buf = b]
<1>1. IsRing(q)
  BY DEF IsQueue
<1>2. PICK c \in Capacities \ {0} : \E h, t \in 0..c : RingOf(q, c, h, t)
  BY <1>1 DEF IsRing
<1>3. PICK h \in 0..c, t \in 0..c : RingOf(q, c, h, t)
  BY <1>2
<1>4. b \in [Slots(c) -> Value]
  BY <1>3 DEF RingOf
<1>5. /\ r.begin = q.begin /\ r.end = q.end /\ r.head = q.head /\ r.tail = q.tail
      /\ r.item_size = q.item_size /\ r.buf = b
  BY <1>3 DEF RingOf, ControlBlock
<1>6. RingOf(r, c, h, t)
  BY <1>3, <1>4 DEF RingOf, ControlBlock, Slots, At
<1> HIDE DEF r
<1>7. r # NULL /\ q # NULL /\ Capacity(r) = c /\ Capacity(q) = c
  BY <1>3, <1>6, CapacityOfRing
<1>8. Length(r) = Length(q) /\ \A i : Nth(r, i) = Nth(q, i)
  BY <1>5, <1>7 DEF Length, Nth
<1>9. Peek(r) = Peek(q) /\ \A p : PeekNext(r, p) = PeekNext(q, p)
  BY <1>5, <1>7 DEF Peek, PeekNext, IsEmpty
<1>10. IsQueue(r)
  BY <1>6, RingIntro DEF IsQueue
<1>11. \A i \in 1..Length(q) : Contents(r)[i] = b[Nth(q, i)]
  BY <1>5, <1>8, <1>10, QueueFacts
<1> QED BY <1>7, <1>8, <1>9, <1>10, <1>11 DEF r
=============================================================================
