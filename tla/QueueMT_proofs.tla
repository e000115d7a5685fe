---------------------------- MODULE QueueMT_proofs ----------------------------
(***************************************************************************)
(* Proofs about QueueMT for any set of threads and items, any capacity,    *)
(* item size and width of the unsigned word.                               *)
(*                                                                         *)
(* Exclusion is inductive together with what each place of a body says:    *)
(* which lock its thread has, and that the position it has computed is a   *)
(* slot.  Positions are compared with Slots and End only, so the words and *)
(* their wrap-around are the matter of four lemmas.                        *)
(*                                                                         *)
(* Linearizable needs what each thread has read and stored as well         *)
(* (Knows), and what a move of head or tail does to the items, which       *)
(* CircularQueue_proofs has for one thread: its lemmas are instantiated.   *)
(***************************************************************************)
EXTENDS QueueMT, SequenceTheorems, TLAPS

Slots == {HeaderSize + k * ItemSize : k \in 0..Cap}
End == HeaderSize + (Cap + 1) * ItemSize

\* The places of the bodies of writers and of readers.
WritePlaces == {"test", "copy", "move", "wrap"}
ReadPlaces == {"load", "answer"}
Places == {"idle", "lock", "unlock"} \cup WritePlaces \cup ReadPlaces

Holding(t) == pc[t] \notin {"idle", "lock"}

\* A queue of this capacity with its positions where they may be.
QueueOK(q) ==
  /\ q = [begin |-> HeaderSize, end |-> End, head |-> q.head, tail |-> q.tail,
          item_size |-> ItemSize, buf |-> q.buf]
  /\ DOMAIN q.buf = Slots
  /\ q.tail \in Slots /\ q.head \in Slots \cup {End}

ThreadOK(t) ==
  /\ pc[t] \in Places
  /\ Holding(t) <=> (t \in readers \/ writer = t)
  /\ pc[t] \in WritePlaces => writer = t
  /\ pc[t] \in {"copy", "move"} /\ call[t].op \in {"put", "push"} => tmp[t] \in Slots

\* The inductive invariant.
Inv ==
  /\ QueueOK(m_q)
  /\ DOMAIN pc = Threads /\ DOMAIN tmp = Threads /\ DOMAIN call = Threads
  /\ writer \in Threads \cup {NULL} /\ readers \subseteq Threads
  /\ \A t \in Threads : ThreadOK(t)
  /\ writer # NULL => readers \subseteq {writer}
  /\ m_q.head \in Slots \/ \E t \in Threads : pc[t] = "wrap"

-----------------------------------------------------------------------------
(* Positions.                                                              *)

LEMMA SlotFacts ==
  /\ HeaderSize \in Slots /\ HeaderSize < End /\ End \notin Slots
  /\ \A o \in Slots :
       /\ o \in Nat /\ HeaderSize <= o /\ o + ItemSize <= End
       /\ o + ItemSize \in Slots \cup {End}
       /\ o # HeaderSize => o - ItemSize \in Slots
  /\ End - ItemSize \in Slots
  /\ End \in Nat /\ UMAX \in Nat /\ End < UMAX /\ ItemSize \in 1..HeaderSize /\ HeaderSize \in Nat
<1>1. /\ Cap \in Nat \ {0} /\ ItemSize \in Nat \ {0} /\ ItemSize <= HeaderSize
      /\ HeaderSize \in Nat /\ UMAX \in Nat /\ End < UMAX
  BY MTAssumption, HeaderAssumption DEF End
<1>2. (Cap + 1) * ItemSize = Cap * ItemSize + ItemSize /\ Cap * ItemSize \in Nat
  BY <1>1
<1>3. HeaderSize \in Slots /\ HeaderSize < End
  <2>1. HeaderSize = HeaderSize + 0 * ItemSize /\ 0 \in 0..Cap
    BY <1>1
  <2>2. HeaderSize \in Slots
    BY <2>1 DEF Slots
  <2>3. HeaderSize < End
    BY <1>1, <1>2 DEF End
  <2> QED BY <2>2, <2>3
<1>4. ASSUME NEW k \in 0..Cap
      PROVE  /\ k * ItemSize \in Nat
             /\ k * ItemSize <= Cap * ItemSize
             /\ k * ItemSize + ItemSize = (k + 1) * ItemSize
             /\ k # 0 => k * ItemSize - ItemSize = (k - 1) * ItemSize
  <2>1. k \in Nat /\ k <= Cap
    BY <1>1
  <2>2. k * ItemSize <= Cap * ItemSize
    BY <1>1, <2>1
  <2> QED BY <1>1, <2>1, <2>2
<1>5. ASSUME NEW o \in Slots
      PROVE  /\ o \in Nat /\ HeaderSize <= o /\ o + ItemSize <= End
             /\ o + ItemSize \in Slots \cup {End}
             /\ o # HeaderSize => o - ItemSize \in Slots
  <2>1. PICK k \in 0..Cap : o = HeaderSize + k * ItemSize
    BY DEF Slots
  <2>2. o \in Nat /\ HeaderSize <= o /\ o + ItemSize <= End
    BY <1>1, <1>2, <1>4, <2>1 DEF End
  <2>3. o + ItemSize \in Slots \cup {End}
    <3>1. o + ItemSize = HeaderSize + (k + 1) * ItemSize
      BY <1>1, <1>4, <2>1
    <3>2. k + 1 \in 0..Cap \/ k = Cap
      BY <1>1
    <3> QED BY <3>1, <3>2 DEF Slots, End
  <2>4. ASSUME o # HeaderSize PROVE o - ItemSize \in Slots
    <3>1. k # 0
      BY <1>1, <2>1, <2>4
    <3>2. o - ItemSize = HeaderSize + (k - 1) * ItemSize /\ k - 1 \in 0..Cap
      BY <1>1, <1>4, <2>1, <3>1
    <3> QED BY <3>2 DEF Slots
  <2> QED BY <2>2, <2>3, <2>4
<1>6. End \notin Slots
  BY <1>1, <1>5
<1>7. End - ItemSize \in Slots
  <2>1. End - ItemSize = HeaderSize + Cap * ItemSize /\ Cap \in 0..Cap
    BY <1>1, <1>2 DEF End
  <2> QED BY <2>1 DEF Slots
<1>8. End \in Nat
  BY <1>1, <1>2 DEF End
<1> QED BY <1>1, <1>3, <1>5, <1>6, <1>7, <1>8

\* Where put(), push() and get() move tail and head.
LEMMA NoWrap ==
  ASSUME NEW o \in Slots
  PROVE  /\ U(o + ItemSize) = o + ItemSize
         /\ o # HeaderSize => U(o - ItemSize) = o - ItemSize
                              /\ ~(o - ItemSize < HeaderSize)
<1>1. /\ o \in Nat /\ ItemSize \in Nat /\ End \in Nat /\ UMAX \in Nat
      /\ o + ItemSize <= End /\ End < UMAX /\ HeaderSize \in Nat
  BY SlotFacts
<1>2. o # HeaderSize => o - ItemSize \in Nat /\ HeaderSize <= o - ItemSize
  BY SlotFacts
<1> QED BY <1>1, <1>2 DEF U

LEMMA NextPosIsSlot ==
  ASSUME QueueOK(m_q)
  PROVE  NextPos(m_q) \in Slots
<1>1. /\ m_q.begin = HeaderSize /\ m_q.end = End /\ m_q.item_size = ItemSize
      /\ m_q.tail \in Slots
  BY DEF QueueOK
<1>2. U(m_q.tail + ItemSize) = m_q.tail + ItemSize
  BY <1>1, NoWrap
<1> QED BY <1>1, <1>2, SlotFacts DEF NextPos

LEMMA PushPosIsSlot ==
  ASSUME QueueOK(m_q), m_q.head \in Slots
  PROVE  PushPos(m_q) \in Slots
<1>1. /\ m_q.begin = HeaderSize /\ m_q.end = End /\ m_q.item_size = ItemSize
  BY DEF QueueOK
<1>2. CASE m_q.head = HeaderSize
  <2>1. U(HeaderSize - ItemSize) = HeaderSize - ItemSize
        /\ HeaderSize - ItemSize < HeaderSize
        /\ U(End - ItemSize) = End - ItemSize
    BY SlotFacts DEF U
  <2> QED BY <1>1, <1>2, <2>1, SlotFacts DEF PushPos
<1>3. CASE m_q.head # HeaderSize
  <2>1. m_q.head - ItemSize \in Slots
    BY <1>3, SlotFacts
  <2>2. U(m_q.head - ItemSize) = m_q.head - ItemSize /\ ~(m_q.head - ItemSize < HeaderSize)
    BY <1>3, NoWrap
  <2> QED BY <1>1, <2>1, <2>2 DEF PushPos
<1> QED BY <1>2, <1>3

LEMMA GetPos ==
  ASSUME QueueOK(m_q), m_q.head \in Slots
  PROVE  U(m_q.head + m_q.item_size) \in Slots \cup {End}
<1>1. m_q.item_size = ItemSize
  BY DEF QueueOK
<1>2. U(m_q.head + ItemSize) = m_q.head + ItemSize
  BY NoWrap
<1> QED BY <1>1, <1>2, SlotFacts

\* init() in the constructor: the sizes of MTAssumption do not wrap.
LEMMA NewQueueOK == QueueOK(NewQueue(Cap, ItemSize))
                    /\ NewQueue(Cap, ItemSize).head \in Slots
<1>1. /\ Cap \in Nat \ {0} /\ ItemSize \in Nat \ {0} /\ UMAX \in Nat
      /\ HeaderSize \in Nat /\ HeaderSize + (Cap + 1) * ItemSize < UMAX
  BY MTAssumption, HeaderAssumption
<1>2. (Cap + 1) * ItemSize >= Cap + 1 /\ (Cap + 1) * ItemSize \in Nat
  BY <1>1
<1>3. (Cap + 1) % UMAX = Cap + 1
  BY <1>1, <1>2
<1>4. ((Cap + 1) * ItemSize) % UMAX = (Cap + 1) * ItemSize
  BY <1>1, <1>2
<1>5. U(HeaderSize + (Cap + 1) * ItemSize) = End
  BY <1>1, <1>2 DEF U, End
<1>6. NewQueue(Cap, ItemSize) =
        [begin |-> HeaderSize, end |-> End, head |-> HeaderSize, tail |-> HeaderSize,
         item_size |-> ItemSize, buf |-> [o \in Slots |-> Garbage]]
  BY <1>3, <1>4, <1>5 DEF NewQueue, Slots
<1> QED BY <1>6, SlotFacts DEF QueueOK

-----------------------------------------------------------------------------
(* Steps of the bodies.                                                    *)

LEMMA InvFacts ==
  ASSUME Inv, NEW t \in Threads
  PROVE  /\ ThreadOK(t) /\ NULL \notin Threads
         /\ pc[t] \in WritePlaces =>
              \A u \in Threads : Holding(u) => u = t
         /\ pc[t] \in WritePlaces \ {"wrap"} => m_q.head \in Slots
<1>1. ThreadOK(t) /\ NULL \notin Threads
  BY MTAssumption DEF Inv
<1>2. ASSUME pc[t] \in WritePlaces, NEW u \in Threads, Holding(u) PROVE u = t
  BY <1>1, <1>2 DEF Inv, ThreadOK
<1>3. ASSUME pc[t] \in WritePlaces \ {"wrap"} PROVE m_q.head \in Slots
  <2>1. ASSUME NEW u \in Threads, pc[u] = "wrap" PROVE FALSE
    BY <1>2, <1>3, <2>1 DEF Holding
  <2> QED BY <2>1 DEF Inv
<1> QED BY <1>1, <1>2, <1>3

\* A step inside a body, from one place that holds the lock to another: the
\* locks and the other threads are as they were.
LEMMA BodyInv ==
  ASSUME Inv, NEW t \in Threads, NEW l \in Places, Goto(t, l),
         Holding(t), l \notin {"idle", "lock"},
         l \in WritePlaces => pc[t] \in WritePlaces,
         UNCHANGED <<writer, readers, call>>,
         DOMAIN tmp' = Threads, \A u \in Threads \ {t} : tmp'[u] = tmp[u],
         l \in {"copy", "move"} /\ call[t].op \in {"put", "push"} => tmp'[t] \in Slots,
         QueueOK(m_q'),
         m_q'.head \in Slots \/ l = "wrap"
  PROVE  Inv'
<1>1. /\ pc' = [pc EXCEPT ![t] = l] /\ DOMAIN pc = Threads
      /\ DOMAIN pc' = Threads /\ pc'[t] = l
      /\ \A u \in Threads \ {t} : pc'[u] = pc[u]
  BY DEF Goto, Inv
<1>2. ASSUME NEW u \in Threads PROVE ThreadOK(u)'
  <2>1. CASE u = t
    BY <1>1, <2>1 DEF Inv, ThreadOK, Holding
  <2>2. CASE u # t
    BY <1>1, <2>2 DEF Inv, ThreadOK, Holding
  <2> QED BY <2>1, <2>2
<1>3. m_q'.head \in Slots \/ \E u \in Threads : pc'[u] = "wrap"
  BY <1>1
<1>4. \A u \in Threads : ThreadOK(u)'
  BY <1>2
<1>5. QueueOK(m_q)'
  BY DEF QueueOK
<1> QED BY <1>1, <1>3, <1>4, <1>5 DEF Inv

\* The three ways a body changes the queue.
LEMMA StoreOK ==
  ASSUME QueueOK(m_q), NEW o, NEW x
  PROVE  LET q == [m_q EXCEPT !.buf = Store(m_q, o, x)]
         IN  QueueOK(q) /\ q.head = m_q.head
<1>1. DOMAIN Store(m_q, o, x) = Slots
  BY DEF QueueOK, Store
<1> DEFINE b == Store(m_q, o, x)
<1> HIDE DEF b
<1>2. [m_q EXCEPT !.buf = b] =
        [begin |-> HeaderSize, end |-> End, head |-> m_q.head, tail |-> m_q.tail,
         item_size |-> ItemSize, buf |-> b]
  BY DEF QueueOK
<1> QED BY <1>1, <1>2 DEF QueueOK, b

LEMMA HeadOK ==
  ASSUME QueueOK(m_q), NEW o \in Slots \cup {End}
  PROVE  LET q == [m_q EXCEPT !.head = o]
         IN  QueueOK(q) /\ q.head = o
<1>1. [m_q EXCEPT !.head = o] =
        [begin |-> HeaderSize, end |-> End, head |-> o, tail |-> m_q.tail,
         item_size |-> ItemSize, buf |-> m_q.buf]
  BY DEF QueueOK
<1> QED BY <1>1 DEF QueueOK

LEMMA TailOK ==
  ASSUME QueueOK(m_q), NEW o \in Slots
  PROVE  LET q == [m_q EXCEPT !.tail = o]
         IN  QueueOK(q) /\ q.head = m_q.head
<1>1. [m_q EXCEPT !.tail = o] =
        [begin |-> HeaderSize, end |-> End, head |-> m_q.head, tail |-> o,
         item_size |-> ItemSize, buf |-> m_q.buf]
  BY DEF QueueOK
<1> QED BY <1>1 DEF QueueOK

LEMMA StepInv ==
  ASSUME Inv, NEW t \in Threads, Body(t)
  PROVE  Inv'
<1>a. /\ QueueOK(m_q) /\ ThreadOK(t) /\ DOMAIN tmp = Threads
      /\ pc[t] \in WritePlaces \ {"wrap"} => m_q.head \in Slots
  BY InvFacts DEF Inv
<1>b. ASSUME NEW v, SetTmp(t, v)
      PROVE  DOMAIN tmp' = Threads /\ tmp'[t] = v /\ \A u \in Threads \ {t} : tmp'[u] = tmp[u]
  BY <1>a, <1>b DEF SetTmp
<1>1. CASE PutTest(t)
  <2>1. NextPos(m_q) \in Slots
    BY <1>a, NextPosIsSlot
  <2> QED BY <1>1, <1>a, <1>b, <2>1, BodyInv
          DEF PutTest, At, Holding, WritePlaces, Places
<1>2. CASE PutCopy(t)
  BY <1>2, <1>a, StoreOK, BodyInv
  DEF PutCopy, At, Holding, WritePlaces, Places, ThreadOK
<1>3. CASE PutMove(t)
  BY <1>3, <1>a, TailOK, BodyInv
  DEF PutMove, At, Holding, WritePlaces, Places, ThreadOK
<1>4. CASE PushTest(t)
  <2>1. PushPos(m_q) \in Slots
    BY <1>4, <1>a, PushPosIsSlot DEF PushTest, At, WritePlaces
  <2> QED BY <1>4, <1>a, <1>b, <2>1, BodyInv
          DEF PushTest, At, Holding, WritePlaces, Places
<1>5. CASE PushCopy(t)
  BY <1>5, <1>a, StoreOK, BodyInv
  DEF PushCopy, At, Holding, WritePlaces, Places, ThreadOK
<1>6. CASE PushMove(t)
  BY <1>6, <1>a, HeadOK, BodyInv
  DEF PushMove, At, Holding, WritePlaces, Places, ThreadOK
<1>7. CASE GetTest(t)
  BY <1>7, <1>a, BodyInv DEF GetTest, At, Gets, Holding, WritePlaces, Places
<1>8. CASE GetCopy(t)
  BY <1>8, <1>a, <1>b, BodyInv DEF GetCopy, At, Gets, Holding, WritePlaces, Places
<1>9. CASE GetMove(t)
  <2>1. U(m_q.head + m_q.item_size) \in Slots \cup {End}
    BY <1>9, <1>a, GetPos DEF GetMove, At, WritePlaces
  <2>2. QueueOK(m_q')
    BY <1>9, <1>a, <2>1, HeadOK DEF GetMove
  <2> QED BY <1>9, <1>a, <2>2, BodyInv DEF GetMove, At, Gets, Holding, WritePlaces, Places
<1>10. CASE GetWrap(t)
  <2>1. (IF m_q.head = m_q.end THEN m_q.begin ELSE m_q.head) \in Slots
    BY <1>a, SlotFacts DEF QueueOK
  <2>2. QueueOK(m_q') /\ m_q'.head \in Slots
    BY <1>10, <1>a, <2>1, HeadOK DEF GetWrap
  <2> QED BY <1>10, <1>a, <2>2, BodyInv DEF GetWrap, At, Gets, Holding, WritePlaces, Places
<1>11. CASE LoadHead(t) \/ ReadAnswer(t)
  <2>1. pc[t] \in ReadPlaces /\ UNCHANGED <<m_q, writer, readers, call>>
    BY <1>11 DEF LoadHead, ReadAnswer, At, ReadPlaces
  <2>2. PICK l \in {"answer", "unlock"} : Goto(t, l)
    BY <1>11 DEF LoadHead, ReadAnswer
  <2>3. DOMAIN tmp' = Threads /\ \A u \in Threads \ {t} : tmp'[u] = tmp[u]
    BY <1>11, <1>a, <1>b DEF LoadHead, ReadAnswer
  \* A reader may load head while nobody writes only.
  <2>4. m_q.head \in Slots
    <3>1. ASSUME NEW u \in Threads, pc[u] = "wrap" PROVE FALSE
      BY <2>1, <3>1, InvFacts DEF Holding, WritePlaces, ReadPlaces
    <3> QED BY <3>1 DEF Inv
  <2> QED BY <1>a, <2>1, <2>2, <2>3, <2>4, BodyInv
          DEF Holding, WritePlaces, ReadPlaces, Places
<1> QED BY <1>1, <1>2, <1>3, <1>4, <1>5, <1>6, <1>7, <1>8, <1>9, <1>10, <1>11 DEF Body

-----------------------------------------------------------------------------
(* The lock, and the invariant.                                            *)

LEMMA CallInv ==
  ASSUME Inv, NEW t \in Threads, Call(t)
  PROVE  Inv'
<1>1. /\ pc[t] = "idle" /\ pc' = [pc EXCEPT ![t] = "lock"]
      /\ DOMAIN call' = Threads /\ \A u \in Threads \ {t} : call'[u] = call[u]
      /\ UNCHANGED <<m_q, writer, readers, tmp>>
  BY DEF Call, Goto, Inv
<1>2. \A u \in Threads : ThreadOK(u)'
  BY <1>1 DEF Inv, ThreadOK, Holding, Places, WritePlaces, ReadPlaces
<1>3. QueueOK(m_q)'
  BY <1>1 DEF Inv, QueueOK
<1> QED BY <1>1, <1>2, <1>3 DEF Inv

LEMMA WriteLockInv ==
  ASSUME Inv, NEW t \in Threads, WriteLock(t)
  PROVE  Inv'
<1>1. /\ pc[t] = "lock" /\ pc' = [pc EXCEPT ![t] = "test"]
      /\ writer = NULL /\ readers = {} /\ writer' = t
      /\ UNCHANGED <<m_q, readers, call, tmp>>
  BY DEF WriteLock, At, Goto
<1>2. \A u \in Threads : ~Holding(u)
  BY <1>1, InvFacts DEF ThreadOK
<1>3. \A u \in Threads : ThreadOK(u)'
  BY <1>1, <1>2 DEF Inv, ThreadOK, Holding, Places, WritePlaces, ReadPlaces
<1>4. QueueOK(m_q)' /\ m_q'.head \in Slots
  BY <1>1, <1>2 DEF Inv, QueueOK, Holding
<1> QED BY <1>1, <1>3, <1>4 DEF Inv

LEMMA ReadLockInv ==
  ASSUME Inv, NEW t \in Threads, ReadLock(t)
  PROVE  Inv'
<1>1. /\ pc[t] = "lock" /\ pc' = [pc EXCEPT ![t] = "load"]
      /\ writer = NULL /\ readers' = readers \cup {t}
      /\ UNCHANGED <<m_q, writer, call, tmp>>
  BY DEF ReadLock, At, Goto
<1>2. \A u \in Threads : ThreadOK(u)'
  BY <1>1, InvFacts DEF Inv, ThreadOK, Holding, Places, WritePlaces, ReadPlaces
<1>3. QueueOK(m_q)'
  BY <1>1 DEF Inv, QueueOK
<1>4. \A u \in Threads : pc[u] # "wrap"
  BY <1>1, InvFacts DEF ThreadOK, WritePlaces
<1> QED BY <1>1, <1>2, <1>3, <1>4 DEF Inv

LEMMA UnlockInv ==
  ASSUME Inv, NEW t \in Threads, Unlock(t)
  PROVE  Inv'
<1>1. /\ pc[t] = "unlock" /\ pc' = [pc EXCEPT ![t] = "idle"]
      /\ writer' = (IF writer = t THEN NULL ELSE writer)
      /\ readers' = readers \ {t}
      /\ m_q' = m_q
      /\ DOMAIN call' = Threads /\ DOMAIN tmp' = Threads
      /\ \A u \in Threads \ {t} : call'[u] = call[u] /\ tmp'[u] = tmp[u]
  BY DEF Unlock, Goto, Inv
<1>2. \A u \in Threads : ThreadOK(u)'
  <2>1. ThreadOK(t)'
    BY <1>1, InvFacts DEF Inv, ThreadOK, Holding, Places, WritePlaces, ReadPlaces
  <2>2. ASSUME NEW u \in Threads \ {t} PROVE ThreadOK(u)'
    <3>1. ThreadOK(u) /\ NULL \notin Threads
      BY InvFacts
    <3>2. pc'[u] = pc[u] /\ (u \in readers' <=> u \in readers)
          /\ (writer' = u <=> writer = u)
      BY <1>1, <3>1 DEF Inv
    <3> QED BY <1>1, <3>1, <3>2 DEF ThreadOK, Holding
  <2> QED BY <2>1, <2>2
<1>3. QueueOK(m_q)'
  BY <1>1 DEF Inv, QueueOK
<1>4. m_q'.head \in Slots \/ \E u \in Threads : pc'[u] = "wrap"
  BY <1>1 DEF Inv
<1>5. /\ writer' \in Threads \cup {NULL} /\ readers' \subseteq Threads
      /\ writer' # NULL => readers' \subseteq {writer'}
      /\ DOMAIN pc' = Threads
  BY <1>1 DEF Inv
<1> QED BY <1>1, <1>2, <1>3, <1>4, <1>5 DEF Inv

LEMMA InitInv == Init => Inv
<1> SUFFICES ASSUME Init PROVE Inv
  OBVIOUS
<1>1. QueueOK(m_q) /\ m_q.head \in Slots
  BY NewQueueOK DEF Init
<1>2. \A t \in Threads : ThreadOK(t)
  BY MTAssumption DEF Init, ThreadOK, Holding, Places, WritePlaces
<1> QED BY <1>1, <1>2 DEF Init, Inv

LEMMA NextInv ==
  ASSUME Inv, [Next]_vars
  PROVE  Inv'
<1>1. CASE UNCHANGED vars
  BY <1>1 DEF vars, Inv, QueueOK, ThreadOK, Holding
<1>2. CASE Next
  BY <1>2, CallInv, WriteLockInv, ReadLockInv, StepInv, UnlockInv DEF Next, Step
<1> QED BY <1>1, <1>2

-----------------------------------------------------------------------------
(* The theorem.                                                            *)

\* For any number of threads: a method runs its body only with the lock of its
\* kind, a writer runs alone, and no thread finds the positions between the
\* two updates of get() (AutoLockRead, AutoLockWrite in QueueMT's methods).
THEOREM QueueExclusion == Spec => []Exclusion
<1>1. Inv /\ [Next]_vars => Inv'
  BY NextInv
<1>2. Inv => Exclusion
  <2> SUFFICES ASSUME Inv PROVE Exclusion
    OBVIOUS
  <2> DEFINE holders == {t \in Threads : pc[t] \notin {"idle", "lock"}}
  <2>1. \A t \in Threads : t \in holders <=> (t \in readers \/ writer = t)
    BY InvFacts DEF ThreadOK, Holding
  <2>2. holders = readers \cup ({writer} \ {NULL})
    BY <2>1, InvFacts, MTAssumption DEF Inv
  <2>3. writer # NULL => holders = {writer}
    BY <2>2 DEF Inv
  <2>4. ASSUME writer = NULL \/ pc[writer] = "unlock"
        PROVE  {m_q.head, m_q.tail} \subseteq DOMAIN m_q.buf
    <3>1. ASSUME NEW u \in Threads, pc[u] = "wrap" PROVE FALSE
      BY <2>4, <3>1, InvFacts DEF ThreadOK, WritePlaces
    <3> QED BY <3>1 DEF Inv, QueueOK
  <2> QED BY <2>2, <2>3, <2>4 DEF Exclusion
<1> QED BY InitInv, <1>1, <1>2, PTL DEF Spec

-----------------------------------------------------------------------------
(* The queue as a ring.  What CircularQueue_proofs says of rings is used   *)
(* for the one capacity of this queue.                                     *)

Ring == INSTANCE CircularQueue_proofs WITH
          Capacities <- {Cap}, Ops <- {}, Corners <- {}, out <- NULL, fault <- FALSE

\* A queue whose slots hold values and whose head is not at the end.
WholeQueue(q) == QueueOK(q) /\ q.buf \in [Slots -> Value] /\ q.head \in Slots

LEMMA RingAssumed ==
  /\ Ring!QueueAssumption /\ Ring!HeaderAssumption
  /\ Cap \in {Cap} \ {0} /\ Cap \in Nat \ {0} /\ ItemSize <= HeaderSize
  /\ Ring!Value = Value
<1>1. Ring!QueueAssumption /\ Ring!HeaderAssumption
  BY MTAssumption, HeaderAssumption
  DEF Ring!QueueAssumption, Ring!HeaderAssumption, Ring!Value, Value, Ring!AllOps,
      Ring!AllCorners, Ring!ControlBlock, ControlBlocks
<1>2. Cap \in {Cap} \ {0} /\ Cap \in Nat \ {0} /\ ItemSize <= HeaderSize
  BY MTAssumption, HeaderAssumption
<1> QED BY <1>1, <1>2 DEF Ring!Value, Value

\* The operators of the queue are the ring's.
LEMMA SameOperators ==
  ASSUME NEW q
  PROVE  /\ Ring!Contents(q) = Contents(q)
         /\ \A i : Ring!Load(q, i) = Load(q, i)
         /\ Ring!NextPos(q) = NextPos(q) /\ Ring!PushPos(q) = PushPos(q)
         /\ Ring!IsEmpty(q) <=> IsEmpty(q)
         /\ Ring!IsFull(q) <=> IsFull(q)
         /\ Ring!Length(q) = Length(q) /\ Ring!Available(q) = Available(q)
<1>1. \A x : Ring!U(x) = U(x)
  BY DEF Ring!U, U
<1>2. \A i : Ring!Load(q, i) = Load(q, i)
  BY DEF Ring!Load, Load
<1>3. Ring!Length(q) = Length(q)
  BY <1>1 DEF Ring!Length, Length
<1>4. \A i : Ring!Nth(q, i) = Nth(q, i)
  BY DEF Ring!Nth, Nth
<1>5. Ring!Contents(q) = Contents(q)
  BY <1>2, <1>3, <1>4 DEF Ring!Contents, Contents
<1>6. Ring!NextPos(q) = NextPos(q) /\ Ring!PushPos(q) = PushPos(q)
  BY <1>1 DEF Ring!NextPos, NextPos, Ring!PushPos, PushPos
<1>7. Ring!Available(q) = Available(q)
  BY <1>1 DEF Ring!Available, Available
<1>8. (Ring!IsEmpty(q) <=> IsEmpty(q)) /\ (Ring!IsFull(q) <=> IsFull(q))
  BY <1>6 DEF Ring!IsEmpty, IsEmpty, Ring!IsFull, IsFull
<1> QED BY <1>2, <1>3, <1>5, <1>6, <1>7, <1>8

LEMMA WholeIsRing ==
  ASSUME NEW q, WholeQueue(q)
  PROVE  \E h, t \in 0..Cap : Ring!RingOf(q, Cap, h, t)
<1>1. PICK h \in 0..Cap : q.head = Ring!At(h)
  BY DEF WholeQueue, Slots, Ring!At
<1>2. PICK t \in 0..Cap : q.tail = Ring!At(t)
  BY DEF WholeQueue, QueueOK, Slots, Ring!At
<1>3. /\ Ring!Slots(Cap) = Slots /\ Ring!Value = Value
      /\ Ring!At(Cap + 1) = End /\ Ring!At(0) = HeaderSize
  BY RingAssumed, HeaderAssumption, MTAssumption
  DEF Ring!Slots, Slots, Ring!At, Ring!Value, Value, End
<1>4. q.tail \in Nat /\ q.head \in Nat /\ End \in Nat /\ HeaderSize \in Nat /\ ItemSize \in Nat
  BY SlotFacts DEF WholeQueue, QueueOK
<1>5. q \in Ring!ControlBlock(Cap)
  BY <1>3, <1>4 DEF WholeQueue, QueueOK, Ring!ControlBlock, Slots
<1> QED BY <1>1, <1>2, <1>3, <1>5 DEF Ring!RingOf, WholeQueue, QueueOK

\* What the readers return.
LEMMA WholeAnswers ==
  ASSUME NEW q, WholeQueue(q)
  PROVE  /\ Contents(q) \in Seq(Value) /\ Len(Contents(q)) \in 0..Cap
         /\ Length(q) = Len(Contents(q))
         /\ Available(q) = Cap - Len(Contents(q))
         /\ IsEmpty(q) <=> Contents(q) = <<>>
         /\ IsFull(q) <=> Len(Contents(q)) = Cap
<1>1. PICK h \in 0..Cap, t \in 0..Cap : Ring!RingOf(q, Cap, h, t)
  BY WholeIsRing
<1> DEFINE n == Ring!Count(h, t, Cap)
<1>2. Ring!Contents(q) \in Seq(Ring!Value) /\ Len(Ring!Contents(q)) = n
  BY <1>1, RingAssumed, Ring!ContentsOfRing DEF Ring!QueueAssumption, Ring!HeaderAssumption
<1>3. Ring!Length(q) = n
  BY <1>1, RingAssumed, Ring!LengthOfRing DEF Ring!QueueAssumption, Ring!HeaderAssumption
<1>4. Ring!Available(q) = Cap - n
  BY <1>1, RingAssumed, Ring!AvailableOfRing DEF Ring!QueueAssumption, Ring!HeaderAssumption
<1>5. n \in 0..Cap
  BY RingAssumed DEF Ring!Count
<1>6. /\ Ring!Capacity(q) = Cap
      /\ Ring!CanPut(q) <=> Len(Ring!Contents(q)) < Ring!Capacity(q)
      /\ Ring!CanGet(q) <=> Ring!Contents(q) # <<>>
  BY <1>1, RingAssumed, Ring!DequeOfRing DEF Ring!QueueAssumption, Ring!HeaderAssumption
<1>7. (IsFull(q) <=> ~(Len(Contents(q)) < Cap)) /\ (IsEmpty(q) <=> Contents(q) = <<>>)
  BY <1>6, SameOperators DEF Ring!CanPut, Ring!CanGet
<1> QED BY <1>2, <1>3, <1>4, <1>5, <1>7, SameOperators, RingAssumed

LEMMA RingPositions ==
  ASSUME NEW q, NEW h \in 0..Cap, NEW t \in 0..Cap, Ring!RingOf(q, Cap, h, t)
  PROVE  /\ NextPos(q) = Ring!At(Ring!Succ(t, Cap))
         /\ PushPos(q) = Ring!At(Ring!Pred(h, Cap))
         /\ CanPush(q) /\ q # NULL
<1>1. /\ Ring!CanPush(q)
      /\ Ring!PushPos(q) = Ring!At(Ring!Pred(h, Cap))
  BY RingAssumed, Ring!PushOfRing DEF Ring!QueueAssumption, Ring!HeaderAssumption
<1>2. Ring!NextPos(q) = Ring!At(Ring!Succ(t, Cap))
  BY RingAssumed, Ring!NextPosOfRing DEF Ring!QueueAssumption, Ring!HeaderAssumption
<1> QED BY <1>1, <1>2, SameOperators DEF Ring!CanPush, CanPush

\* Where the next put() and push() store nothing is read.
LEMMA StoreInFree ==
  ASSUME NEW q, WholeQueue(q), NEW x \in Items \cup {NULL},
         NEW o \in {q.tail, PushPos(q)}
  PROVE  LET r == [q EXCEPT !.buf = Store(q, o, x)]
         IN  /\ WholeQueue(r) /\ Contents(r) = Contents(q)
             /\ r.head = q.head /\ r.tail = q.tail
             /\ NextPos(r) = NextPos(q) /\ PushPos(r) = PushPos(q)
             /\ IsFull(r) <=> IsFull(q)
             /\ IsEmpty(r) <=> IsEmpty(q)
             /\ x # NULL => r.buf[o] = x
<1> DEFINE b == Store(q, o, x)
           r == [q EXCEPT !.buf = b]
<1>1. PICK h \in 0..Cap, t \in 0..Cap : Ring!RingOf(q, Cap, h, t)
  BY WholeIsRing
<1>2. PICK k \in {t, Ring!Pred(h, Cap)} : o = Ring!At(k)
  BY <1>1, RingPositions DEF Ring!RingOf
<1>3. k \in 0..Cap /\ Cap \in Nat /\ h \in Nat /\ t \in Nat
  BY <1>2, RingAssumed DEF Ring!Pred
<1>a. o \in Slots
  BY <1>2, <1>3 DEF Slots, Ring!At
<1>4. /\ b \in [Slots -> Value]
      /\ \A s \in Slots : s # o => b[s] = q.buf[s]
      /\ x # NULL => b[o] = x
  BY <1>a DEF Store, WholeQueue, Value
<1> HIDE DEF b
<1>5. r = [begin |-> HeaderSize, end |-> End, head |-> q.head, tail |-> q.tail,
           item_size |-> ItemSize, buf |-> b]
  BY DEF WholeQueue, QueueOK
<1>6. WholeQueue(r)
  BY <1>4, <1>5 DEF WholeQueue, QueueOK
<1>7. q # NULL /\ r # NULL
  <2>1. PICK h2 \in 0..Cap, t2 \in 0..Cap : Ring!RingOf(r, Cap, h2, t2)
    BY <1>6, WholeIsRing
  <2> QED BY <1>1, <2>1, RingPositions
<1>8. /\ r.begin = q.begin /\ r.end = q.end /\ r.head = q.head /\ r.tail = q.tail
      /\ r.item_size = q.item_size /\ r.buf = b
  BY <1>5 DEF WholeQueue, QueueOK
<1> HIDE DEF r
<1>9. /\ NextPos(r) = NextPos(q) /\ PushPos(r) = PushPos(q)
      /\ IsFull(r) <=> IsFull(q)
      /\ IsEmpty(r) <=> IsEmpty(q)
      /\ Length(r) = Length(q)
  BY <1>7, <1>8 DEF NextPos, PushPos, IsFull, IsEmpty, Length
<1>10. Ring!RingOf(r, Cap, h, t)
  <2>1. r \in Ring!ControlBlock(Cap)
    <3>1. PICK h2 \in 0..Cap, t2 \in 0..Cap : Ring!RingOf(r, Cap, h2, t2)
      BY <1>6, WholeIsRing
    <3> QED BY <3>1 DEF Ring!RingOf
  <2>2. b \in [Ring!Slots(Cap) -> Ring!Value]
    BY <1>4, RingAssumed DEF Ring!Slots, Ring!At, Slots
  <2> QED BY <1>1, <1>8, <2>1, <2>2 DEF Ring!RingOf
<1> DEFINE n == Ring!Count(h, t, Cap)
<1>11. /\ Ring!Contents(q) \in Seq(Ring!Value) /\ Len(Ring!Contents(q)) = n
       /\ \A i \in 1..n : Ring!Contents(q)[i] = q.buf[Ring!At(Ring!Slot(h, i, Cap))]
  BY <1>1, RingAssumed, Ring!ContentsOfRing DEF Ring!QueueAssumption, Ring!HeaderAssumption
<1>12. /\ Ring!Contents(r) \in Seq(Ring!Value) /\ Len(Ring!Contents(r)) = n
       /\ \A i \in 1..n : Ring!Contents(r)[i] = r.buf[Ring!At(Ring!Slot(h, i, Cap))]
  BY <1>10, RingAssumed, Ring!ContentsOfRing DEF Ring!QueueAssumption, Ring!HeaderAssumption
<1>13. ASSUME NEW i \in 1..n
       PROVE  r.buf[Ring!At(Ring!Slot(h, i, Cap))] = q.buf[Ring!At(Ring!Slot(h, i, Cap))]
  <2> DEFINE j == Ring!Slot(h, i, Cap)
  <2>1. j \in 0..Cap /\ j # k
    BY <1>2, <1>3, <1>13, RingAssumed DEF Ring!Slot, Ring!Count, Ring!Pred
  <2>2. Ring!At(j) # o
    BY <1>2, <1>3, <2>1, RingAssumed, Ring!AtOrder DEF Ring!QueueAssumption, Ring!HeaderAssumption
  <2>3. Ring!At(j) \in Slots
    BY <2>1 DEF Slots, Ring!At
  <2> QED BY <1>4, <1>8, <2>2, <2>3
<1>14. Contents(r) = Contents(q)
  <2>1. Ring!Contents(r) = Ring!Contents(q)
    BY <1>11, <1>12, <1>13, SeqEqual
  <2> QED BY <2>1, SameOperators
<1> QED BY <1>4, <1>6, <1>8, <1>9, <1>14 DEF r, b

\* The moves of tail and head, each after the item has been stored or read.
LEMMA PutMoves ==
  ASSUME NEW q, WholeQueue(q), ~IsFull(q)
  PROVE  LET r == [q EXCEPT !.tail = NextPos(q)]
         IN  /\ Contents(r) = Append(Contents(q), q.buf[q.tail])
             /\ q.buf[q.tail] \in Value
<1> DEFINE r == [q EXCEPT !.tail = NextPos(q)]
<1>1. PICK h \in 0..Cap, t \in 0..Cap : Ring!RingOf(q, Cap, h, t)
  BY WholeIsRing
<1>2. Ring!CanPut(q)
  BY SameOperators DEF Ring!CanPut
<1>3. Ring!Put(q, NULL) = r
  BY <1>2, SameOperators DEF Ring!Put, Ring!Store, WholeQueue, QueueOK
<1>4. Ring!Contents(Ring!Put(q, NULL)) =
        Append(Ring!Contents(q), Ring!Kept(q, Ring!At(t), NULL))
  BY <1>1, <1>2, RingAssumed, Ring!PutContents DEF Ring!QueueAssumption, Ring!HeaderAssumption
<1>5. Ring!Kept(q, Ring!At(t), NULL) = q.buf[q.tail]
  BY <1>1 DEF Ring!Kept, Ring!RingOf
<1>6. q.buf[q.tail] \in Value
  BY DEF WholeQueue, QueueOK
<1> HIDE DEF r
<1>7. Ring!Contents(r) = Contents(r) /\ Ring!Contents(q) = Contents(q)
  BY SameOperators
<1> QED BY <1>3, <1>4, <1>5, <1>6, <1>7 DEF r

\* On a full queue head is moved onto tail.
LEMMA PushMoves ==
  ASSUME NEW q, WholeQueue(q)
  PROVE  LET r == [q EXCEPT !.head = PushPos(q)]
         IN  /\ Contents(r) = IF Len(Contents(q)) < Cap
                              THEN <<q.buf[PushPos(q)]>> \o Contents(q) ELSE <<>>
             /\ q.buf[PushPos(q)] \in Value
             /\ CanPush(q)
<1> DEFINE p == PushPos(q)
           r == [q EXCEPT !.head = p]
<1>1. PICK h \in 0..Cap, t \in 0..Cap : Ring!RingOf(q, Cap, h, t)
  BY WholeIsRing
<1>2. p = Ring!At(Ring!Pred(h, Cap)) /\ CanPush(q)
  BY <1>1, RingPositions
<1>a. Ring!Pred(h, Cap) \in 0..Cap
  BY RingAssumed DEF Ring!Pred
<1>3. q.buf[p] \in Value
  <2>1. p \in Slots
    BY <1>2, <1>a DEF Slots, Ring!At
  <2> QED BY <2>1 DEF WholeQueue
<1>4. Ring!Push(q, NULL) = r
  BY <1>2, SameOperators DEF Ring!Push, Ring!CanPush, CanPush, Ring!Store, WholeQueue, QueueOK
<1>5. Ring!RingOf(Ring!Push(q, NULL), Cap, Ring!Pred(h, Cap), t)
  <2>1. h = 0 => ItemSize <= HeaderSize
    BY RingAssumed
  <2>2. NULL \in Items \cup {NULL}
    OBVIOUS
  <2> QED BY <1>1, <2>1, <2>2, RingAssumed, Ring!PushOfRing
          DEF Ring!QueueAssumption, Ring!HeaderAssumption
<1>6. Len(Contents(q)) < Cap <=> ~IsFull(q)
  BY WholeAnswers, RingAssumed
<1>7. CASE ~IsFull(q)
  <2>1. ~Ring!IsFull(q)
    BY <1>7, SameOperators
  <2>2. Ring!Contents(Ring!Push(q, NULL)) =
          <<Ring!Kept(q, Ring!At(Ring!Pred(h, Cap)), NULL)>> \o Ring!Contents(q)
    BY <1>1, <2>1, RingAssumed, Ring!PushContents DEF Ring!QueueAssumption, Ring!HeaderAssumption
  <2>3. Ring!Kept(q, Ring!At(Ring!Pred(h, Cap)), NULL) = q.buf[p]
    BY <1>2 DEF Ring!Kept
  <2> HIDE DEF r, p
  <2>4. Contents(r) = <<q.buf[p]>> \o Contents(q)
    BY <1>4, <2>2, <2>3, SameOperators
  <2> QED BY <1>2, <1>3, <1>6, <1>7, <2>4 DEF r, p
<1>8. CASE IsFull(q)
  <2>1. Ring!Pred(h, Cap) = t
    <3>1. Ring!Succ(t, Cap) = h
      <4>1. ~Ring!CanPut(q)
        BY <1>8, SameOperators DEF Ring!CanPut
      <4> QED BY <1>1, <4>1, RingAssumed, Ring!PutOfRing
              DEF Ring!QueueAssumption, Ring!HeaderAssumption
    <3> QED BY <3>1, RingAssumed DEF Ring!Succ, Ring!Pred
  <2>2. Ring!Contents(Ring!Push(q, NULL)) = <<>>
    BY <1>1, <1>5, <2>1, RingAssumed, Ring!EmptyContents
    DEF Ring!QueueAssumption, Ring!HeaderAssumption
  <2> HIDE DEF r
  <2>3. Contents(r) = <<>>
    BY <1>4, <2>2, SameOperators
  <2> QED BY <1>2, <1>3, <1>6, <1>8, <2>3 DEF r
<1> QED BY <1>7, <1>8

\* Head at the end, before it is wrapped, shows the same items as at begin.
LEMMA EndContents ==
  ASSUME NEW q, QueueOK(q), q.buf \in [Slots -> Value], q.head = End
  PROVE  Contents([q EXCEPT !.head = q.begin]) = Contents(q)
<1> DEFINE r == [q EXCEPT !.head = q.begin]
<1>1. /\ r.head = HeaderSize /\ r.tail = q.tail /\ r.begin = HeaderSize /\ r.end = End
      /\ r.item_size = ItemSize /\ r.buf = q.buf
      /\ q.begin = HeaderSize /\ q.end = End /\ q.item_size = ItemSize
      /\ q.tail \in Slots
  BY DEF QueueOK
<1>2. PICK t \in 0..Cap : q.tail = HeaderSize + t * ItemSize
  BY <1>1 DEF Slots
<1>3. /\ HeaderSize \in Nat /\ ItemSize \in Nat \ {0} /\ End \in Nat /\ UMAX \in Nat
      /\ End < UMAX /\ Cap \in Nat /\ t \in Nat
  BY SlotFacts, RingAssumed
<1>4. q # NULL /\ r # NULL
  <2>1. q \in ControlBlocks /\ r \in ControlBlocks
    <3>1. q.tail \in Nat
      BY <1>1, SlotFacts
    <3> QED BY <1>1, <1>3, <3>1 DEF QueueOK, ControlBlocks, Slots
  <2> QED BY <2>1, MTAssumption
<1> HIDE DEF r
<1>5. t * ItemSize \in Nat /\ HeaderSize + t * ItemSize < End
  BY <1>1, <1>2, <1>3, SlotFacts
<1>6. Length(q) = (t * ItemSize) \div ItemSize /\ Length(r) = (t * ItemSize) \div ItemSize
  BY <1>1, <1>2, <1>3, <1>4, <1>5 DEF Length, U
<1>7. (t * ItemSize) \div ItemSize = t
  BY <1>3
<1>8. ASSUME NEW i \in 1..t PROVE Nth(q, i) = Nth(r, i)
  <2>1. (i - 1) * ItemSize \in Nat /\ (i - 1) * ItemSize < t * ItemSize
    BY <1>3
  <2> QED BY <1>1, <1>3, <1>5, <2>1 DEF Nth
<1>9. \A o : Load(q, o) = Load(r, o)
  BY <1>1 DEF Load
<1>10. Contents(q) = Contents(r)
  BY <1>6, <1>7, <1>8, <1>9 DEF Contents
<1> QED BY <1>10 DEF r

LEMMA GetMoves ==
  ASSUME NEW q, WholeQueue(q), ~IsEmpty(q)
  PROVE  LET r == [q EXCEPT !.head = U(q.head + q.item_size)]
         IN  /\ Contents(r) = Tail(Contents(q))
             /\ Contents(q) # <<>> /\ Load(q, q.head) = Head(Contents(q))
             /\ Load(q, q.head) \in Value
<1> DEFINE p == U(q.head + q.item_size)
           r == [q EXCEPT !.head = p]
<1>1. PICK h \in 0..Cap, t \in 0..Cap : Ring!RingOf(q, Cap, h, t)
  BY WholeIsRing
<1>2. h # t
  BY <1>1 DEF Ring!RingOf, IsEmpty
<1>3. /\ Ring!Contents(Ring!Get(q)) = Tail(Ring!Contents(q))
      /\ Head(Ring!Contents(q)) = Ring!Load(q, q.head)
  BY <1>1, <1>2, RingAssumed, Ring!GetContents DEF Ring!QueueAssumption, Ring!HeaderAssumption
<1>4. Load(q, q.head) \in Value
  BY DEF Load, WholeQueue, QueueOK, Value
<1>5. p \in Slots \cup {End}
  <2>1. q.item_size = ItemSize
    BY DEF WholeQueue, QueueOK
  <2>2. U(q.head + ItemSize) = q.head + ItemSize
    BY NoWrap DEF WholeQueue
  <2> QED BY <2>1, <2>2, SlotFacts DEF WholeQueue
<1>6. Ring!Get(q) = [q EXCEPT !.head = IF p = q.end THEN q.begin ELSE p]
  BY SameOperators DEF Ring!Get, Ring!CanGet, Ring!U, U
<1> HIDE DEF p
<1>7. /\ QueueOK(r) /\ r.head = p /\ r.buf = q.buf /\ q.end = End /\ r.begin = q.begin
  BY <1>5 DEF WholeQueue, QueueOK
<1>8. Contents(Ring!Get(q)) = Contents(r)
  <2>1. CASE p = End
    <3>1. Ring!Get(q) = [r EXCEPT !.head = r.begin]
      BY <1>6, <1>7, <2>1 DEF WholeQueue, QueueOK
    <3>2. r.buf \in [Slots -> Value] /\ r.head = End
      BY <1>7, <2>1 DEF WholeQueue
    <3> HIDE DEF r
    <3> QED BY <1>7, <3>1, <3>2, EndContents
  <2>2. CASE p # End
    BY <1>6, <1>7, <2>2
  <2> QED BY <2>1, <2>2
<1>9. Contents(q) # <<>>
  BY WholeAnswers
<1> HIDE DEF r
<1>10. Contents(r) = Tail(Contents(q)) /\ Load(q, q.head) = Head(Contents(q))
  BY <1>3, <1>8, SameOperators
<1> QED BY <1>4, <1>9, <1>10 DEF r, p
-----------------------------------------------------------------------------
(* What a thread knows at each place of a body.                            *)

PutKnows(t) ==
  /\ ~IsFull(m_q) /\ tmp[t] = NextPos(m_q)
  /\ pc[t] = "move" /\ call[t].item # NULL => m_q.buf[m_q.tail] = call[t].item

PushKnows(t) ==
  /\ tmp[t] = PushPos(m_q)
  /\ pc[t] = "move" /\ call[t].item # NULL => m_q.buf[tmp[t]] = call[t].item

GetKnows(t) ==
  /\ ~IsEmpty(m_q)
  /\ pc[t] = "move" => tmp[t] = Load(m_q, m_q.head)

Knows(t) ==
  /\ pc[t] = "idle" => call[t] = NULL
  /\ pc[t] # "idle" => call[t] \in Invocations
  /\ ret[t] = NULL <=> pc[t] \notin {"wrap", "unlock"}
  /\ pc[t] \in {"copy", "move"} /\ call[t].op = "put" => PutKnows(t)
  /\ pc[t] \in {"copy", "move"} /\ call[t].op = "push" => PushKnows(t)
  /\ pc[t] \in {"copy", "move"} /\ call[t].op \in Gets => GetKnows(t)
  /\ pc[t] = "answer" => tmp[t] = m_q.head

\* The inductive invariant of linearizability.
LinInv ==
  /\ Inv
  /\ m_q.buf \in [Slots -> Value]
  /\ DOMAIN ret = Threads
  /\ \A t \in Threads : Knows(t)

\* Inside a body the positions are slots, but between the updates of get().
LEMMA WholeInBody ==
  ASSUME LinInv, NEW t \in Threads, pc[t] \in {"test", "copy", "move"} \cup ReadPlaces
  PROVE  WholeQueue(m_q)
<1>1. QueueOK(m_q) /\ m_q.buf \in [Slots -> Value]
  BY DEF LinInv, Inv
<1>2. m_q.head \in Slots
  <2>1. ASSUME NEW u \in Threads, pc[u] = "wrap" PROVE FALSE
    BY <2>1, InvFacts DEF LinInv, Holding, WritePlaces, ReadPlaces
  <2> QED BY <2>1 DEF LinInv, Inv
<1> QED BY <1>1, <1>2 DEF WholeQueue

\* A step of t leaves what other threads hold alone.
OnlyBy(t) ==
  /\ DOMAIN ret' = Threads
  /\ \A u \in Threads \ {t} :
       pc'[u] = pc[u] /\ call'[u] = call[u] /\ tmp'[u] = tmp[u] /\ ret'[u] = ret[u]

LEMMA StepsOnlyBy ==
  ASSUME LinInv, NEW t \in Threads, Call(t) \/ Step(t)
  PROVE  OnlyBy(t)
<1>1. DOMAIN pc = Threads /\ DOMAIN tmp = Threads /\ DOMAIN call = Threads /\ DOMAIN ret = Threads
  BY DEF LinInv, Inv
<1>2. ASSUME NEW l, Goto(t, l) PROVE \A u \in Threads \ {t} : pc'[u] = pc[u]
  BY <1>1, <1>2 DEF Goto
<1>3. ASSUME NEW v, SetTmp(t, v) PROVE \A u \in Threads \ {t} : tmp'[u] = tmp[u]
  BY <1>1, <1>3 DEF SetTmp
<1>4. ASSUME NEW v, NEW x, Answers(t, v, x)
      PROVE  DOMAIN ret' = Threads /\ \A u \in Threads \ {t} : ret'[u] = ret[u]
  BY <1>1, <1>4 DEF Answers
<1>5. CASE Call(t) \/ WriteLock(t) \/ ReadLock(t) \/ Unlock(t)
  BY <1>1, <1>2, <1>5 DEF Call, WriteLock, ReadLock, Unlock, OnlyBy
<1>6. CASE PutTest(t) \/ PutCopy(t) \/ PutMove(t)
  BY <1>1, <1>2, <1>3, <1>4, <1>6 DEF PutTest, PutCopy, PutMove, OnlyBy
<1>7. CASE PushTest(t) \/ PushCopy(t) \/ PushMove(t)
  BY <1>1, <1>2, <1>3, <1>4, <1>7 DEF PushTest, PushCopy, PushMove, OnlyBy
<1>8. CASE GetTest(t) \/ GetCopy(t) \/ GetMove(t) \/ GetWrap(t)
  BY <1>1, <1>2, <1>3, <1>4, <1>8 DEF GetTest, GetCopy, GetMove, GetWrap, OnlyBy
<1>9. CASE LoadHead(t)
  BY <1>1, <1>2, <1>3, <1>9 DEF LoadHead, OnlyBy
<1>10. CASE ReadAnswer(t)
  <2>1. Goto(t, "unlock") /\ UNCHANGED <<call, tmp>> /\ \E v : Answers(t, v, NULL)
    BY <1>10 DEF ReadAnswer
  <2> QED BY <1>1, <1>2, <1>4, <2>1 DEF OnlyBy
<1> QED BY <1>5, <1>6, <1>7, <1>8, <1>9, <1>10 DEF Step, Body

LEMMA OthersKnow ==
  ASSUME LinInv, NEW t \in Threads, Call(t) \/ Step(t),
         Inv', m_q'.buf \in [Slots -> Value], Knows(t)',
         m_q' = m_q \/ pc[t] \in WritePlaces
  PROVE  LinInv'
<1>1. OnlyBy(t)
  BY StepsOnlyBy
<1>2. ASSUME NEW u \in Threads \ {t} PROVE Knows(u)'
  <2>1. Knows(u)
    BY DEF LinInv
  <2>2. CASE m_q' = m_q
    BY <1>1, <2>1, <2>2 DEF OnlyBy, Knows, PutKnows, PushKnows, GetKnows
  <2>3. CASE pc[t] \in WritePlaces
    <3>1. pc[u] \in {"idle", "lock"}
      BY <2>3, InvFacts DEF LinInv, Holding
    <3> QED BY <1>1, <2>1, <3>1 DEF OnlyBy, Knows
  <2> QED BY <2>2, <2>3
<1>3. \A u \in Threads : Knows(u)'
  BY <1>2
<1> QED BY <1>1, <1>3 DEF LinInv, OnlyBy
-----------------------------------------------------------------------------
(* Each step of a thread keeps what it knows, and shows as a step of the   *)
(* atomic queue or does not show.                                          *)

Kept(t) ==
  /\ Knows(t)' /\ m_q'.buf \in [Slots -> Value]
  /\ m_q' = m_q \/ pc[t] \in WritePlaces

Shown(t) ==
  \/ Atomic!Call(t) \/ Atomic!TakesEffect(t) \/ Atomic!Return(t)
  \/ UNCHANGED <<Contents(m_q), call, ret>>

\* The functions a step changes, at its thread.
LEMMA AtThread ==
  ASSUME LinInv, NEW t \in Threads
  PROVE  /\ \A l : Goto(t, l) => pc'[t] = l
         /\ \A v : SetTmp(t, v) => tmp'[t] = v
         /\ \A v, x : Answers(t, v, x) =>
              ret'[t] = Answer(v, x) /\ Atomic!Answers(t, v, x)
         /\ Knows(t) /\ m_q.buf \in [Slots -> Value]
BY DEF LinInv, Inv, Goto, SetTmp, Answers, Answer, Atomic!Answers, Atomic!Answer

LEMMA AnswerNotNull ==
  ASSUME NEW v \in BOOLEAN \cup Int, NEW x \in Value \cup {NULL}
  PROVE  Answer(v, x) # NULL
<1>1. Answer(v, x) \in Returns
  BY DEF Answer, Returns
<1> QED BY <1>1, MTAssumption

\* The call a thread is in.
LEMMA InCall ==
  ASSUME LinInv, NEW t \in Threads, pc[t] # "idle"
  PROVE  /\ call[t] \in Invocations /\ call[t] # NULL
         /\ call[t].item \in Items \cup {NULL}
<1>1. call[t] \in Invocations
  BY DEF LinInv, Knows
<1> QED BY <1>1, MTAssumption DEF Invocations

LEMMA PutLin ==
  ASSUME LinInv, NEW t \in Threads, PutTest(t) \/ PutCopy(t) \/ PutMove(t)
  PROVE  Kept(t) /\ Shown(t)
<1>a. WholeQueue(m_q) /\ pc[t] \in {"test", "copy", "move"} /\ call[t].op = "put"
  BY WholeInBody DEF PutTest, PutCopy, PutMove, At
<1>b. /\ call[t] \in Invocations /\ call[t] # NULL
      /\ call[t].item \in Items \cup {NULL} /\ UNCHANGED call /\ ret[t] = NULL
      /\ NULL \in Value \cup {NULL} /\ NULL \notin Items
  BY <1>a, InCall, AtThread, MTAssumption DEF Knows, Value, PutTest, PutCopy, PutMove
<1>c. pc[t] \in {"copy", "move"} => PutKnows(t)
  BY <1>a, AtThread DEF Knows
<1>d. IsFull(m_q) <=> ~(Len(Contents(m_q)) < Cap)
  BY <1>a, WholeAnswers, RingAssumed
<1>1. CASE PutTest(t)
  <2>1. pc[t] = "test" /\ tmp'[t] = NextPos(m_q) /\ UNCHANGED m_q
    BY <1>1, AtThread DEF PutTest, At
  <2>2. CASE IsFull(m_q)
    <3>1. pc'[t] = "unlock" /\ ret'[t] = Answer(FALSE, NULL) /\ Atomic!Answers(t, FALSE, NULL)
      BY <1>1, <2>2, AtThread DEF PutTest
    <3>2. ret'[t] # NULL
      BY <1>b, <3>1, AnswerNotNull
    <3>3. Knows(t)'
      BY <1>b, <3>1, <3>2 DEF Knows
    <3>4. Atomic!TakesEffect(t)
      BY <1>a, <1>b, <1>d, <2>1, <2>2, <3>1 DEF Atomic!TakesEffect, Atomic!Put
    <3> QED BY <2>1, <3>3, <3>4, AtThread DEF Kept, Shown
  <2>3. CASE ~IsFull(m_q)
    <3>1. pc'[t] = "copy" /\ UNCHANGED ret
      BY <1>1, <2>3, AtThread DEF PutTest
    <3>2. Knows(t)'
      BY <1>a, <1>b, <2>1, <2>3, <3>1 DEF Knows, PutKnows, Gets
    <3> QED BY <1>b, <2>1, <3>1, <3>2, AtThread DEF Kept, Shown
  <2> QED BY <2>2, <2>3
<1>2. CASE PutCopy(t)
  <2> DEFINE r == [m_q EXCEPT !.buf = Store(m_q, m_q.tail, call[t].item)]
  <2>1. pc[t] = "copy" /\ pc'[t] = "move" /\ m_q' = r /\ UNCHANGED <<tmp, ret>>
    BY <1>2, AtThread DEF PutCopy, At
  <2>2. /\ WholeQueue(r) /\ Contents(r) = Contents(m_q)
        /\ NextPos(r) = NextPos(m_q) /\ r.tail = m_q.tail
        /\ IsFull(r) <=> IsFull(m_q)
        /\ call[t].item # NULL => r.buf[m_q.tail] = call[t].item
    BY <1>a, <1>b, StoreInFree
  <2> HIDE DEF r
  <2>3. Knows(t)'
    BY <1>a, <1>b, <1>c, <2>1, <2>2 DEF Knows, PutKnows, Gets
  <2> QED BY <1>b, <2>1, <2>2, <2>3 DEF Kept, Shown, WholeQueue, WritePlaces
<1>3. CASE PutMove(t)
  <2> DEFINE r == [m_q EXCEPT !.tail = NextPos(m_q)]
  <2>1. /\ pc[t] = "move" /\ pc'[t] = "unlock" /\ m_q' = r
        /\ ret'[t] = Answer(TRUE, NULL) /\ Atomic!Answers(t, TRUE, NULL)
    <3>1. /\ pc[t] = "move" /\ Goto(t, "unlock") /\ Answers(t, TRUE, NULL)
          /\ m_q' = [m_q EXCEPT !.tail = tmp[t]]
      BY <1>3 DEF PutMove, At
    <3>2. m_q' = r
      BY <1>c, <3>1 DEF PutKnows
    <3> QED BY <3>1, <3>2, AtThread
  <2>2. Contents(r) = Append(Contents(m_q), m_q.buf[m_q.tail]) /\ m_q.buf[m_q.tail] \in Value
    BY <1>a, <1>c, <2>1, PutMoves DEF PutKnows
  <2>3. m_q.buf[m_q.tail] \in Atomic!Stored(call[t].item)
    BY <1>c, <2>1, <2>2 DEF PutKnows, Atomic!Stored, Value
  <2>4. m_q'.buf = m_q.buf
    BY <1>a, <2>1 DEF WholeQueue, QueueOK
  <2>5. ret'[t] # NULL
    BY <1>b, <2>1, AnswerNotNull
  <2>6. Knows(t)'
    BY <1>b, <2>1, <2>5 DEF Knows
  <2> HIDE DEF r
  <2>7. Atomic!TakesEffect(t)
    BY <1>a, <1>b, <1>c, <1>d, <2>1, <2>2, <2>3 DEF PutKnows, Atomic!TakesEffect, Atomic!Put
  <2> QED BY <2>1, <2>4, <2>6, <2>7, AtThread DEF Kept, Shown, WritePlaces
<1> QED BY <1>1, <1>2, <1>3

LEMMA PushLin ==
  ASSUME LinInv, NEW t \in Threads, PushTest(t) \/ PushCopy(t) \/ PushMove(t)
  PROVE  Kept(t) /\ Shown(t)
<1>a. WholeQueue(m_q) /\ pc[t] \in {"test", "copy", "move"} /\ call[t].op = "push"
  BY WholeInBody DEF PushTest, PushCopy, PushMove, At
<1>b. /\ call[t] \in Invocations /\ call[t] # NULL
      /\ call[t].item \in Items \cup {NULL} /\ UNCHANGED call /\ ret[t] = NULL
      /\ NULL \in Value \cup {NULL} /\ NULL \notin Items
  BY <1>a, InCall, AtThread, MTAssumption DEF Knows, Value, PushTest, PushCopy, PushMove
<1>c. pc[t] \in {"copy", "move"} => PushKnows(t)
  BY <1>a, AtThread DEF Knows
<1>1. CASE PushTest(t)
  <2>1. CanPush(m_q)
    BY <1>a, PushMoves
  <2>2. /\ pc[t] = "test" /\ pc'[t] = "copy" /\ tmp'[t] = PushPos(m_q)
        /\ UNCHANGED <<m_q, ret>>
    BY <1>1, <2>1, AtThread DEF PushTest, At
  <2>3. Knows(t)'
    BY <1>a, <1>b, <2>2 DEF Knows, PushKnows, Gets
  <2> QED BY <1>b, <2>2, <2>3, AtThread DEF Kept, Shown
<1>2. CASE PushCopy(t)
  <2> DEFINE r == [m_q EXCEPT !.buf = Store(m_q, PushPos(m_q), call[t].item)]
  <2>1. pc[t] = "copy" /\ pc'[t] = "move" /\ m_q' = r /\ UNCHANGED <<tmp, ret>>
    BY <1>2, <1>c, AtThread DEF PushCopy, At, PushKnows
  <2>2. /\ WholeQueue(r) /\ Contents(r) = Contents(m_q)
        /\ PushPos(r) = PushPos(m_q)
        /\ call[t].item # NULL => r.buf[PushPos(m_q)] = call[t].item
    BY <1>a, <1>b, StoreInFree
  <2> HIDE DEF r
  <2>3. Knows(t)'
    BY <1>a, <1>b, <1>c, <2>1, <2>2 DEF Knows, PushKnows, Gets
  <2> QED BY <1>b, <2>1, <2>2, <2>3 DEF Kept, Shown, WholeQueue, WritePlaces
<1>3. CASE PushMove(t)
  <2> DEFINE r == [m_q EXCEPT !.head = PushPos(m_q)]
  <2>1. /\ pc[t] = "move" /\ pc'[t] = "unlock" /\ m_q' = r
        /\ ret'[t] = Answer(TRUE, NULL) /\ Atomic!Answers(t, TRUE, NULL)
    BY <1>3, <1>c, AtThread DEF PushMove, At, PushKnows
  <2>2. /\ Contents(r) = IF Len(Contents(m_q)) < Cap
                         THEN <<m_q.buf[PushPos(m_q)]>> \o Contents(m_q) ELSE <<>>
        /\ m_q.buf[PushPos(m_q)] \in Value
    BY <1>a, PushMoves
  <2>3. m_q.buf[PushPos(m_q)] \in Atomic!Stored(call[t].item)
    BY <1>c, <2>1, <2>2 DEF PushKnows, Atomic!Stored, Value
  <2>4. m_q'.buf = m_q.buf
    BY <1>a, <2>1 DEF WholeQueue, QueueOK
  <2>5. ret'[t] # NULL
    BY <1>b, <2>1, AnswerNotNull
  <2>6. Knows(t)'
    BY <1>b, <2>1, <2>5 DEF Knows
  <2> HIDE DEF r
  <2>7. Atomic!TakesEffect(t)
    BY <1>a, <1>b, <2>1, <2>2, <2>3 DEF Atomic!TakesEffect, Atomic!Push
  <2> QED BY <2>1, <2>4, <2>6, <2>7, AtThread DEF Kept, Shown, WritePlaces
<1> QED BY <1>1, <1>2, <1>3

\* The item is read before head moves; that it moves in two updates does not
\* show.
LEMMA GetLin ==
  ASSUME LinInv, NEW t \in Threads,
         GetTest(t) \/ GetCopy(t) \/ GetMove(t) \/ GetWrap(t)
  PROVE  Kept(t) /\ Shown(t)
<1>a. pc[t] \in WritePlaces /\ call[t].op \in Gets
  BY DEF GetTest, GetCopy, GetMove, GetWrap, At, WritePlaces
<1>w. pc[t] # "wrap" => WholeQueue(m_q)
  BY <1>a, WholeInBody DEF WritePlaces
<1>b. /\ call[t] \in Invocations /\ call[t] # NULL /\ UNCHANGED call
      /\ ret[t] = NULL <=> pc[t] # "wrap"
      /\ NULL \in Value \cup {NULL}
  BY <1>a, InCall, AtThread, MTAssumption
  DEF Knows, WritePlaces, GetTest, GetCopy, GetMove, GetWrap
<1>c. pc[t] \in {"copy", "move"} => GetKnows(t)
  BY <1>a, AtThread DEF Knows
<1>d. call[t].op \in {"get", "pop"} /\ call[t].op # "put" /\ call[t].op # "push"
  BY <1>a DEF Gets
<1>1. CASE GetTest(t)
  <2>1. pc[t] = "test" /\ UNCHANGED <<m_q, tmp>>
    BY <1>1 DEF GetTest, At
  <2>2. CASE IsEmpty(m_q)
    <3>1. pc'[t] = "unlock" /\ ret'[t] = Answer(FALSE, NULL) /\ Atomic!Answers(t, FALSE, NULL)
      BY <1>1, <2>2, AtThread DEF GetTest
    <3>2. ret'[t] # NULL
      BY <1>b, <3>1, AnswerNotNull
    <3>3. Knows(t)'
      BY <1>b, <3>1, <3>2 DEF Knows
    <3>4. Contents(m_q) = <<>>
      BY <1>w, <2>1, <2>2, WholeAnswers
    <3>5. Atomic!TakesEffect(t)
      BY <1>d, <1>b, <2>1, <3>1, <3>4 DEF Atomic!TakesEffect, Atomic!Get
    <3> QED BY <2>1, <3>3, <3>5, AtThread DEF Kept, Shown
  <2>3. CASE ~IsEmpty(m_q)
    <3>1. pc'[t] = "copy" /\ UNCHANGED ret
      BY <1>1, <2>3, AtThread DEF GetTest
    <3>2. Knows(t)'
      BY <1>b, <1>d, <2>1, <2>3, <3>1 DEF Knows, GetKnows
    <3> QED BY <1>b, <2>1, <3>1, <3>2, AtThread DEF Kept, Shown
  <2> QED BY <2>2, <2>3
<1>2. CASE GetCopy(t)
  <2>1. /\ pc[t] = "copy" /\ pc'[t] = "move" /\ tmp'[t] = Load(m_q, m_q.head)
        /\ UNCHANGED <<m_q, ret>>
    BY <1>2, AtThread DEF GetCopy, At
  <2>2. Knows(t)'
    BY <1>b, <1>c, <1>d, <2>1 DEF Knows, GetKnows
  <2> QED BY <1>b, <2>1, <2>2, AtThread DEF Kept, Shown
<1>3. CASE GetMove(t)
  <2> DEFINE r == [m_q EXCEPT !.head = U(m_q.head + m_q.item_size)]
             x == Load(m_q, m_q.head)
  <2>1. /\ pc[t] = "move" /\ pc'[t] = "wrap" /\ m_q' = r
        /\ ret'[t] = Answer(TRUE, x) /\ Atomic!Answers(t, TRUE, x)
    BY <1>3, <1>c, AtThread DEF GetMove, At, GetKnows
  <2>2. /\ Contents(r) = Tail(Contents(m_q))
        /\ Contents(m_q) # <<>> /\ x = Head(Contents(m_q)) /\ x \in Value
    BY <1>c, <1>w, <2>1, GetMoves DEF GetKnows
  <2>3. m_q'.buf = m_q.buf
    BY <1>w, <2>1 DEF WholeQueue, QueueOK
  <2>4. ret'[t] # NULL
    BY <2>1, <2>2, AnswerNotNull
  <2>5. Knows(t)'
    BY <1>b, <2>1, <2>4 DEF Knows
  <2> HIDE DEF r, x
  <2>6. Atomic!TakesEffect(t)
    BY <1>d, <1>b, <2>1, <2>2 DEF Atomic!TakesEffect, Atomic!Get
  <2> QED BY <1>a, <2>1, <2>3, <2>5, <2>6, AtThread DEF Kept, Shown
<1>4. CASE GetWrap(t)
  <2>1. /\ pc[t] = "wrap" /\ pc'[t] = "unlock" /\ UNCHANGED <<tmp, ret>>
        /\ m_q' = [m_q EXCEPT !.head = IF m_q.head = m_q.end THEN m_q.begin
                                                             ELSE m_q.head]
    BY <1>4, AtThread DEF GetWrap, At
  <2>2. Knows(t)'
    BY <1>b, <2>1 DEF Knows
  <2>3. QueueOK(m_q) /\ m_q.buf \in [Slots -> Value]
    BY DEF LinInv, Inv
  <2>4. m_q'.buf = m_q.buf
    BY <2>1, <2>3 DEF QueueOK
  <2>5. Contents(m_q') = Contents(m_q)
    <3>1. CASE m_q.head = End
      <4>1. m_q' = [m_q EXCEPT !.head = m_q.begin]
        BY <2>1, <2>3, <3>1 DEF QueueOK
      <4> QED BY <2>3, <3>1, <4>1, EndContents
    <3>2. CASE m_q.head # End
      BY <2>1, <2>3, <3>2 DEF QueueOK
    <3> QED BY <3>1, <3>2
  <2> QED BY <1>a, <1>b, <2>1, <2>2, <2>3, <2>4, <2>5 DEF Kept, Shown
<1> QED BY <1>1, <1>2, <1>3, <1>4

\* Nobody writes between the load of head and the answer.
LEMMA ReadLin ==
  ASSUME LinInv, NEW t \in Threads, LoadHead(t) \/ ReadAnswer(t)
  PROVE  Kept(t) /\ Shown(t)
<1>a. WholeQueue(m_q) /\ pc[t] \in ReadPlaces /\ call[t].op \in Readers
  BY WholeInBody DEF LoadHead, ReadAnswer, At, ReadPlaces
<1>b. /\ call[t] \in Invocations /\ call[t] # NULL /\ UNCHANGED <<m_q, call>>
      /\ ret[t] = NULL /\ NULL \in Value \cup {NULL}
  BY <1>a, InCall, AtThread, MTAssumption DEF Knows, ReadPlaces, LoadHead, ReadAnswer
<1>1. CASE LoadHead(t)
  <2>1. pc'[t] = "answer" /\ tmp'[t] = m_q.head /\ UNCHANGED ret
    BY <1>1, AtThread DEF LoadHead
  <2>2. Knows(t)'
    BY <1>b, <2>1 DEF Knows
  <2> QED BY <1>b, <2>1, <2>2, AtThread DEF Kept, Shown
<1>2. CASE ReadAnswer(t)
  <2>1. tmp[t] = m_q.head
    BY <1>2, AtThread DEF ReadAnswer, At, Knows
  <2>2. [m_q EXCEPT !.head = tmp[t]] = m_q
    BY <1>a, <2>1 DEF WholeQueue, QueueOK
  <2> DEFINE v == CASE call[t].op = "length" -> Length(m_q)
                    [] call[t].op = "available" -> Available(m_q)
                    [] call[t].op = "is_empty" -> IsEmpty(m_q)
                    [] call[t].op = "is_full" -> IsFull(m_q)
             n == Len(Contents(m_q))
             w == CASE call[t].op = "length" -> n
                    [] call[t].op = "available" -> Cap - n
                    [] call[t].op = "is_empty" -> Contents(m_q) = <<>>
                    [] call[t].op = "is_full" -> n = Cap
  <2>3. pc'[t] = "unlock" /\ ret'[t] = Answer(v, NULL) /\ Atomic!Answers(t, v, NULL)
    <3>1. Goto(t, "unlock") /\ Answers(t, v, NULL)
      BY <1>2, <2>2 DEF ReadAnswer
    <3> HIDE DEF v
    <3> QED BY <3>1, AtThread
  <2>4. v = w /\ w \in BOOLEAN \cup Int
    <3>1. /\ n \in Int /\ Cap - n \in Int
          /\ Length(m_q) = n /\ Available(m_q) = Cap - n
          /\ IsEmpty(m_q) <=> Contents(m_q) = <<>>
          /\ IsFull(m_q) <=> n = Cap
      BY <1>a, WholeAnswers, RingAssumed
    <3>2. IsEmpty(m_q) = (Contents(m_q) = <<>>) /\ IsFull(m_q) = (n = Cap)
      BY <3>1 DEF IsEmpty, IsFull
    <3> HIDE DEF n
    <3>3. CASE call[t].op = "length"
      BY <3>1, <3>3
    <3>4. CASE call[t].op = "available"
      BY <3>1, <3>4
    <3>5. CASE call[t].op = "is_empty"
      BY <3>2, <3>5
    <3>6. CASE call[t].op = "is_full"
      BY <3>2, <3>6
    <3> QED BY <1>a, <3>3, <3>4, <3>5, <3>6 DEF Readers
  <2>5. ret'[t] # NULL
    BY <1>b, <2>3, <2>4, AnswerNotNull
  <2>6. Knows(t)'
    BY <1>b, <2>3, <2>5 DEF Knows
  <2>7. Atomic!Ask(t)
    BY <1>a, <1>b, <2>3, <2>4 DEF Atomic!Ask, Atomic!Readers, Readers
  <2>8. Atomic!TakesEffect(t)
    BY <1>b, <2>7 DEF Atomic!TakesEffect
  <2> QED BY <1>b, <2>6, <2>8, AtThread DEF Kept, Shown
<1> QED BY <1>1, <1>2

LEMMA LockLin ==
  ASSUME LinInv, NEW t \in Threads,
         Call(t) \/ WriteLock(t) \/ ReadLock(t) \/ Unlock(t)
  PROVE  Kept(t) /\ Shown(t)
<1>a. DOMAIN call = Threads /\ DOMAIN ret = Threads /\ UNCHANGED m_q
  BY DEF LinInv, Inv, Call, WriteLock, ReadLock, Unlock
<1>1. CASE Call(t)
  <2>1. pc[t] = "idle" /\ pc'[t] = "lock" /\ UNCHANGED ret
    BY <1>1, AtThread DEF Call
  <2>b. PICK op \in Ops : \E x \in Args(op) : call' = [call EXCEPT ![t] = Invocation(op, x)]
    BY <1>1 DEF Call
  <2>2. PICK x \in Args(op) : call' = [call EXCEPT ![t] = Invocation(op, x)]
    BY <2>b
  <2>3. Invocation(op, x) \in Invocations
    BY <2>2, MTAssumption DEF Invocation, Invocations, Args
  <2>4. call[t] = NULL /\ ret[t] = NULL
    BY <2>1, AtThread DEF Knows
  <2>5. Knows(t)'
    BY <1>a, <2>1, <2>2, <2>3, <2>4 DEF Knows
  <2>6. Atomic!Call(t)
    BY <1>a, <2>1, <2>2, <2>4
    DEF Atomic!Call, Invocation, Atomic!Invocation, Args, Atomic!Args
  <2> QED BY <1>a, <2>5, <2>6, AtThread DEF Kept, Shown
<1>2. CASE WriteLock(t) \/ ReadLock(t)
  <2>1. pc[t] = "lock" /\ pc'[t] \in {"test", "load"} /\ UNCHANGED <<call, tmp, ret>>
    BY <1>2, AtThread DEF WriteLock, ReadLock, At
  <2>2. Knows(t)'
    BY <1>a, <2>1, AtThread DEF Knows
  <2> QED BY <1>a, <2>1, <2>2, AtThread DEF Kept, Shown
<1>3. CASE Unlock(t)
  <2>1. /\ pc[t] = "unlock" /\ pc'[t] = "idle"
        /\ call' = [call EXCEPT ![t] = NULL] /\ ret' = [ret EXCEPT ![t] = NULL]
    BY <1>3, AtThread DEF Unlock
  <2>2. Knows(t)'
    BY <1>a, <2>1 DEF Knows
  <2>3. Atomic!Return(t)
    BY <1>a, <2>1, AtThread DEF Knows, Atomic!Return
  <2> QED BY <1>a, <2>2, <2>3, AtThread DEF Kept, Shown
<1> QED BY <1>1, <1>2, <1>3

LEMMA LinStep ==
  ASSUME LinInv, [Next]_vars
  PROVE  LinInv' /\ [Atomic!Next]_(Atomic!vars)
<1>1. ASSUME NEW t \in Threads, Call(t) \/ Step(t)
      PROVE  LinInv' /\ [Atomic!Next]_(Atomic!vars)
  <2>1. Kept(t) /\ Shown(t)
    BY <1>1, PutLin, PushLin, GetLin, ReadLin, LockLin DEF Step, Body
  <2>2. Inv'
    <3>1. [Next]_vars
      BY <1>1 DEF Next
    <3> QED BY <3>1, NextInv DEF LinInv
  <2>3. LinInv'
    BY <1>1, <2>1, <2>2, OthersKnow DEF Kept
  <2>4. [Atomic!Next]_(Atomic!vars)
    BY <2>1 DEF Shown, Atomic!Next, Atomic!vars
  <2> QED BY <2>3, <2>4
<1>2. ASSUME UNCHANGED vars
      PROVE  LinInv' /\ [Atomic!Next]_(Atomic!vars)
  <2>1. Inv'
    BY <1>2, NextInv DEF LinInv
  <2>2. /\ m_q' = m_q /\ pc' = pc /\ call' = call /\ tmp' = tmp /\ ret' = ret
    BY <1>2 DEF vars
  <2>3. LinInv'
    BY <2>1, <2>2 DEF LinInv, Knows, PutKnows, PushKnows, GetKnows
  <2>4. UNCHANGED Atomic!vars
    BY <2>2 DEF Atomic!vars
  <2> QED BY <2>3, <2>4
<1> QED BY <1>1, <1>2 DEF Next

LEMMA LinInit == Init => LinInv /\ Atomic!Init
<1> SUFFICES ASSUME Init PROVE LinInv /\ Atomic!Init
  OBVIOUS
<1>1. Inv
  BY InitInv
<1>2. /\ m_q = NewQueue(Cap, ItemSize)
      /\ Ring!NewQueue(Cap, ItemSize) = NewQueue(Cap, ItemSize)
  BY DEF Init, Ring!NewQueue, NewQueue, Ring!U, U
<1>3. Ring!RingOf(m_q, Cap, 0, 0)
  BY <1>2, RingAssumed, Ring!NewQueueIsRing DEF Ring!QueueAssumption, Ring!HeaderAssumption
<1>4. Ring!Contents(m_q) = <<>>
  BY <1>3, RingAssumed, Ring!EmptyContents DEF Ring!QueueAssumption, Ring!HeaderAssumption
<1>5. m_q.buf \in [Slots -> Value]
  BY <1>3, RingAssumed DEF Ring!RingOf, Ring!Slots, Ring!At, Slots
<1>6. \A t \in Threads : Knows(t)
  BY DEF Init, Knows
<1>7. Atomic!Init
  BY <1>4, SameOperators DEF Init, Atomic!Init
<1> QED BY <1>1, <1>5, <1>6, <1>7 DEF LinInv, Init

-----------------------------------------------------------------------------
\* For any number of threads, capacity and item size: every call of QueueMT
\* takes effect at one instant between its invocation and its return (the
\* bodies under AutoLockRead and AutoLockWrite).  What takes effect is what the
\* bodies do to the sequential queue: pop() takes the first item, for it calls
\* get(), and push() empties a full queue.
THEOREM QueueLinearizable == Spec => Linearizable
<1>1. LinInv /\ [Next]_vars => LinInv' /\ [Atomic!Next]_(Atomic!vars)
  BY LinStep
<1>2. Spec => [][Atomic!Next]_(Atomic!vars)
  BY LinInit, <1>1, PTL DEF Spec
<1> QED BY LinInit, <1>2, PTL DEF Spec, Linearizable, Atomic!Spec
=============================================================================
