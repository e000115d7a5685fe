-------------------------- MODULE EventEmitter_proofs --------------------------
(***************************************************************************)
(* Proofs about the event emitter, for any sets of threads, names,         *)
(* listeners and sizes of the queues, as long as listeners do not call the *)
(* emitter back.                                                           *)
(*                                                                         *)
(* What the operations do to the two queues comes first, and is used for   *)
(* EventEmitter and for EventEmitterMT.  Both queues are circular queues:  *)
(* CircularQueue_proofs is instantiated for each.  EmitterOK says that     *)
(* they are, that a name has one slot, and that a block that waits points  *)
(* at a slot in use.  The loops that drop blocks are recursive functions;  *)
(* by induction on their rounds they leave the blocks that do not expire,  *)
(* in their order, and no new ones.                                        *)
(*                                                                         *)
(* For the registry, the registrations are the live blocks with the names  *)
(* their slots hold.  What a call does to the contents of the queues is an *)
(* Append or a Without, and both commute with that mapping.                *)
(*                                                                         *)
(* With threads, Exclusion relates m_lock to where every thread is, and is *)
(* inductive once types are known: a thread that leaves is the one that    *)
(* holds the lock, so that ~AutoLockWrite() never unlocks a lock it has    *)
(* not.  Hence the queues are the emitting thread's own, and its place in  *)
(* them (Walks) is kept by its own steps.                                  *)
(***************************************************************************)
EXTENDS EventEmitter, EventEmitterMT, SequenceTheorems,
        FiniteSetTheorems, WellFoundedInduction, TLAPS

(* The queues.                                                             *)

NQ == INSTANCE CircularQueue_proofs WITH
        ItemSize <- NameSize, Capacities <- {MaxNames}, Items <- NameValues,
        Ops <- {}, Corners <- {}, m_q <- NULL, out <- NULL, fault <- FALSE

BQ == INSTANCE CircularQueue_proofs WITH
        ItemSize <- BlockSize, Capacities <- {MaxListeners}, Items <- BlockValues,
        Ops <- {}, Corners <- {}, m_q <- NULL, out <- NULL, fault <- FALSE

LEMMA NamesAssumed ==
  NQ!QueueAssumption /\ NQ!HeaderAssumption /\ NQ!Value = NameValues
BY EmitterAssumption, HeaderAssumption
DEF NQ!QueueAssumption, NQ!HeaderAssumption, NQ!Value, NameValues, NQ!AllOps,
    NQ!AllCorners, NQ!ControlBlock, ControlBlocks

LEMMA BlocksAssumed ==
  BQ!QueueAssumption /\ BQ!HeaderAssumption /\ BQ!Value = BlockValues
BY EmitterAssumption, HeaderAssumption
DEF BQ!QueueAssumption, BQ!HeaderAssumption, BQ!Value, BlockValues, BQ!AllOps,
    BQ!AllCorners, BQ!ControlBlock, ControlBlocks

\* The operators of the queues are those of CircularQueue.
LEMMA NamesOperators ==
  ASSUME NEW q
  PROVE  /\ NQ!Contents(q) = Contents(q) /\ NQ!Length(q) = Length(q)
         /\ NQ!Capacity(q) = Capacity(q) /\ (NQ!CanPut(q) <=> CanPut(q))
         /\ \A i : NQ!Nth(q, i) = Nth(q, i) /\ NQ!Load(q, i) = Load(q, i)
         /\ \A x : NQ!Put(q, x) = Put(q, x)
<1>1. \A x : NQ!U(x) = U(x)
  BY DEF NQ!U, U
<1>2. \A i : NQ!Nth(q, i) = Nth(q, i) /\ NQ!Load(q, i) = Load(q, i)
  BY DEF NQ!Nth, Nth, NQ!Load, Load
<1>3. NQ!Length(q) = Length(q) /\ NQ!Capacity(q) = Capacity(q) /\ NQ!NextPos(q) = NextPos(q)
  BY <1>1 DEF NQ!Length, Length, NQ!Capacity, Capacity, NQ!NextPos, NextPos
<1>4. NQ!Contents(q) = Contents(q)
  BY <1>2, <1>3 DEF NQ!Contents, Contents
<1>5. NQ!CanPut(q) <=> CanPut(q)
  BY <1>3 DEF NQ!CanPut, CanPut, NQ!IsFull, IsFull
<1>6. \A x : NQ!Put(q, x) = Put(q, x)
  BY <1>3, <1>5 DEF NQ!Put, Put, NQ!Store, Store
<1> QED BY <1>2, <1>3, <1>4, <1>5, <1>6

LEMMA BlocksOperators ==
  ASSUME NEW q
  PROVE  /\ BQ!Contents(q) = Contents(q) /\ BQ!Length(q) = Length(q)
         /\ BQ!Capacity(q) = Capacity(q) /\ (BQ!CanPut(q) <=> CanPut(q))
         /\ (BQ!CanGet(q) <=> CanGet(q))
         /\ BQ!Available(q) = Available(q) /\ BQ!Peek(q) = Peek(q)
         /\ BQ!Get(q) = Get(q) /\ BQ!Pop(q) = Pop(q) /\ BQ!Last(q) = Last(q)
         /\ \A i : BQ!Nth(q, i) = Nth(q, i) /\ BQ!Load(q, i) = Load(q, i)
         /\ \A x : BQ!Put(q, x) = Put(q, x) /\ BQ!PeekNext(q, x) = PeekNext(q, x)
<1>1. (\A x : BQ!U(x) = U(x)) /\ (BQ!IsEmpty(q) <=> IsEmpty(q))
  BY DEF BQ!U, U, BQ!IsEmpty, IsEmpty
<1>2. \A i : BQ!Nth(q, i) = Nth(q, i) /\ BQ!Load(q, i) = Load(q, i)
  BY DEF BQ!Nth, Nth, BQ!Load, Load
<1>3. /\ BQ!Length(q) = Length(q) /\ BQ!Capacity(q) = Capacity(q)
      /\ BQ!NextPos(q) = NextPos(q) /\ BQ!Available(q) = Available(q)
  BY <1>1 DEF BQ!Length, Length, BQ!Capacity, Capacity, BQ!NextPos, NextPos,
              BQ!Available, Available
<1>4. BQ!Contents(q) = Contents(q)
  BY <1>2, <1>3 DEF BQ!Contents, Contents
<1>5. (BQ!CanPut(q) <=> CanPut(q)) /\ (BQ!CanGet(q) <=> CanGet(q))
  BY <1>1, <1>3 DEF BQ!CanPut, CanPut, BQ!IsFull, IsFull, BQ!CanGet, CanGet
<1>6. \A x : BQ!Put(q, x) = Put(q, x)
  BY <1>3, <1>5 DEF BQ!Put, Put, BQ!Store, Store
<1>7. BQ!Get(q) = Get(q) /\ BQ!Pop(q) = Pop(q)
  BY <1>1 DEF BQ!Get, Get, BQ!CanGet, CanGet, BQ!Pop, Pop, BQ!CanPop, CanPop,
              BQ!PopPos, PopPos
<1>8. BQ!Peek(q) = Peek(q) /\ BQ!Last(q) = Last(q)
  BY <1>1 DEF BQ!Peek, Peek, BQ!Last, Last
<1>9. \A x : BQ!PeekNext(q, x) = PeekNext(q, x)
  BY <1>1 DEF BQ!PeekNext, PeekNext
<1> QED BY <1>2, <1>3, <1>4, <1>5, <1>6, <1>7, <1>8, <1>9

\* Queues of names and of blocks, of the capacity the constructor gave them.
IsNames(q) == NQ!IsQueue(q) /\ Capacity(q) = MaxNames
IsBlocks(q) == BQ!IsQueue(q) /\ Capacity(q) = MaxListeners

\* What either is.
IsQueueOf(q, values) ==
  /\ Contents(q) \in Seq(values) /\ Len(Contents(q)) = Length(q)
  /\ Length(q) \in Nat /\ Length(q) <= Capacity(q)
  /\ CanPut(q) <=> Length(q) < Capacity(q)
  /\ \A i \in 1..Length(q) :
       /\ q # NULL /\ Nth(q, i) \in DOMAIN q.buf /\ Nth(q, i) \in Nat
       /\ Contents(q)[i] = q.buf[Nth(q, i)] /\ Contents(q)[i] = Load(q, Nth(q, i))
  /\ \A i, j \in 1..Length(q) : Nth(q, i) = Nth(q, j) => i = j

LEMMA NamesFacts ==
  ASSUME NEW q, IsNames(q)
  PROVE  IsQueueOf(q, NameValues)
<1>1. IsQueueOf(q, NQ!Value)
  BY NamesAssumed, NQ!QueueFacts, NamesOperators
  DEF NQ!QueueAssumption, NQ!HeaderAssumption, IsNames, IsQueueOf
<1> QED BY <1>1, NamesAssumed

LEMMA NamesPut ==
  ASSUME NEW q, IsNames(q), NEW x \in NameValues, CanPut(q)
  PROVE  /\ IsNames(Put(q, x)) /\ Contents(Put(q, x)) = Append(Contents(q), x)
         /\ \A i : Nth(Put(q, x), i) = Nth(q, i)
BY NamesAssumed, NQ!QueuePut, NamesOperators
DEF NQ!QueueAssumption, NQ!HeaderAssumption, IsNames

LEMMA NamesRewrite ==
  ASSUME NEW q, IsNames(q), q # NULL, NEW b \in [DOMAIN q.buf -> NameValues]
  PROVE  LET r == [q EXCEPT !.buf = b]
         IN  /\ IsNames(r) /\ Length(r) = Length(q)
             /\ \A i : Nth(r, i) = Nth(q, i)
             /\ \A i \in 1..Length(q) : Contents(r)[i] = b[Nth(q, i)]
<1> DEFINE r == [q EXCEPT !.buf = b]
<1>1. b \in [DOMAIN q.buf -> NQ!Value]
  BY NamesAssumed
<1>2. /\ NQ!IsQueue(r) /\ NQ!Capacity(r) = NQ!Capacity(q)
      /\ NQ!Length(r) = NQ!Length(q)
      /\ \A i : NQ!Nth(r, i) = NQ!Nth(q, i)
      /\ \A i \in 1..NQ!Length(q) : NQ!Contents(r)[i] = b[NQ!Nth(q, i)]
  BY <1>1, NamesAssumed, NQ!QueueRewrite
  DEF NQ!QueueAssumption, NQ!HeaderAssumption, IsNames
<1> HIDE DEF r
<1>3. /\ IsNames(r) /\ Length(r) = Length(q)
      /\ \A i : Nth(r, i) = Nth(q, i)
      /\ \A i \in 1..Length(q) : Contents(r)[i] = b[Nth(q, i)]
  BY <1>2, NamesOperators DEF IsNames
<1> QED BY <1>3 DEF r

LEMMA BlocksFacts ==
  ASSUME NEW q, IsBlocks(q)
  PROVE  /\ IsQueueOf(q, BlockValues)
         /\ Available(q) = MaxListeners - Length(q)
         /\ CanGet(q) <=> Length(q) # 0
<1>1. /\ IsQueueOf(q, BQ!Value) /\ Available(q) = MaxListeners - Length(q)
      /\ CanGet(q) <=> Length(q) # 0
  BY BlocksAssumed, BQ!QueueFacts, BlocksOperators
  DEF BQ!QueueAssumption, BQ!HeaderAssumption, IsBlocks, IsQueueOf
<1> QED BY <1>1, BlocksAssumed

LEMMA BlocksPut ==
  ASSUME NEW q, IsBlocks(q), NEW x \in BlockValues, CanPut(q)
  PROVE  IsBlocks(Put(q, x)) /\ Contents(Put(q, x)) = Append(Contents(q), x)
BY BlocksAssumed, BQ!QueuePut, BlocksOperators
DEF BQ!QueueAssumption, BQ!HeaderAssumption, IsBlocks

LEMMA BlocksGet ==
  ASSUME NEW q, IsBlocks(q), Length(q) # 0
  PROVE  /\ IsBlocks(Get(q)) /\ Contents(Get(q)) = Tail(Contents(q))
         /\ Load(q, q.head) = Contents(q)[1]
BY BlocksAssumed, BQ!QueueGet, BlocksOperators
DEF BQ!QueueAssumption, BQ!HeaderAssumption, IsBlocks

LEMMA BlocksPop ==
  ASSUME NEW q, IsBlocks(q), Length(q) # 0, q.tail # q.begin
  PROVE  /\ IsBlocks(Pop(q))
         /\ Contents(Pop(q)) = SubSeq(Contents(q), 1, Length(q) - 1)
BY BlocksAssumed, BQ!QueuePop, BlocksOperators
DEF BQ!QueueAssumption, BQ!HeaderAssumption, IsBlocks

LEMMA BlocksRewrite ==
  ASSUME NEW q, IsBlocks(q), q # NULL, NEW b \in [DOMAIN q.buf -> BlockValues]
  PROVE  LET r == [q EXCEPT !.buf = b]
         IN  /\ IsBlocks(r) /\ Length(r) = Length(q)
             /\ \A i : Nth(r, i) = Nth(q, i)
             /\ \A i \in 1..Length(q) : Contents(r)[i] = b[Nth(q, i)]
<1> DEFINE r == [q EXCEPT !.buf = b]
<1>1. b \in [DOMAIN q.buf -> BQ!Value]
  BY BlocksAssumed
<1>2. /\ BQ!IsQueue(r) /\ BQ!Capacity(r) = BQ!Capacity(q)
      /\ BQ!Length(r) = BQ!Length(q)
      /\ \A i : BQ!Nth(r, i) = BQ!Nth(q, i)
      /\ \A i \in 1..BQ!Length(q) : BQ!Contents(r)[i] = b[BQ!Nth(q, i)]
  BY <1>1, BlocksAssumed, BQ!QueueRewrite
  DEF BQ!QueueAssumption, BQ!HeaderAssumption, IsBlocks
<1> HIDE DEF r
<1>3. /\ IsBlocks(r) /\ Length(r) = Length(q)
      /\ \A i : Nth(r, i) = Nth(q, i)
      /\ \A i \in 1..Length(q) : Contents(r)[i] = b[Nth(q, i)]
  BY <1>2, BlocksOperators DEF IsBlocks
<1> QED BY <1>3 DEF r

\* peek(), last() and peek_next(), as emit() and the trimming use them.
LEMMA BlocksWalk ==
  ASSUME NEW q, IsBlocks(q)
  PROVE  LET n == Length(q)
             at(i) == IF i \in 1..n THEN Nth(q, i) ELSE NULL
         IN  /\ Peek(q) = at(1) /\ Last(q) = at(n)
             /\ \A i \in 1..n : PeekNext(q, at(i)) = at(i + 1)
<1> DEFINE n == Length(q)
           at(i) == IF i \in 1..n THEN Nth(q, i) ELSE NULL
<1>1. /\ BQ!Length(q) \in Nat
      /\ BQ!Peek(q) = IF 1 \in 1..BQ!Length(q) THEN BQ!Nth(q, 1) ELSE NULL
      /\ BQ!Last(q) = IF BQ!Length(q) \in 1..BQ!Length(q)
                      THEN BQ!Nth(q, BQ!Length(q)) ELSE NULL
      /\ \A i \in 1..BQ!Length(q) :
           BQ!PeekNext(q, IF i \in 1..BQ!Length(q) THEN BQ!Nth(q, i) ELSE NULL) =
             IF i + 1 \in 1..BQ!Length(q) THEN BQ!Nth(q, i + 1) ELSE NULL
  BY BlocksAssumed, BQ!QueueWalk
  DEF BQ!QueueAssumption, BQ!HeaderAssumption, IsBlocks
<1> QED BY <1>1, BlocksOperators

\* The queues the constructor makes are empty.
LEMMA NamesInit ==
  LET q == Initialise(NULL, MaxNames, NameSize)
  IN  IsNames(q) /\ Length(q) = 0
<1> DEFINE q == Initialise(NULL, MaxNames, NameSize)
<1>1. NQ!Initialise(NULL, MaxNames, NameSize) = q
  BY NamesOperators
  DEF NQ!Initialise, Initialise, NQ!Clear, Clear, NQ!NewQueue, NewQueue, NQ!U, U
<1> HIDE DEF q
<1>2. \/ MaxNames = 0 /\ q = NULL
      \/ MaxNames # 0 /\ NQ!RingOf(q, MaxNames, 0, 0)
  BY <1>1, NamesAssumed, NQ!InitialiseMakesRing
  DEF NQ!QueueAssumption, NQ!HeaderAssumption
<1>3. CASE MaxNames = 0 /\ q = NULL
  BY <1>3 DEF IsNames, NQ!IsQueue, Capacity, Length, q
<1>4. CASE MaxNames # 0 /\ NQ!RingOf(q, MaxNames, 0, 0)
  <2>1. MaxNames \in {MaxNames} \ {0} /\ 0 \in 0..MaxNames
    BY <1>4, EmitterAssumption
  <2>2. NQ!IsQueue(q)
    BY <1>4, <2>1 DEF NQ!IsQueue, NQ!IsRing
  <2>3. NQ!Capacity(q) = MaxNames /\ NQ!Length(q) = NQ!Count(0, 0, MaxNames)
    BY <1>4, <2>1, NamesAssumed, NQ!CapacityOfRing, NQ!LengthOfRing
    DEF NQ!QueueAssumption, NQ!HeaderAssumption
  <2> QED BY <2>2, <2>3, NamesOperators DEF IsNames, NQ!Count, q
<1> QED BY <1>2, <1>3, <1>4

LEMMA BlocksInit ==
  LET q == Initialise(NULL, MaxListeners, BlockSize)
  IN  IsBlocks(q) /\ Length(q) = 0
<1> DEFINE q == Initialise(NULL, MaxListeners, BlockSize)
<1>1. BQ!Initialise(NULL, MaxListeners, BlockSize) = q
  BY BlocksOperators
  DEF BQ!Initialise, Initialise, BQ!Clear, Clear, BQ!NewQueue, NewQueue, BQ!U, U
<1> HIDE DEF q
<1>2. \/ MaxListeners = 0 /\ q = NULL
      \/ MaxListeners # 0 /\ BQ!RingOf(q, MaxListeners, 0, 0)
  BY <1>1, BlocksAssumed, BQ!InitialiseMakesRing
  DEF BQ!QueueAssumption, BQ!HeaderAssumption
<1>3. CASE MaxListeners = 0 /\ q = NULL
  BY <1>3 DEF IsBlocks, BQ!IsQueue, Capacity, Length, q
<1>4. CASE MaxListeners # 0 /\ BQ!RingOf(q, MaxListeners, 0, 0)
  <2>1. MaxListeners \in {MaxListeners} \ {0} /\ 0 \in 0..MaxListeners
    BY <1>4, EmitterAssumption
  <2>2. BQ!IsQueue(q)
    BY <1>4, <2>1 DEF BQ!IsQueue, BQ!IsRing
  <2>3. BQ!Capacity(q) = MaxListeners /\ BQ!Length(q) = BQ!Count(0, 0, MaxListeners)
    BY <1>4, <2>1, BlocksAssumed, BQ!CapacityOfRing, BQ!LengthOfRing
    DEF BQ!QueueAssumption, BQ!HeaderAssumption
  <2> QED BY <2>2, <2>3, BlocksOperators DEF IsBlocks, BQ!Count, q
<1> QED BY <1>2, <1>3, <1>4

-----------------------------------------------------------------------------
(* Induction.                                                              *)

LEMMA LeastOf ==
  ASSUME NEW S, S \subseteq Nat, S # {}
  PROVE  \E n \in S : \A m \in S : n <= m
<1> DEFINE R == OpToRel(<, Nat)
<1>1. IsWellFoundedOn(R, Nat)
  BY NatLessThanWellFounded
<1>2. \A x, y \in Nat : x < y => <<x, y>> \in R
  BY DEF OpToRel
<1> HIDE DEF R
<1>3. PICK n \in S : \A m \in S : ~(<<m, n>> \in R)
  BY <1>1, WFMin
<1>4. ASSUME NEW m \in S PROVE n <= m
  <2>1. ~(m < n)
    BY <1>2, <1>3
  <2> QED BY <2>1
<1> QED BY <1>3, <1>4

\* What holds of 0, and of each number up to N if of the one before, holds of
\* all: there is no least number of which it does not hold.
LEMMA AllUpTo ==
  ASSUME NEW N \in Nat, NEW T, 0 \in T, \A n \in 1..N : n - 1 \in T => n \in T
  PROVE  \A n \in 0..N : n \in T
<1> DEFINE C == (0..N) \ T
<1>1. CASE C = {}
  BY <1>1
<1>2. CASE C # {}
  <2>1. C \subseteq Nat
    OBVIOUS
  <2>2. PICK n \in C : \A m \in C : n <= m
    <3> HIDE DEF C
    <3> QED BY <1>2, <2>1, LeastOf
  <2>3. n \in 1..N /\ n - 1 \in 0..N /\ ~(n <= n - 1)
    BY <2>2
  <2>4. n - 1 \in T
    BY <2>2, <2>3
  <2> QED BY <2>2, <2>3, <2>4
<1> QED BY <1>1, <1>2

\* f takes steps of a function from a on.
Iterates(N, D, step, a, f) ==
  /\ f \in [0..N -> D] /\ f[0] = a
  /\ \A n \in 1..N : f[n] = step[<<n, f[n - 1]>>]

\* There is such a function: each one that stops before N can be continued.
LEMMA IteratesExists ==
  ASSUME NEW N \in Nat, NEW D, NEW step \in [(1..N) \X D -> D], NEW a \in D
  PROVE  \E f : Iterates(N, D, step, a, f)
<1> DEFINE Reaches(m, f) == f[0] = a /\ \A n \in 1..m : f[n] = step[<<n, f[n - 1]>>]
           T == {m \in 0..N : \E f \in [0..m -> D] : Reaches(m, f)}
<1>1. 0 \in T
  <2>1. [n \in 0..0 |-> a] \in [0..0 -> D] /\ Reaches(0, [n \in 0..0 |-> a])
    OBVIOUS
  <2>2. \E f \in [0..0 -> D] : Reaches(0, f)
    BY <2>1
  <2> QED BY <2>2
<1>2. ASSUME NEW m \in 1..N, m - 1 \in T
      PROVE  m \in T
  <2>1. PICK f \in [0..(m - 1) -> D] : Reaches(m - 1, f)
    BY <1>2
  <2> DEFINE g == [n \in 0..m |-> IF n = m THEN step[<<m, f[m - 1]>>] ELSE f[n]]
  <2>2. f[m - 1] \in D /\ step[<<m, f[m - 1]>>] \in D
    BY <2>1
  <2>3. g \in [0..m -> D] /\ g[0] = a
    BY <2>1, <2>2
  <2>4. ASSUME NEW n \in 1..m PROVE g[n] = step[<<n, g[n - 1]>>]
    <3>1. CASE n = m
      <4>1. m \in 0..m /\ m - 1 \in 0..m /\ m - 1 # m
        OBVIOUS
      <4>2. g[m] = step[<<m, f[m - 1]>>] /\ g[m - 1] = f[m - 1]
        BY <4>1
      <4> QED BY <3>1, <4>2
    <3>2. CASE n # m
      BY <2>1, <3>2
    <3> QED BY <3>1, <3>2
  <2>5. \E h \in [0..m -> D] : Reaches(m, h)
    <3> HIDE DEF g
    <3> QED BY <2>3, <2>4
  <2> QED BY <2>5
<1>3. N \in T
  <2>1. N \in 0..N
    OBVIOUS
  <2> HIDE DEF T
  <2> QED BY <1>1, <1>2, <2>1, AllUpTo
<1> QED BY <1>3 DEF Iterates

-----------------------------------------------------------------------------
(* Subsequences.                                                           *)

\* The recursion in Without(), and that there is a function it defines.
KeptAre(s, S, T, f) ==
  /\ f \in [0..Len(s) -> Seq(T)] /\ f[0] = <<>>
  /\ \A i \in 1..Len(s) : f[i] = IF s[i] \in S THEN f[i - 1] ELSE Append(f[i - 1], s[i])
  /\ Without(s, S) = f[Len(s)]

LEMMA WithoutKept ==
  ASSUME NEW T, NEW s \in Seq(T), NEW S
  PROVE  \E f : KeptAre(s, S, T, f)
<1> DEFINE N == Len(s)
           D == Seq(T)
           first == <<>>
           next(i, x) == IF s[i] \in S THEN x ELSE Append(x, s[i])
           IsKept(f) == f = [i \in 0..Len(s) |->
                               IF i = 0 THEN <<>>
                               ELSE IF s[i] \in S THEN f[i - 1] ELSE Append(f[i - 1], s[i])]
           kept == CHOOSE f : IsKept(f)
<1>1. Without(s, S) = kept[N]
  BY DEF Without
<1>2. N \in Nat /\ \A i \in 1..N : s[i] \in T
  OBVIOUS
<1>3. ASSUME NEW i \in 1..N, NEW x \in D
      PROVE  next(i, x) \in D
  BY <1>2, <1>3
<1>4. PICK f : /\ f \in [0..N -> D] /\ f[0] = first
               /\ \A i \in 1..N : f[i] = next(i, f[i - 1])
  <2> DEFINE step == [x \in (1..N) \X D |-> next(x[1], x[2])]
  <2>1. first \in D
    OBVIOUS
  <2> HIDE DEF next, D, N, first
  <2>2. step \in [(1..N) \X D -> D]
    BY <1>3
  <2>3. PICK f : Iterates(N, D, step, first, f)
    <3> HIDE DEF step
    <3> QED BY <1>2, <2>1, <2>2, IteratesExists
  <2>4. ASSUME NEW i \in 1..N
        PROVE  f[i] = next(i, f[i - 1])
    <3>1. f[i - 1] \in D
      BY <1>2, <2>3 DEF Iterates
    <3>2. f[i] = step[<<i, f[i - 1]>>]
      BY <2>3 DEF Iterates
    <3> QED BY <3>1, <3>2
  <2> QED BY <2>3, <2>4 DEF Iterates
<1>5. IsKept(f)
  <2>1. f = [i \in 0..N |-> f[i]]
    BY <1>4
  <2>2. \A i \in 0..N : i = 0 \/ i \in 1..N
    BY <1>2
  <2>3. ASSUME NEW i \in 0..N
        PROVE  f[i] = IF i = 0 THEN <<>>
                      ELSE IF s[i] \in S THEN f[i - 1] ELSE Append(f[i - 1], s[i])
    BY <1>2, <1>4, <2>2
  <2> QED BY <2>1, <2>3
<1>6. IsKept(kept)
  <2> HIDE DEF IsKept
  <2> QED BY <1>5
<1>7. /\ kept[0] = first
      /\ \A i \in 1..N : kept[i] = next(i, kept[i - 1])
  <2> HIDE DEF kept
  <2>1. \A i \in 0..N : kept[i] = IF i = 0 THEN <<>>
                      ELSE IF s[i] \in S THEN kept[i - 1] ELSE Append(kept[i - 1], s[i])
    BY <1>6
  <2>2. 0 \in 0..N /\ \A i \in 1..N : i \in 0..N /\ i # 0
    BY <1>2
  <2> QED BY <1>2, <2>1, <2>2
<1> HIDE DEF kept, next, first, D, N
<1> DEFINE E == {i \in 0..N : f[i] = kept[i]}
<1>8. 0 \in E
  BY <1>2, <1>4, <1>7
<1>9. ASSUME NEW i \in 1..N, i - 1 \in E
      PROVE  i \in E
  BY <1>2, <1>4, <1>7, <1>9
<1>10. N \in E
  <2>1. N \in 0..N
    BY <1>2
  <2> HIDE DEF E
  <2> QED BY <1>2, <1>8, <1>9, <2>1, AllUpTo
<1>11. f[N] = kept[N]
  BY <1>10
<1> QED BY <1>1, <1>4, <1>11 DEF next, first, D, N, KeptAre

LEMMA WithoutEmpty ==
  ASSUME NEW S
  PROVE  Without(<<>>, S) = <<>>
<1>1. <<>> \in Seq({}) /\ Len(<<>>) = 0
  OBVIOUS
<1>2. PICK f : KeptAre(<<>>, S, {}, f)
  BY <1>1, WithoutKept
<1> QED BY <1>1, <1>2 DEF KeptAre

LEMMA WithoutType ==
  ASSUME NEW T, NEW s \in Seq(T), NEW S
  PROVE  Without(s, S) \in Seq(T)
<1>1. PICK f : KeptAre(s, S, T, f)
  BY WithoutKept
<1>2. Len(s) \in 0..Len(s)
  OBVIOUS
<1> QED BY <1>1, <1>2 DEF KeptAre

LEMMA WithoutAppend ==
  ASSUME NEW T, NEW s \in Seq(T), NEW x \in T, NEW S
  PROVE  Without(Append(s, x), S) = IF x \in S THEN Without(s, S) ELSE Append(Without(s, S), x)
<1> DEFINE u == Append(s, x)
           N == Len(s)
<1>1. /\ u \in Seq(T) /\ Len(u) = N + 1 /\ u[N + 1] = x /\ N \in Nat
      /\ \A i \in 1..N : u[i] = s[i]
  OBVIOUS
<1> HIDE DEF u, N
<1>2. PICK f : KeptAre(u, S, T, f)
  BY <1>1, WithoutKept
<1>3. PICK g : KeptAre(s, S, T, g)
  BY WithoutKept
<1> DEFINE E == {i \in 0..N : f[i] = g[i]}
<1>4. 0 \in E
  BY <1>1, <1>2, <1>3 DEF KeptAre
<1>5. ASSUME NEW i \in 1..N, i - 1 \in E
      PROVE  i \in E
  <2>1. i \in 1..(N + 1) /\ i \in 0..N /\ u[i] = s[i] /\ f[i - 1] = g[i - 1]
    BY <1>1, <1>5
  <2>2. f[i] = IF u[i] \in S THEN f[i - 1] ELSE Append(f[i - 1], u[i])
    BY <1>1, <1>2, <2>1 DEF KeptAre
  <2>3. g[i] = IF s[i] \in S THEN g[i - 1] ELSE Append(g[i - 1], s[i])
    BY <1>3 DEF KeptAre, N
  <2> QED BY <2>1, <2>2, <2>3
<1>6. N \in E
  <2>1. N \in 0..N
    BY <1>1
  <2> HIDE DEF E
  <2> QED BY <1>1, <1>4, <1>5, <2>1, AllUpTo
<1>7. f[N] = Without(s, S)
  BY <1>3, <1>6 DEF KeptAre, N
<1>8. f[N + 1] = IF x \in S THEN f[N] ELSE Append(f[N], x)
  <2>1. N + 1 \in 1..(N + 1) /\ (N + 1) - 1 = N
    BY <1>1
  <2> QED BY <1>1, <1>2, <2>1 DEF KeptAre
<1>9. Without(u, S) = f[N + 1]
  BY <1>1, <1>2 DEF KeptAre
<1> QED BY <1>7, <1>8, <1>9 DEF u

\* Every sequence is made by appending.
LEMMA AllSequences ==
  ASSUME NEW T, NEW Q, <<>> \in Q,
         \A s \in Seq(T), x \in T : s \in Q => Append(s, x) \in Q
  PROVE  \A s \in Seq(T) : s \in Q
<1> SUFFICES ASSUME NEW s \in Seq(T) PROVE s \in Q
  OBVIOUS
<1> DEFINE N == Len(s)
           E == {n \in 0..N : SubSeq(s, 1, n) \in Q}
<1>1. N \in Nat
  OBVIOUS
<1>2. 0 \in E
  <2>1. SubSeq(s, 1, 0) = <<>> /\ 0 \in 0..N
    OBVIOUS
  <2>2. SubSeq(s, 1, 0) \in Q
    BY <2>1, Zenon
  <2> HIDE DEF N
  <2> QED BY <2>1, <2>2, Zenon
<1>3. ASSUME NEW n \in 1..N, n - 1 \in E
      PROVE  n \in E
  <2>1. SubSeq(s, 1, n - 1) \in Seq(T) /\ s[n] \in T
    OBVIOUS
  <2>2. SubSeq(s, 1, n) = Append(SubSeq(s, 1, n - 1), s[n])
    OBVIOUS
  <2>3. SubSeq(s, 1, n - 1) \in Q
    BY <1>3
  <2>4. SubSeq(s, 1, n) \in Q
    BY <2>1, <2>2, <2>3, Zenon
  <2>5. n \in 0..N
    BY <1>1
  <2> HIDE DEF N
  <2> QED BY <2>4, <2>5, Zenon
<1>4. N \in E
  <2>1. N \in 0..N
    BY <1>1
  <2> HIDE DEF E, N
  <2> QED BY <1>1, <1>2, <1>3, <2>1, AllUpTo
<1>5. SubSeq(s, 1, N) = s
  OBVIOUS
<1> QED BY <1>4, <1>5

LEMMA WithoutSame ==
  ASSUME NEW T, NEW S, NEW W, \A x \in T : x \in S <=> x \in W
  PROVE  \A s \in Seq(T) : Without(s, S) = Without(s, W)
<1> DEFINE Q == {s \in Seq(T) : Without(s, S) = Without(s, W)}
<1>1. <<>> \in Q
  BY WithoutEmpty
<1>2. ASSUME NEW s \in Seq(T), NEW x \in T, s \in Q
      PROVE  Append(s, x) \in Q
  <2>1. Without(s, S) = Without(s, W) /\ Append(s, x) \in Seq(T)
    BY <1>2
  <2>2. /\ Without(Append(s, x), S) = IF x \in S THEN Without(s, S) ELSE Append(Without(s, S), x)
        /\ Without(Append(s, x), W) = IF x \in W THEN Without(s, W) ELSE Append(Without(s, W), x)
    BY WithoutAppend
  <2>3. Without(Append(s, x), S) = Without(Append(s, x), W)
    BY <2>1, <2>2
  <2> QED BY <2>1, <2>3
<1> HIDE DEF Q
<1>3. \A s \in Seq(T) : s \in Q
  BY <1>1, <1>2, AllSequences
<1> QED BY <1>3 DEF Q

LEMMA WithoutNone ==
  ASSUME NEW T, NEW S, \A x \in T : x \notin S
  PROVE  \A s \in Seq(T) : Without(s, S) = s
<1> DEFINE Q == {s \in Seq(T) : Without(s, S) = s}
<1>1. <<>> \in Q
  BY WithoutEmpty
<1>2. ASSUME NEW s \in Seq(T), NEW x \in T, s \in Q
      PROVE  Append(s, x) \in Q
  <2>1. Without(s, S) = s /\ Append(s, x) \in Seq(T)
    BY <1>2
  <2>2. Without(Append(s, x), S) = Append(s, x)
    BY <2>1, WithoutAppend
  <2> QED BY <2>1, <2>2
<1> HIDE DEF Q
<1>3. \A s \in Seq(T) : s \in Q
  BY <1>1, <1>2, AllSequences
<1> QED BY <1>3 DEF Q

LEMMA WithoutTwice ==
  ASSUME NEW T, NEW S, NEW W
  PROVE  \A s \in Seq(T) : Without(Without(s, S), W) = Without(s, S \cup W)
<1> DEFINE Q == {s \in Seq(T) : Without(Without(s, S), W) = Without(s, S \cup W)}
<1>1. <<>> \in Q
  BY WithoutEmpty
<1>2. ASSUME NEW s \in Seq(T), NEW x \in T, s \in Q
      PROVE  Append(s, x) \in Q
  <2>1. /\ Without(Without(s, S), W) = Without(s, S \cup W)
        /\ Append(s, x) \in Seq(T) /\ Without(s, S) \in Seq(T)
    BY <1>2, WithoutType
  <2>2. Without(Append(s, x), S) = IF x \in S THEN Without(s, S) ELSE Append(Without(s, S), x)
    BY WithoutAppend
  <2>3. Without(Append(Without(s, S), x), W) =
          IF x \in W THEN Without(Without(s, S), W) ELSE Append(Without(Without(s, S), W), x)
    <3>1. PICK w \in Seq(T) : w = Without(s, S)
      BY <2>1
    <3>2. Without(Append(w, x), W) = IF x \in W THEN Without(w, W) ELSE Append(Without(w, W), x)
      BY WithoutAppend
    <3> QED BY <3>1, <3>2
  <2>4. Without(Append(s, x), S \cup W) =
          IF x \in S \cup W THEN Without(s, S \cup W) ELSE Append(Without(s, S \cup W), x)
    BY WithoutAppend
  <2>5. Without(Without(Append(s, x), S), W) = Without(Append(s, x), S \cup W)
    BY <2>1, <2>2, <2>3, <2>4
  <2> QED BY <2>1, <2>5
<1> HIDE DEF Q
<1>3. \A s \in Seq(T) : s \in Q
  BY <1>1, <1>2, AllSequences
<1> QED BY <1>3 DEF Q

LEMMA ItemsAppend ==
  ASSUME NEW T, NEW s \in Seq(T), NEW x \in T
  PROVE  ItemsOf(Append(s, x)) = ItemsOf(s) \cup {x}
<1> DEFINE u == Append(s, x)
<1>1. /\ DOMAIN u = 1..(Len(s) + 1) /\ DOMAIN s = 1..Len(s) /\ Len(s) \in Nat
      /\ u[Len(s) + 1] = x /\ \A i \in 1..Len(s) : u[i] = s[i]
  OBVIOUS
<1> HIDE DEF u
<1>2. \A i : i \in DOMAIN u <=> i \in DOMAIN s \/ i = Len(s) + 1
  BY <1>1
<1>3. ItemsOf(u) = ItemsOf(s) \cup {x}
  BY <1>1, <1>2 DEF ItemsOf
<1> QED BY <1>3 DEF u

LEMMA WithoutItems ==
  ASSUME NEW T, NEW S
  PROVE  \A s \in Seq(T) :
           ItemsOf(Without(s, S)) = ItemsOf(s) \ S /\ Len(Without(s, S)) <= Len(s)
<1> DEFINE Q == {s \in Seq(T) :
                   ItemsOf(Without(s, S)) = ItemsOf(s) \ S /\ Len(Without(s, S)) <= Len(s)}
<1>1. <<>> \in Q
  <2>1. ItemsOf(<<>>) = {}
    BY DEF ItemsOf
  <2> QED BY <2>1, WithoutEmpty
<1>2. ASSUME NEW s \in Seq(T), NEW x \in T, s \in Q
      PROVE  Append(s, x) \in Q
  <2>1. /\ ItemsOf(Without(s, S)) = ItemsOf(s) \ S /\ Append(s, x) \in Seq(T)
        /\ Without(s, S) \in Seq(T) /\ Len(Without(s, S)) <= Len(s)
    BY <1>2, WithoutType
  <2>2. Without(Append(s, x), S) = IF x \in S THEN Without(s, S) ELSE Append(Without(s, S), x)
    BY WithoutAppend
  <2>3. /\ ItemsOf(Append(s, x)) = ItemsOf(s) \cup {x}
        /\ ItemsOf(Append(Without(s, S), x)) = ItemsOf(Without(s, S)) \cup {x}
    BY <2>1, ItemsAppend
  <2>4. ItemsOf(Without(Append(s, x), S)) = ItemsOf(Append(s, x)) \ S
    BY <2>1, <2>2, <2>3
  <2>5. /\ Len(Append(s, x)) = Len(s) + 1
        /\ Len(Append(Without(s, S), x)) = Len(Without(s, S)) + 1
        /\ Len(s) \in Nat /\ Len(Without(s, S)) \in Nat
    BY <2>1
  <2>6. Len(Without(Append(s, x), S)) <= Len(Append(s, x))
    BY <2>1, <2>2, <2>5
  <2> QED BY <2>1, <2>4, <2>6
<1> HIDE DEF Q
<1>3. \A s \in Seq(T) : s \in Q
  BY <1>1, <1>2, AllSequences
<1> QED BY <1>3 DEF Q

LEMMA WithoutFirst ==
  ASSUME NEW T, NEW S, NEW y \in T, y \in S
  PROVE  \A s \in Seq(T) : Without(<<y>> \o s, S) = Without(s, S)
<1> DEFINE Q == {s \in Seq(T) : Without(<<y>> \o s, S) = Without(s, S)}
<1>1. <<>> \in Q
  <2>1. <<y>> \o <<>> = Append(<<>>, y) /\ <<>> \in Seq(T)
    OBVIOUS
  <2>2. Without(Append(<<>>, y), S) = Without(<<>>, S)
    BY <2>1, WithoutAppend
  <2> QED BY <2>1, <2>2, WithoutEmpty
<1>2. ASSUME NEW s \in Seq(T), NEW x \in T, s \in Q
      PROVE  Append(s, x) \in Q
  <2>1. /\ Without(<<y>> \o s, S) = Without(s, S) /\ Append(s, x) \in Seq(T)
        /\ <<y>> \o s \in Seq(T)
    BY <1>2
  <2>2. <<y>> \o Append(s, x) = Append(<<y>> \o s, x)
    OBVIOUS
  <2>3. Without(Append(<<y>> \o s, x), S) =
          IF x \in S THEN Without(<<y>> \o s, S) ELSE Append(Without(<<y>> \o s, S), x)
    BY <2>1, WithoutAppend
  <2>4. Without(Append(s, x), S) = IF x \in S THEN Without(s, S) ELSE Append(Without(s, S), x)
    BY WithoutAppend
  <2>5. Without(<<y>> \o Append(s, x), S) = Without(Append(s, x), S)
    BY <2>1, <2>2, <2>3, <2>4
  <2> QED BY <2>1, <2>5
<1> HIDE DEF Q
<1>3. \A s \in Seq(T) : s \in Q
  BY <1>1, <1>2, AllSequences
<1> QED BY <1>3 DEF Q

\* The items of s, with g applied to each.
Mapped(s, g) == [i \in DOMAIN s |-> g[s[i]]]

LEMMA MappedEmpty ==
  ASSUME NEW g
  PROVE  Mapped(<<>>, g) = <<>>
BY DEF Mapped

LEMMA MappedType ==
  ASSUME NEW T, NEW R, NEW g \in [T -> R], NEW s \in Seq(T)
  PROVE  Mapped(s, g) \in Seq(R)
BY DEF Mapped

LEMMA MappedLen ==
  ASSUME NEW T, NEW g, NEW s \in Seq(T)
  PROVE  Len(Mapped(s, g)) = Len(s)
BY DEF Mapped

LEMMA MappedAppend ==
  ASSUME NEW T, NEW R, NEW g \in [T -> R], NEW s \in Seq(T), NEW x \in T
  PROVE  Mapped(Append(s, x), g) = Append(Mapped(s, g), g[x])
<1>1. g[x] \in R /\ Append(s, x) \in Seq(T) /\ Len(Append(s, x)) = Len(s) + 1
  OBVIOUS
<1>2. /\ Append(Mapped(s, g), g[x]) \in Seq(R) /\ Mapped(Append(s, x), g) \in Seq(R)
      /\ Len(Append(Mapped(s, g), g[x])) = Len(s) + 1
      /\ Len(Mapped(Append(s, x), g)) = Len(s) + 1
  <2>1. Mapped(s, g) \in Seq(R) /\ Len(Mapped(s, g)) = Len(s)
    BY MappedType, MappedLen
  <2>2. /\ Mapped(Append(s, x), g) \in Seq(R)
        /\ Len(Mapped(Append(s, x), g)) = Len(Append(s, x))
    BY <1>1, MappedType, MappedLen
  <2> QED BY <1>1, <2>1, <2>2
<1>3. ASSUME NEW i \in 1..(Len(s) + 1)
      PROVE  Mapped(Append(s, x), g)[i] = Append(Mapped(s, g), g[x])[i]
  BY MappedType DEF Mapped
<1> QED BY <1>2, <1>3, SeqEqual

\* g takes S, and no other item, to W.
Reflects(g, T, S, W) == \A x \in T : x \in S <=> g[x] \in W

\* It is the same to leave out S before g and to leave out W after it.
Commutes(s, g, S, W) == Without(Mapped(s, g), W) = Mapped(Without(s, S), g)

LEMMA WithoutMapped ==
  ASSUME NEW T, NEW R, NEW g \in [T -> R], NEW S, NEW W, Reflects(g, T, S, W)
  PROVE  \A s \in Seq(T) : Commutes(s, g, S, W)
<1> DEFINE Q == {s \in Seq(T) : Without(Mapped(s, g), W) = Mapped(Without(s, S), g)}
<1>2. <<>> \in Q
  BY WithoutEmpty, MappedEmpty
<1>3. ASSUME NEW s \in Seq(T), NEW x \in T, s \in Q
      PROVE  Append(s, x) \in Q
  <2>1. /\ Without(Mapped(s, g), W) = Mapped(Without(s, S), g) /\ Append(s, x) \in Seq(T)
        /\ Without(s, S) \in Seq(T) /\ Mapped(s, g) \in Seq(R) /\ g[x] \in R
    BY <1>3, WithoutType, MappedType
  <2>2. Mapped(Append(s, x), g) = Append(Mapped(s, g), g[x])
    BY MappedAppend
  <2>3. Without(Append(Mapped(s, g), g[x]), W) =
          IF g[x] \in W THEN Without(Mapped(s, g), W) ELSE Append(Without(Mapped(s, g), W), g[x])
    BY <2>1, WithoutAppend
  <2>4. Without(Append(s, x), S) = IF x \in S THEN Without(s, S) ELSE Append(Without(s, S), x)
    BY WithoutAppend
  <2>5. Mapped(Append(Without(s, S), x), g) = Append(Mapped(Without(s, S), g), g[x])
    BY <2>1, MappedAppend
  <2>6. x \in S <=> g[x] \in W
    BY DEF Reflects
  <2>7. Without(Mapped(Append(s, x), g), W) = Mapped(Without(Append(s, x), S), g)
    BY <2>1, <2>2, <2>3, <2>4, <2>5, <2>6
  <2> QED BY <2>1, <2>7
<1> HIDE DEF Q
<1>4. \A s \in Seq(T) : s \in Q
  BY <1>2, <1>3, AllSequences
<1> QED BY <1>4 DEF Q, Commutes

\* A sequence is its first item and the others, or the last and those before.
LEMMA FirstAndRest ==
  ASSUME NEW T, NEW s \in Seq(T), Len(s) # 0
  PROVE  s[1] \in T /\ Tail(s) \in Seq(T) /\ s = <<s[1]>> \o Tail(s)
OBVIOUS

LEMMA FrontAndLast ==
  ASSUME NEW T, NEW s \in Seq(T), Len(s) # 0
  PROVE  /\ s[Len(s)] \in T /\ SubSeq(s, 1, Len(s) - 1) \in Seq(T)
         /\ s = Append(SubSeq(s, 1, Len(s) - 1), s[Len(s)])
OBVIOUS

\* A sequence c when i of its items have gone or have been put behind.
Rotated(c, S, i) == SubSeq(c, i + 1, Len(c)) \o Without(SubSeq(c, 1, i), S)

\* Then the next item is the first one,
LEMMA RotatedFirst ==
  ASSUME NEW T, NEW c \in Seq(T), NEW S, NEW i \in 1..Len(c)
  PROVE  /\ Rotated(c, S, i - 1) \in Seq(T)
         /\ Len(Rotated(c, S, i - 1)) >= 1 /\ Rotated(c, S, i - 1)[1] = c[i]
<1> DEFINE r == SubSeq(c, i + 1, Len(c))
           W == Without(SubSeq(c, 1, i - 1), S)
<1>1. SubSeq(c, 1, i - 1) \in Seq(T) /\ c[i] \in T /\ r \in Seq(T)
  OBVIOUS
<1>2. W \in Seq(T)
  BY <1>1, WithoutType
<1>3. SubSeq(c, i, Len(c)) = <<c[i]>> \o r /\ (i - 1) + 1 = i
  OBVIOUS
<1> HIDE DEF r, W
<1>4. Rotated(c, S, i - 1) = (<<c[i]>> \o r) \o W
  BY <1>3 DEF Rotated, W
<1>5. /\ (<<c[i]>> \o r) \o W \in Seq(T) /\ Len((<<c[i]>> \o r) \o W) >= 1
      /\ ((<<c[i]>> \o r) \o W)[1] = c[i]
  BY <1>1, <1>2
<1> QED BY <1>4, <1>5

\* and goes or is put behind.
LEMMA RotatedNext ==
  ASSUME NEW T, NEW c \in Seq(T), NEW S, NEW i \in 1..Len(c)
  PROVE  Rotated(c, S, i) =
           IF c[i] \in S THEN Tail(Rotated(c, S, i - 1))
           ELSE Append(Tail(Rotated(c, S, i - 1)), c[i])
<1> DEFINE b == SubSeq(c, 1, i - 1)
           a == SubSeq(c, 1, i)
           r == SubSeq(c, i + 1, Len(c))
           W == Without(b, S)
<1>1. b \in Seq(T) /\ c[i] \in T /\ r \in Seq(T)
  OBVIOUS
<1>2. W \in Seq(T)
  BY <1>1, WithoutType
<1>3. a = Append(b, c[i]) /\ SubSeq(c, i, Len(c)) = <<c[i]>> \o r /\ (i - 1) + 1 = i
  OBVIOUS
<1> HIDE DEF a, b, r
<1>4. Without(a, S) = IF c[i] \in S THEN W ELSE Append(W, c[i])
  <2>1. \A u \in Seq(T), x \in T :
          Without(Append(u, x), S) = IF x \in S THEN Without(u, S) ELSE Append(Without(u, S), x)
    BY WithoutAppend
  <2> QED BY <1>1, <1>3, <2>1
<1> HIDE DEF W
<1>5. (<<c[i]>> \o r) \o W = <<c[i]>> \o (r \o W) /\ r \o W \in Seq(T)
  BY <1>1, <1>2
<1>6. \A s \in Seq(T) : Tail(<<c[i]>> \o s) = s
  BY <1>1
<1>7. Append(r \o W, c[i]) = r \o Append(W, c[i])
  <2>1. ASSUME NEW u \in Seq(T), NEW w \in Seq(T), NEW x \in T
        PROVE  Append(u \o w, x) = u \o Append(w, x)
    <3>1. Append(u \o w, x) \in Seq(T) /\ u \o Append(w, x) \in Seq(T)
      OBVIOUS
    <3>2. /\ Len(Append(u \o w, x)) = Len(u \o Append(w, x))
          /\ \A k \in 1..Len(Append(u \o w, x)) : Append(u \o w, x)[k] = (u \o Append(w, x))[k]
      OBVIOUS
    <3> QED BY <3>1, <3>2, SeqEqual
  <2> QED BY <1>1, <1>2, <2>1
<1>8. Rotated(c, S, i - 1) = (<<c[i]>> \o r) \o W /\ Rotated(c, S, i) = r \o Without(a, S)
  BY <1>3 DEF Rotated, W, r, a, b
<1> QED BY <1>4, <1>5, <1>6, <1>7, <1>8

LEMMA RotatedEnds ==
  ASSUME NEW T, NEW c \in Seq(T), NEW S
  PROVE  Rotated(c, S, 0) = c /\ Rotated(c, S, Len(c)) = Without(c, S)
<1>1. /\ SubSeq(c, 1, 0) = <<>> /\ SubSeq(c, 1, Len(c)) = c /\ SubSeq(c, Len(c) + 1, Len(c)) = <<>>
      /\ 0 + 1 = 1 /\ c \o <<>> = c
  OBVIOUS
<1>2. Without(<<>>, S) = <<>>
  BY WithoutEmpty
<1>3. <<>> \o Without(c, S) = Without(c, S)
  <2>1. Without(c, S) \in Seq(T)
    BY WithoutType
  <2> QED BY <2>1
<1>4. Rotated(c, S, 0) = c \o <<>>
  BY <1>1, <1>2 DEF Rotated
<1>5. Rotated(c, S, Len(c)) = <<>> \o Without(c, S)
  BY <1>1 DEF Rotated
<1> QED BY <1>1, <1>3, <1>4, <1>5

\* Only what a sequence has can be left out of it.
LEMMA WithoutAlike ==
  ASSUME NEW T, NEW s \in Seq(T), NEW S, NEW W, \A x \in ItemsOf(s) : x \in S <=> x \in W
  PROVE  Without(s, S) = Without(s, W)
<1>1. s \in Seq(ItemsOf(s))
  BY DEF ItemsOf
<1> QED BY <1>1, WithoutSame

-----------------------------------------------------------------------------
(* Names.                                                                  *)

\* Each name has one slot at most.
NamesOK(ns) ==
  /\ IsNames(ns)
  /\ \A i \in 1..Length(ns) : Contents(ns)[i] \in (EventNames \ TooLong) \cup {Empty}
  /\ \A i, j \in 1..Length(ns) :
       Contents(ns)[i] = Contents(ns)[j] /\ Contents(ns)[i] # Empty => i = j

\* A name is in the slot at p.
InUse(ns, p) == \E i \in 1..Length(ns) : Nth(ns, i) = p /\ Contents(ns)[i] # Empty

LEMMA FindNameFacts ==
  ASSUME NEW ns, IsNames(ns), NEW n
  PROVE  \/ /\ FindName(ns, n) = NULL
            /\ \A i \in 1..Length(ns) : Contents(ns)[i] # n
         \/ /\ FindName(ns, n) # NULL
            /\ \E i \in 1..Length(ns) : FindName(ns, n) = Nth(ns, i) /\ Contents(ns)[i] = n
<1> DEFINE hits == {i \in 1..Length(ns) : Load(ns, Nth(ns, i)) = n}
<1>1. \A i \in 1..Length(ns) : Contents(ns)[i] = Load(ns, Nth(ns, i)) /\ Nth(ns, i) \in Nat
  BY NamesFacts DEF IsQueueOf
<1>2. CASE hits = {}
  BY <1>1, <1>2 DEF FindName
<1>3. CASE hits # {}
  <2>1. \E i \in hits : \A j \in hits : i <= j
    <3>1. hits \subseteq Nat
      BY NamesFacts DEF IsQueueOf
    <3> HIDE DEF hits
    <3> QED BY <1>3, <3>1, LeastOf
  <2> DEFINE k == CHOOSE i \in hits : \A j \in hits : i <= j
  <2>2. k \in hits
    BY <2>1
  <2>3. FindName(ns, n) = Nth(ns, k)
    BY <1>3 DEF FindName
  <2> HIDE DEF k
  <2> QED BY <1>1, <2>2, <2>3, EmitterAssumption
<1> QED BY <1>2, <1>3

\* The slot of the i-th name is given to x.
LEMMA StoreName ==
  ASSUME NEW ns, IsNames(ns), NEW i \in 1..Length(ns), NEW x \in NameValues
  PROVE  LET r == [ns EXCEPT !.buf = Store(ns, Nth(ns, i), x)]
         IN  /\ IsNames(r) /\ Length(r) = Length(ns)
             /\ \A j : Nth(r, j) = Nth(ns, j)
             /\ \A j \in 1..Length(ns) :
                  Contents(r)[j] = IF j = i THEN x ELSE Contents(ns)[j]
<1> DEFINE b == [ns.buf EXCEPT ![Nth(ns, i)] = x]
           r == [ns EXCEPT !.buf = b]
<1>1. IsQueueOf(ns, NameValues)
  BY NamesFacts
<1>2. Store(ns, Nth(ns, i), x) = b
  BY EmitterAssumption DEF Store
<1>3. ns # NULL /\ ns.buf \in [DOMAIN ns.buf -> NameValues]
  <2>1. NQ!IsRing(ns)
    BY <1>1 DEF IsNames, NQ!IsQueue, IsQueueOf
  <2> QED BY <1>1, <2>1, NamesAssumed DEF NQ!IsRing, NQ!RingOf, IsQueueOf
<1>4. b \in [DOMAIN ns.buf -> NameValues]
  BY <1>3
<1>5. /\ IsNames(r) /\ Length(r) = Length(ns)
      /\ \A j : Nth(r, j) = Nth(ns, j)
      /\ \A j \in 1..Length(ns) : Contents(r)[j] = b[Nth(ns, j)]
  BY <1>3, <1>4, NamesRewrite
<1>6. \A j \in 1..Length(ns) : b[Nth(ns, j)] = IF j = i THEN x ELSE Contents(ns)[j]
  BY <1>1 DEF IsQueueOf
<1> HIDE DEF b
<1> QED BY <1>2, <1>5, <1>6

\* A name gets at most one slot, one in use keeps its name.
LEMMA RegisterNameOK ==
  ASSUME NEW ns, NamesOK(ns), NEW n \in EventNames \ TooLong, n # Empty
  PROVE  LET r == RegisterName(ns, n)
         IN  /\ NamesOK(r)
             /\ \A p : InUse(ns, p) => InUse(r, p)
             /\ FindName(r, n) # NULL => InUse(r, FindName(r, n)) /\ FindName(r, n) \in Nat
<1> DEFINE r == RegisterName(ns, n)
<1>1. n # Empty /\ n \in NameValues
  BY DEF NameValues
<1>2. NamesOK(r) /\ \A p : InUse(ns, p) => InUse(r, p)
  <2>1. CASE FindName(ns, n) # NULL
    BY <2>1 DEF RegisterName
  <2>2. ASSUME FindName(ns, n) = NULL
        PROVE  \A i \in 1..Length(ns) : Contents(ns)[i] # n
    BY <2>2, FindNameFacts DEF NamesOK
  <2>3. CASE FindName(ns, n) = NULL /\ FindName(ns, Empty) # NULL
    <3>1. PICK i \in 1..Length(ns) :
            FindName(ns, Empty) = Nth(ns, i) /\ Contents(ns)[i] = Empty
      BY <2>3, FindNameFacts DEF NamesOK
    <3>2. r = [ns EXCEPT !.buf = Store(ns, Nth(ns, i), n)]
      BY <2>3, <3>1 DEF RegisterName
    <3>3. /\ IsNames(r) /\ Length(r) = Length(ns)
          /\ \A j : Nth(r, j) = Nth(ns, j)
          /\ \A j \in 1..Length(ns) :
               Contents(r)[j] = IF j = i THEN n ELSE Contents(ns)[j]
      BY <1>1, <3>2, StoreName DEF NamesOK
    <3> HIDE DEF r
    <3> QED BY <1>1, <2>2, <2>3, <3>1, <3>3 DEF NamesOK, InUse
  <2>4. CASE FindName(ns, n) = NULL /\ FindName(ns, Empty) = NULL /\ ~CanPut(ns)
    BY <2>4 DEF RegisterName, Put
  <2>5. CASE FindName(ns, n) = NULL /\ FindName(ns, Empty) = NULL /\ CanPut(ns)
    <3>1. r = Put(ns, n)
      BY <2>5 DEF RegisterName
    <3>2. /\ IsNames(r) /\ Contents(r) = Append(Contents(ns), n)
          /\ \A i : Nth(r, i) = Nth(ns, i)
      BY <1>1, <2>5, <3>1, NamesPut DEF NamesOK
    <3> HIDE DEF r
    <3>3. IsQueueOf(r, NameValues) /\ IsQueueOf(ns, NameValues)
      BY <3>2, NamesFacts DEF NamesOK
    <3>4. /\ Length(r) = Length(ns) + 1 /\ Length(ns) \in Nat
          /\ \A i \in 1..Length(ns) : Contents(r)[i] = Contents(ns)[i]
          /\ Contents(r)[Length(ns) + 1] = n
      BY <1>1, <3>2, <3>3, AppendProperties DEF IsQueueOf
    <3>5. \A i \in 1..Length(r) : i \in 1..Length(ns) \/ i = Length(ns) + 1
      BY <3>4
    <3>6. \A i \in 1..Length(ns) : i \in 1..Length(r)
      BY <3>4
    <3>7. \A i \in 1..Length(r) : Contents(r)[i] \in (EventNames \ TooLong) \cup {Empty}
      BY <3>4, <3>5 DEF NamesOK
    <3>8. \A i, j \in 1..Length(r) :
            Contents(r)[i] = Contents(r)[j] /\ Contents(r)[i] # Empty => i = j
      BY <2>2, <2>5, <3>4, <3>5 DEF NamesOK
    <3>9. \A p : InUse(ns, p) => InUse(r, p)
      BY <3>2, <3>4, <3>6 DEF InUse
    <3> QED BY <3>2, <3>7, <3>8, <3>9 DEF NamesOK
  <2> QED BY <2>1, <2>3, <2>4, <2>5
<1> HIDE DEF r
<1>3. ASSUME FindName(r, n) # NULL
      PROVE  InUse(r, FindName(r, n)) /\ FindName(r, n) \in Nat
  <2>1. IsNames(r)
    BY <1>2 DEF NamesOK
  <2>2. PICK i \in 1..Length(r) : FindName(r, n) = Nth(r, i) /\ Contents(r)[i] = n
    BY <1>3, <2>1, FindNameFacts
  <2> QED BY <1>1, <2>1, <2>2, NamesFacts DEF InUse, IsQueueOf
<1> QED BY <1>2, <1>3 DEF r

\* Only the slot of the name that is given up is in use no longer.
LEMMA UnregisterNameOK ==
  ASSUME NEW ns, NamesOK(ns), NEW n
  PROVE  LET r == UnregisterName(ns, n)
         IN  /\ NamesOK(r)
             /\ \A p : InUse(ns, p) /\ p # FindName(ns, n) => InUse(r, p)
<1> DEFINE r == UnregisterName(ns, n)
<1>1. CASE FindName(ns, n) = NULL
  BY <1>1 DEF UnregisterName
<1>2. CASE FindName(ns, n) # NULL
  <2>1. PICK i \in 1..Length(ns) : FindName(ns, n) = Nth(ns, i) /\ Contents(ns)[i] = n
    BY <1>2, FindNameFacts DEF NamesOK
  <2>2. r = [ns EXCEPT !.buf = Store(ns, Nth(ns, i), Empty)] /\ Empty \in NameValues
    BY <1>2, <2>1 DEF UnregisterName, NameValues
  <2>3. /\ IsNames(r) /\ Length(r) = Length(ns)
        /\ \A j : Nth(r, j) = Nth(ns, j)
        /\ \A j \in 1..Length(ns) :
             Contents(r)[j] = IF j = i THEN Empty ELSE Contents(ns)[j]
    BY <2>2, StoreName DEF NamesOK
  <2> HIDE DEF r
  <2>4. NamesOK(r)
    BY <2>3 DEF NamesOK
  <2>5. \A p : InUse(ns, p) /\ p # FindName(ns, n) => InUse(r, p)
    BY <2>1, <2>3 DEF InUse
  <2> QED BY <2>4, <2>5 DEF r
<1> QED BY <1>1, <1>2

\* The names in use.
Known(ns) == ItemsOf(Contents(ns)) \ {Empty}

LEMMA KnownAre ==
  ASSUME NEW ns, IsNames(ns), NEW n
  PROVE  n \in Known(ns) <=> n # Empty /\ \E i \in 1..Length(ns) : Contents(ns)[i] = n
<1>1. Contents(ns) \in Seq(NameValues) /\ Len(Contents(ns)) = Length(ns)
  BY NamesFacts DEF IsQueueOf
<1>2. DOMAIN Contents(ns) = 1..Length(ns)
  BY <1>1
<1> QED BY <1>2 DEF Known, ItemsOf

\* A name is found if and only if it is known.
LEMMA FindKnown ==
  ASSUME NEW ns, IsNames(ns), NEW n, n # Empty
  PROVE  FindName(ns, n) # NULL <=> n \in Known(ns)
BY FindNameFacts, KnownAre

\* A slot in use is the one that is found if and only if it has the name.
LEMMA NameIs ==
  ASSUME NEW ns, NamesOK(ns), NEW n, NEW o, InUse(ns, o)
  PROVE  o = FindName(ns, n) <=> Load(ns, o) = n
<1>1. IsNames(ns) /\ IsQueueOf(ns, NameValues)
  BY NamesFacts DEF NamesOK
<1>2. PICK i \in 1..Length(ns) : Nth(ns, i) = o /\ Contents(ns)[i] # Empty
  BY DEF InUse
<1>3. Load(ns, o) = Contents(ns)[i] /\ o # NULL
  BY <1>1, <1>2, EmitterAssumption DEF IsQueueOf
<1>4. CASE FindName(ns, n) = NULL
  BY <1>1, <1>2, <1>3, <1>4, FindNameFacts
<1>5. CASE FindName(ns, n) # NULL
  <2>1. PICK j \in 1..Length(ns) : FindName(ns, n) = Nth(ns, j) /\ Contents(ns)[j] = n
    BY <1>1, <1>5, FindNameFacts
  <2>2. CASE i = j
    BY <1>2, <1>3, <2>1, <2>2
  <2>3. CASE i # j
    <3>1. Nth(ns, i) # Nth(ns, j)
      BY <1>1, <2>3 DEF IsQueueOf
    <3>2. Contents(ns)[i] # n
      BY <1>2, <2>1, <2>3 DEF NamesOK
    <3> QED BY <1>2, <1>3, <2>1, <3>1, <3>2
  <2> QED BY <2>2, <2>3
<1> QED BY <1>4, <1>5

\* A slot in use holds a name.
LEMMA InUseNamed ==
  ASSUME NEW ns, NamesOK(ns), NEW o, InUse(ns, o)
  PROVE  Load(ns, o) # Empty
BY NamesFacts DEF NamesOK, IsQueueOf, InUse

\* All slots are in use, or there is room for a name.
LEMMA KnownBound ==
  ASSUME NEW ns, NamesOK(ns)
  PROVE  /\ IsFiniteSet(Known(ns)) /\ Cardinality(Known(ns)) \in Nat
         /\ Cardinality(Known(ns)) < MaxNames <=>
              \/ Length(ns) < MaxNames
              \/ \E i \in 1..Length(ns) : Contents(ns)[i] = Empty
<1> DEFINE D == {i \in 1..Length(ns) : Contents(ns)[i] # Empty}
           f == [i \in D |-> Contents(ns)[i]]
<1>1. IsNames(ns) /\ Length(ns) \in Nat /\ Length(ns) <= MaxNames /\ MaxNames \in Nat
  BY NamesFacts, EmitterAssumption DEF NamesOK, IsQueueOf, IsNames
<1>2. f \in Injection(D, Known(ns)) /\ f \in Surjection(D, Known(ns))
  <2>1. \A n : n \in Known(ns) <=> \E i \in D : f[i] = n
    BY <1>1, KnownAre
  <2>2. \A i, j \in D : f[i] = f[j] => i = j
    BY DEF NamesOK
  <2>3. f \in [D -> Known(ns)]
    BY <2>1
  <2> HIDE DEF f, D
  <2> QED BY <2>1, <2>2, <2>3 DEF Injection, Surjection, IsInjective
<1>3. IsFiniteSet(1..MaxNames) /\ Cardinality(1..MaxNames) = MaxNames
  BY <1>1, FS_Interval
<1>4. D \in SUBSET (1..MaxNames)
  BY <1>1
<1>5. /\ IsFiniteSet(D) /\ Cardinality(D) <= MaxNames
      /\ MaxNames = Cardinality(D) => 1..MaxNames = D
  <2> HIDE DEF D
  <2> QED BY <1>3, <1>4, FS_Subset
<1>6. IsFiniteSet(Known(ns)) /\ Cardinality(Known(ns)) = Cardinality(D)
  <2>1. ExistsBijection(D, Known(ns))
    <3> HIDE DEF f, D
    <3> QED BY <1>2 DEF ExistsBijection, Bijection
  <2> HIDE DEF f, D
  <2> QED BY <1>5, <2>1, FS_Bijection
<1>7. Cardinality(D) \in Nat
  <2> HIDE DEF D
  <2> QED BY <1>5, FS_CardinalityType
<1>8. Cardinality(D) < MaxNames <=> D # 1..MaxNames
  <2>1. D = 1..MaxNames => Cardinality(D) = MaxNames
    BY <1>3
  <2> HIDE DEF D
  <2> QED BY <1>1, <1>5, <1>7, <2>1
<1>9. D # 1..MaxNames <=> \/ Length(ns) < MaxNames
                          \/ \E i \in 1..Length(ns) : Contents(ns)[i] = Empty
  <2>1. CASE Length(ns) < MaxNames
    <3>1. MaxNames \in 1..MaxNames /\ MaxNames \notin D
      BY <1>1, <2>1
    <3> QED BY <2>1, <3>1
  <2>2. CASE Length(ns) = MaxNames
    BY <1>1, <2>2
  <2> QED BY <1>1, <2>1, <2>2
<1> HIDE DEF D
<1> QED BY <1>6, <1>7, <1>8, <1>9

\* What a slot in use holds is what the names have there.
LEMMA LoadInUse ==
  ASSUME NEW ns, IsNames(ns), NEW i \in 1..Length(ns)
  PROVE  Load(ns, Nth(ns, i)) = Contents(ns)[i]
BY NamesFacts DEF IsQueueOf

\* A name becomes known unless all slots hold other names; slots in use keep
\* theirs.
LEMMA RegisterKnown ==
  ASSUME NEW ns, NamesOK(ns), NEW n \in EventNames \ TooLong, n # Empty
  PROVE  LET r == RegisterName(ns, n)
         IN  /\ Known(r) = IF n \in Known(ns) \/ Cardinality(Known(ns)) < MaxNames
                           THEN Known(ns) \cup {n} ELSE Known(ns)
             /\ FindName(r, n) # NULL <=> n \in Known(ns) \/ Cardinality(Known(ns)) < MaxNames
             /\ \A p : InUse(ns, p) => Load(r, p) = Load(ns, p)
<1> DEFINE r == RegisterName(ns, n)
           K == Known(ns)
           fits == n \in K \/ Cardinality(K) < MaxNames
<1>1. /\ n # Empty /\ n \in NameValues /\ IsNames(ns) /\ IsQueueOf(ns, NameValues)
      /\ Capacity(ns) = MaxNames
  BY EmitterAssumption, NamesFacts DEF NameValues, NamesOK, IsNames
<1>2. FindName(ns, n) # NULL <=> n \in K
  BY <1>1, FindKnown
<1>3. Cardinality(K) < MaxNames <=>
        Length(ns) < MaxNames \/ \E i \in 1..Length(ns) : Contents(ns)[i] = Empty
  BY KnownBound
<1>4. NamesOK(r)
  BY RegisterNameOK
<1>5. FindName(r, n) # NULL <=> n \in Known(r)
  <2> HIDE DEF r
  <2> QED BY <1>1, <1>4, FindKnown DEF NamesOK
<1>6. /\ Known(r) = IF fits THEN K \cup {n} ELSE K
      /\ \A p : InUse(ns, p) => Load(r, p) = Load(ns, p)
  <2>1. CASE FindName(ns, n) # NULL
    <3>1. r = ns
      BY <2>1 DEF RegisterName
    <3> QED BY <1>2, <2>1, <3>1
  <2>2. CASE FindName(ns, n) = NULL /\ FindName(ns, Empty) # NULL
    <3>1. PICK i \in 1..Length(ns) :
            FindName(ns, Empty) = Nth(ns, i) /\ Contents(ns)[i] = Empty
      BY <1>1, <2>2, FindNameFacts
    <3>2. r = [ns EXCEPT !.buf = Store(ns, Nth(ns, i), n)]
      BY <2>2, <3>1 DEF RegisterName
    <3>3. /\ IsNames(r) /\ Length(r) = Length(ns)
          /\ \A j : Nth(r, j) = Nth(ns, j)
          /\ \A j \in 1..Length(ns) :
               Contents(r)[j] = IF j = i THEN n ELSE Contents(ns)[j]
      BY <1>1, <3>2, StoreName
    <3> HIDE DEF r
    <3>4. \A x : x \in Known(r) <=> x \in K \/ x = n
      BY <1>1, <3>1, <3>3, KnownAre
    <3>5. \A p : InUse(ns, p) => Load(r, p) = Load(ns, p)
      BY <1>1, <3>1, <3>3, LoadInUse DEF InUse
    <3> QED BY <1>3, <3>1, <3>4, <3>5
  <2>3. ASSUME FindName(ns, n) = NULL, FindName(ns, Empty) = NULL
        PROVE  fits <=> CanPut(ns)
    <3>1. ~\E i \in 1..Length(ns) : Contents(ns)[i] = Empty
      BY <1>1, <2>3, FindNameFacts
    <3> QED BY <1>1, <1>2, <1>3, <2>3, <3>1 DEF IsQueueOf
  <2>4. CASE FindName(ns, n) = NULL /\ FindName(ns, Empty) = NULL /\ ~CanPut(ns)
    <3>1. r = ns
      BY <2>4 DEF RegisterName, Put
    <3> QED BY <2>3, <2>4, <3>1
  <2>5. CASE FindName(ns, n) = NULL /\ FindName(ns, Empty) = NULL /\ CanPut(ns)
    <3>1. r = Put(ns, n)
      BY <2>5 DEF RegisterName
    <3>2. /\ IsNames(r) /\ Contents(r) = Append(Contents(ns), n)
          /\ \A i : Nth(r, i) = Nth(ns, i)
      BY <1>1, <2>5, <3>1, NamesPut
    <3> HIDE DEF r
    <3>3. IsQueueOf(r, NameValues)
      BY <3>2, NamesFacts
    <3>4. /\ Length(r) = Length(ns) + 1 /\ Length(ns) \in Nat
          /\ \A i \in 1..Length(ns) : i \in 1..Length(r) /\ Contents(r)[i] = Contents(ns)[i]
          /\ Contents(r)[Length(ns) + 1] = n
      BY <1>1, <3>2, <3>3, AppendProperties DEF IsQueueOf
    <3>5. ItemsOf(Contents(r)) = ItemsOf(Contents(ns)) \cup {n}
      BY <1>1, <3>2, ItemsAppend DEF IsQueueOf
    <3>6. Known(r) = K \cup {n}
      BY <1>1, <3>5 DEF Known
    <3>7. \A p : InUse(ns, p) => Load(r, p) = Load(ns, p)
      BY <1>1, <3>2, <3>4, LoadInUse DEF InUse
    <3> QED BY <2>3, <2>5, <3>6, <3>7
  <2> QED BY <2>1, <2>2, <2>4, <2>5
<1>7. n \in Known(r) <=> fits
  BY <1>6
<1> QED BY <1>5, <1>6, <1>7

\* A name that is given up is known no longer; the slots of others keep theirs.
LEMMA UnregisterKnown ==
  ASSUME NEW ns, NamesOK(ns), NEW n
  PROVE  LET r == UnregisterName(ns, n)
         IN  /\ Known(r) = Known(ns) \ {n}
             /\ \A p : InUse(ns, p) /\ p # FindName(ns, n) => Load(r, p) = Load(ns, p)
<1> DEFINE r == UnregisterName(ns, n)
<1>1. IsNames(ns)
  BY DEF NamesOK
<1>2. CASE FindName(ns, n) = NULL
  <2>1. r = ns
    BY <1>2 DEF UnregisterName
  <2>2. n \notin Known(ns)
    BY <1>1, <1>2, FindNameFacts, KnownAre
  <2> QED BY <2>1, <2>2
<1>3. CASE FindName(ns, n) # NULL
  <2>1. PICK i \in 1..Length(ns) : FindName(ns, n) = Nth(ns, i) /\ Contents(ns)[i] = n
    BY <1>1, <1>3, FindNameFacts
  <2>2. r = [ns EXCEPT !.buf = Store(ns, Nth(ns, i), Empty)] /\ Empty \in NameValues
    BY <1>3, <2>1 DEF UnregisterName, NameValues
  <2>3. /\ IsNames(r) /\ Length(r) = Length(ns)
        /\ \A j : Nth(r, j) = Nth(ns, j)
        /\ \A j \in 1..Length(ns) :
             Contents(r)[j] = IF j = i THEN Empty ELSE Contents(ns)[j]
    BY <1>1, <2>2, StoreName
  <2> HIDE DEF r
  <2>4. \A j \in 1..Length(ns) : Contents(ns)[j] = n /\ n # Empty => j = i
    BY <2>1 DEF NamesOK
  <2>5. \A x : x \in Known(r) <=> x \in Known(ns) /\ x # n
    BY <1>1, <2>1, <2>3, <2>4, KnownAre
  <2>6. \A p : InUse(ns, p) /\ p # FindName(ns, n) => Load(r, p) = Load(ns, p)
    BY <1>1, <2>1, <2>3, LoadInUse DEF InUse
  <2> QED BY <2>5, <2>6 DEF r
<1> QED BY <1>2, <1>3

-----------------------------------------------------------------------------
(* Blocks.                                                                 *)

\* A block that waits points at a slot in use.
BlockOK(ns, eb) ==
  /\ eb \in [name : Nat \cup {NULL}, listener : Listeners, once : BOOLEAN]
  /\ eb.name # NULL => InUse(ns, eb.name)

BlocksOK(ns, q) ==
  IsBlocks(q) /\ \A i \in 1..Length(q) : BlockOK(ns, Contents(q)[i])

\* r has blocks of q only.
Fewer(r, q) == IsBlocks(r) /\ ItemsOf(Contents(r)) \subseteq ItemsOf(Contents(q))

LEMMA BlocksItems ==
  ASSUME NEW q, IsBlocks(q)
  PROVE  ItemsOf(Contents(q)) = {Contents(q)[i] : i \in 1..Length(q)}
BY BlocksFacts DEF IsQueueOf, ItemsOf

LEMMA FewerOK ==
  ASSUME NEW ns, NEW q, BlocksOK(ns, q), NEW r, Fewer(r, q)
  PROVE  BlocksOK(ns, r)
<1>1. \A x \in ItemsOf(Contents(q)) : BlockOK(ns, x)
  BY BlocksItems DEF BlocksOK
<1>2. \A i \in 1..Length(r) : Contents(r)[i] \in ItemsOf(Contents(r))
  BY BlocksItems DEF Fewer
<1> QED BY <1>1, <1>2 DEF BlocksOK, Fewer

\* The blocks of a queue that have not expired, in order.
Dead == {eb \in BlockValues : Expired(eb)}
Live(q) == Without(Contents(q), Dead)

\* r has the live blocks of q, and no others than blocks of q.
Keeps(r, q) == Fewer(r, q) /\ Live(r) = Live(q)

\* All queues of blocks.
BlockQueues == {q \in BQ!ControlBlock(MaxListeners) \cup {NULL} : IsBlocks(q)}

LEMMA BlockQueuesAll ==
  ASSUME NEW q
  PROVE  q \in BlockQueues <=> IsBlocks(q)
BY DEF BlockQueues, IsBlocks, BQ!IsQueue, BQ!IsRing, BQ!RingOf

LEMMA HeadIsValue ==
  ASSUME NEW q, IsBlocks(q), q # NULL
  PROVE  Load(q, q.head) \in BlockValues
<1>1. PICK c \in {MaxListeners} \ {0} : \E h, t \in 0..c : BQ!RingOf(q, c, h, t)
  BY DEF IsBlocks, BQ!IsQueue, BQ!IsRing
<1>2. PICK h \in 0..c, t \in 0..c : BQ!RingOf(q, c, h, t)
  BY <1>1
<1>3. q.head = BQ!At(h)
  BY <1>2 DEF BQ!RingOf
<1>4. BQ!Load(q, BQ!At(h)) \in BQ!Value
  BY <1>2, BlocksAssumed, BQ!LoadOfRing DEF BQ!QueueAssumption, BQ!HeaderAssumption
<1> QED BY <1>3, <1>4, BlocksAssumed, BlocksOperators

\* The steps of the loops, from any queue of blocks.
LEMMA NoSteps ==
  ASSUME NEW q, IsBlocks(q), Length(q) = 0
  PROVE  Get(q) = q
BY BlocksFacts DEF Get

LEMMA GetsFirst ==
  ASSUME NEW q, IsBlocks(q), Length(q) # 0
  PROVE  /\ IsBlocks(Get(q)) /\ Length(Get(q)) = Length(q) - 1
         /\ Contents(Get(q)) = Tail(Contents(q))
<1>1. PICK c : c = Contents(q)
  OBVIOUS
<1>2. IsBlocks(Get(q)) /\ Contents(Get(q)) = Tail(c)
  BY <1>1, BlocksGet
<1>3. c \in Seq(BlockValues) /\ Len(c) = Length(q) /\ Length(q) # 0
  BY <1>1, BlocksFacts DEF IsQueueOf
<1>4. Len(Tail(c)) = Length(q) - 1
  BY <1>3
<1>5. Len(Contents(Get(q))) = Length(Get(q))
  BY <1>2, BlocksFacts DEF IsQueueOf
<1> QED BY <1>1, <1>2, <1>4, <1>5

LEMMA FirstIsLast ==
  ASSUME NEW q, IsBlocks(q), Length(q) # 0
  PROVE  LET r == Put(Get(q), Load(q, q.head))
         IN  IsBlocks(r) /\ Contents(r) = Append(Tail(Contents(q)), Contents(q)[1])
<1> DEFINE g == Get(q)
           eb == Load(q, q.head)
           n == Length(q)
<1>1. /\ IsQueueOf(q, BlockValues) /\ n \in Nat \ {0} /\ n <= MaxListeners
  BY BlocksFacts DEF IsQueueOf, IsBlocks
<1>2. eb = Contents(q)[1] /\ eb \in BlockValues
  BY <1>1, BlocksGet, ElementOfSeq DEF IsQueueOf
<1>3. IsBlocks(g) /\ Length(g) = n - 1 /\ Contents(g) = Tail(Contents(q))
  BY GetsFirst
<1>4. CanPut(g)
  <2>1. CanPut(g) <=> Length(g) < MaxListeners
    BY <1>3, BlocksFacts DEF IsQueueOf, IsBlocks
  <2> QED BY <1>1, <1>3, <2>1, EmitterAssumption
<1> HIDE DEF g, eb
<1>5. IsBlocks(Put(g, eb)) /\ Contents(Put(g, eb)) = Append(Contents(g), eb)
  BY <1>2, <1>3, <1>4, BlocksPut
<1> QED BY <1>2, <1>3, <1>5 DEF g, eb

\* A rotation leaves the blocks that are not dropped, in their order.
LEMMA RotateBlocks ==
  ASSUME NEW q, IsBlocks(q), NEW dropped
  PROVE  IsBlocks(Rotate(q, dropped)) /\ Contents(Rotate(q, dropped)) = Without(Contents(q), dropped)
<1>0. PICK c : c = Contents(q)
  OBVIOUS
<1> DEFINE N == Length(q)
           next(r) == IF Load(r, r.head) \in dropped THEN Get(r)
                      ELSE Put(Get(r), Load(r, r.head))
           IsAfter(f) == f = [i \in 0..N |->
                                IF i = 0 THEN q
                                ELSE LET r == f[i - 1]
                                         eb == Load(r, r.head)
                                     IN  IF eb \in dropped THEN Get(r) ELSE Put(Get(r), eb)]
           after == CHOOSE f : IsAfter(f)
<1>1. Rotate(q, dropped) = after[N]
  BY DEF Rotate
<1>2. N \in Nat /\ c \in Seq(BlockValues) /\ Len(c) = N
  BY <1>0, BlocksFacts DEF IsQueueOf
<1>3. ASSUME NEW r, IsBlocks(r)
      PROVE  IsBlocks(next(r))
  <2>1. CASE r = NULL
    <3>1. Get(NULL) = NULL /\ \A x : Put(NULL, x) = NULL
      BY DEF Get, CanGet, IsEmpty, Put, CanPut, IsFull
    <3> QED BY <1>3, <2>1, <3>1
  <2>2. CASE r # NULL /\ Length(r) = 0
    <3>1. Get(r) = r /\ Load(r, r.head) \in BlockValues
      BY <1>3, <2>2, NoSteps, HeadIsValue
    <3>2. IsBlocks(Put(r, Load(r, r.head)))
      BY <1>3, <3>1, BlocksPut DEF Put
    <3> QED BY <1>3, <3>1, <3>2
  <2>3. CASE Length(r) # 0
    BY <1>3, <2>3, GetsFirst, FirstIsLast
  <2> QED BY <2>1, <2>2, <2>3
<1>4. \E f : IsAfter(f)
  <2> DEFINE step == [x \in (1..N) \X BlockQueues |-> next(x[2])]
  <2>1. step \in [(1..N) \X BlockQueues -> BlockQueues]
    BY <1>3, BlockQueuesAll
  <2>2. q \in BlockQueues
    BY BlockQueuesAll
  <2>3. PICK f : Iterates(N, BlockQueues, step, q, f)
    <3> HIDE DEF step, N
    <3> QED BY <1>2, <2>1, <2>2, IteratesExists
  <2>4. ASSUME NEW i \in 0..N
        PROVE  f[i] = IF i = 0 THEN q ELSE next(f[i - 1])
    <3>1. CASE i = 0
      BY <2>3, <3>1 DEF Iterates
    <3>2. CASE i # 0
      <4>1. i \in 1..N /\ f[i - 1] \in BlockQueues
        BY <1>2, <2>3, <3>2 DEF Iterates
      <4>2. f[i] = step[<<i, f[i - 1]>>]
        BY <2>3, <4>1 DEF Iterates
      <4> HIDE DEF next, N
      <4> QED BY <3>2, <4>1, <4>2
    <3> QED BY <3>1, <3>2
  <2>5. f = [i \in 0..N |-> f[i]]
    BY <2>3 DEF Iterates
  <2>6. IsAfter(f)
    <3> HIDE DEF N
    <3> QED BY <2>4, <2>5
  <2> QED BY <2>6
<1>5. IsAfter(after)
  <2> HIDE DEF IsAfter
  <2> QED BY <1>4
<1>6. after[0] = q /\ \A i \in 1..N : after[i] = next(after[i - 1])
  <2> HIDE DEF after, N
  <2>1. \A i \in 0..N : after[i] = IF i = 0 THEN q ELSE next(after[i - 1])
    BY <1>5
  <2>2. 0 \in 0..N /\ \A i \in 1..N : i \in 0..N /\ i # 0
    BY <1>2
  <2> HIDE DEF next
  <2> QED BY <2>1, <2>2
<1> DEFINE left(i) == Rotated(c, dropped, i)
           T == {i \in 0..N : IsBlocks(after[i]) /\ Contents(after[i]) = left(i)}
<1>7. left(0) = c /\ left(N) = Without(c, dropped)
  BY <1>2, RotatedEnds
<1>8. 0 \in T
  <2> HIDE DEF after, left, N
  <2> QED BY <1>0, <1>2, <1>6, <1>7
<1>9. ASSUME NEW i \in 1..N, i - 1 \in T
      PROVE  i \in T
  <2> DEFINE r == after[i - 1]
             x == Load(r, r.head)
  <2> HIDE DEF after, N
  <2>1. IsBlocks(r) /\ Contents(r) = left(i - 1) /\ after[i] = next(r)
    BY <1>6, <1>9
  <2>2. i \in 1..Len(c) /\ c \in Seq(BlockValues)
    BY <1>2
  <2>3. Len(left(i - 1)) >= 1 /\ left(i - 1)[1] = c[i]
    BY <2>2, RotatedFirst
  <2>4. left(i) = IF c[i] \in dropped THEN Tail(left(i - 1))
                  ELSE Append(Tail(left(i - 1)), c[i])
    BY <2>2, RotatedNext
  <2> HIDE DEF left, r
  <2>5. Length(r) # 0
    <3>1. Length(r) = Len(Contents(r)) /\ Length(r) \in Nat
      BY <2>1, BlocksFacts DEF IsQueueOf
    <3> QED BY <2>1, <2>3, <3>1
  <2>6. IsBlocks(Get(r)) /\ Contents(Get(r)) = Tail(Contents(r)) /\ x = Contents(r)[1]
    BY <2>1, <2>5, BlocksGet
  <2>7. /\ IsBlocks(Put(Get(r), x))
        /\ Contents(Put(Get(r), x)) = Append(Tail(Contents(r)), Contents(r)[1])
    BY <2>1, <2>5, FirstIsLast
  <2>8. IsBlocks(next(r)) /\ Contents(next(r)) = left(i)
    BY <2>1, <2>3, <2>4, <2>6, <2>7
  <2>9. i \in 0..N
    BY <1>2
  <2> HIDE DEF next
  <2> QED BY <2>1, <2>8, <2>9
<1>10. N \in T
  <2>1. N \in 0..N
    BY <1>2
  <2> HIDE DEF T
  <2> QED BY <1>2, <1>8, <1>9, <2>1, AllUpTo
<1> HIDE DEF left, N, after
<1> QED BY <1>0, <1>1, <1>7, <1>10

LEMMA RotateFewer ==
  ASSUME NEW q, IsBlocks(q), NEW dropped
  PROVE  Fewer(Rotate(q, dropped), q)
<1>1. Contents(q) \in Seq(BlockValues)
  BY BlocksFacts DEF IsQueueOf
<1>2. ItemsOf(Without(Contents(q), dropped)) \subseteq ItemsOf(Contents(q))
  BY <1>1, WithoutItems
<1> QED BY <1>2, RotateBlocks DEF Fewer

LEMMA KeepsSelf ==
  ASSUME NEW q, IsBlocks(q)
  PROVE  Keeps(q, q)
BY DEF Keeps, Fewer

LEMMA KeepsOfKept ==
  ASSUME NEW q, NEW r, Keeps(r, q), NEW s, Keeps(s, r)
  PROVE  Keeps(s, q)
BY DEF Keeps, Fewer

\* Expired blocks may go, from either end.
LEMMA DropsFirstDead ==
  ASSUME NEW q, IsBlocks(q), Length(q) # 0, Expired(Contents(q)[1])
  PROVE  Keeps(Get(q), q)
<1>1. PICK c : c = Contents(q)
  OBVIOUS
<1>2. IsBlocks(Get(q)) /\ Contents(Get(q)) = Tail(c)
  BY <1>1, BlocksGet
<1>3. c \in Seq(BlockValues) /\ Len(c) # 0
  BY <1>1, BlocksFacts DEF IsQueueOf
<1>4. c[1] \in BlockValues /\ Tail(c) \in Seq(BlockValues) /\ c = <<c[1]>> \o Tail(c)
  BY <1>3, FirstAndRest
<1>5. c[1] \in Dead
  BY <1>1, <1>4 DEF Dead
<1>6. Without(<<c[1]>> \o Tail(c), Dead) = Without(Tail(c), Dead)
  BY <1>4, <1>5, WithoutFirst
<1>7. ItemsOf(Tail(c)) \subseteq ItemsOf(c)
  BY <1>3 DEF ItemsOf
<1> QED BY <1>1, <1>2, <1>4, <1>6, <1>7 DEF Keeps, Fewer, Live

LEMMA DropsLastDead ==
  ASSUME NEW q, IsBlocks(q), Length(q) # 0, q.tail # q.begin, Expired(Contents(q)[Length(q)])
  PROVE  Keeps(Pop(q), q)
<1>1. PICK c : c = Contents(q)
  OBVIOUS
<1>2. PICK b : b = SubSeq(c, 1, Len(c) - 1)
  OBVIOUS
<1>3. c \in Seq(BlockValues) /\ Len(c) # 0 /\ Len(c) = Length(q)
  BY <1>1, BlocksFacts DEF IsQueueOf
<1>4. IsBlocks(Pop(q)) /\ Contents(Pop(q)) = b
  BY <1>1, <1>2, <1>3, BlocksPop
<1>5. c[Len(c)] \in BlockValues /\ b \in Seq(BlockValues) /\ c = Append(b, c[Len(c)])
  BY <1>2, <1>3, FrontAndLast
<1>6. c[Len(c)] \in Dead
  BY <1>1, <1>3, <1>5 DEF Dead
<1>7. Without(Append(b, c[Len(c)]), Dead) = Without(b, Dead)
  BY <1>5, <1>6, WithoutAppend
<1>8. ItemsOf(b) \subseteq ItemsOf(c)
  BY <1>2, <1>3 DEF ItemsOf
<1> QED BY <1>1, <1>4, <1>5, <1>7, <1>8 DEF Keeps, Fewer, Live

LEMMA TrimHeadBlocks ==
  ASSUME NEW q, IsBlocks(q)
  PROVE  Keeps(TrimHead(q), q)
<1> DEFINE N == Length(q)
           next(r) == IF Peek(r) # NULL /\ Expired(Load(r, Peek(r))) THEN Get(r) ELSE r
           IsAfter(f) == f = [i \in 0..N |->
                                IF i = 0 THEN q
                                ELSE LET r == f[i - 1]
                                     IN  IF Peek(r) # NULL /\ Expired(Load(r, Peek(r)))
                                         THEN Get(r) ELSE r]
           after == CHOOSE f : IsAfter(f)
<1>1. TrimHead(q) = after[N]
  BY DEF TrimHead
<1>2. N \in Nat
  BY BlocksFacts DEF IsQueueOf
<1>3. ASSUME NEW r, IsBlocks(r)
      PROVE  Keeps(next(r), r)
  <2>1. CASE Length(r) = 0
    BY <1>3, <2>1, NoSteps, KeepsSelf
  <2>2. CASE Length(r) # 0
    <3>1. Peek(r) = Nth(r, 1) /\ Load(r, Nth(r, 1)) = Contents(r)[1]
      <4>1. 1 \in 1..Length(r)
        BY <1>3, <2>2, BlocksFacts DEF IsQueueOf
      <4> QED BY <1>3, <4>1, BlocksWalk, BlocksFacts DEF IsQueueOf
    <3>2. ASSUME Expired(Contents(r)[1])
          PROVE  Keeps(Get(r), r)
      BY <1>3, <2>2, <3>2, DropsFirstDead
    <3> QED BY <1>3, <3>1, <3>2, KeepsSelf
  <2> QED BY <2>1, <2>2
<1>4. \E f : IsAfter(f)
  <2> DEFINE step == [x \in (1..N) \X BlockQueues |-> next(x[2])]
  <2>1. step \in [(1..N) \X BlockQueues -> BlockQueues] /\ q \in BlockQueues
    <3> HIDE DEF next
    <3> QED BY <1>3, BlockQueuesAll DEF Keeps, Fewer
  <2>2. PICK f : Iterates(N, BlockQueues, step, q, f)
    <3> HIDE DEF step, N
    <3> QED BY <1>2, <2>1, IteratesExists
  <2>3. ASSUME NEW i \in 0..N
        PROVE  f[i] = IF i = 0 THEN q ELSE next(f[i - 1])
    <3>1. CASE i = 0
      BY <2>2, <3>1 DEF Iterates
    <3>2. CASE i # 0
      <4>1. i \in 1..N /\ f[i - 1] \in BlockQueues
        BY <1>2, <2>2, <3>2 DEF Iterates
      <4>2. f[i] = step[<<i, f[i - 1]>>]
        BY <2>2, <4>1 DEF Iterates
      <4> HIDE DEF next, N
      <4> QED BY <3>2, <4>1, <4>2
    <3> QED BY <3>1, <3>2
  <2>4. f = [i \in 0..N |-> f[i]]
    BY <2>2 DEF Iterates
  <2>5. IsAfter(f)
    <3> HIDE DEF N
    <3> QED BY <2>3, <2>4
  <2> QED BY <2>5
<1>5. IsAfter(after)
  <2> HIDE DEF IsAfter
  <2> QED BY <1>4
<1>6. after[0] = q /\ \A i \in 1..N : after[i] = next(after[i - 1])
  <2> HIDE DEF after, N
  <2>1. \A i \in 0..N : after[i] = IF i = 0 THEN q ELSE next(after[i - 1])
    BY <1>5
  <2>2. 0 \in 0..N /\ \A i \in 1..N : i \in 0..N /\ i # 0
    BY <1>2
  <2> HIDE DEF next
  <2> QED BY <2>1, <2>2
<1> HIDE DEF after, N, next
<1> DEFINE T == {i \in 0..N : Keeps(after[i], q)}
<1>7. 0 \in T
  BY <1>2, <1>6, KeepsSelf
<1>8. ASSUME NEW i \in 1..N, i - 1 \in T
      PROVE  i \in T
  BY <1>3, <1>6, <1>8, KeepsOfKept DEF Keeps, Fewer
<1>9. N \in T
  <2>1. N \in 0..N
    BY <1>2
  <2> HIDE DEF T
  <2> QED BY <1>2, <1>7, <1>8, <2>1, AllUpTo
<1> QED BY <1>1, <1>9

\* From the tail no more is taken than the queue has, or the fault is set.
LEMMA TrimTailBlocks ==
  ASSUME NEW q, IsBlocks(q)
  PROVE  /\ TrimTail(q) \in [q : BlockQueues, fault : BOOLEAN]
         /\ Keeps(TrimTail(q).q, q)
<1> DEFINE N == Length(q)
           D == [q : BlockQueues, fault : BOOLEAN]
           first == [q |-> q, fault |-> FALSE]
           next(r) == IF r.fault \/ ~TrimsTail(r.q) THEN r
                      ELSE IF r.q.tail = r.q.begin THEN [r EXCEPT !.fault = TRUE]
                      ELSE [r EXCEPT !.q = Pop(r.q)]
           IsAfter(f) == f = [i \in 0..N |->
                                IF i = 0 THEN [q |-> q, fault |-> FALSE]
                                ELSE LET r == f[i - 1]
                                     IN  IF r.fault \/ ~TrimsTail(r.q) THEN r
                                         ELSE IF r.q.tail = r.q.begin
                                              THEN [r EXCEPT !.fault = TRUE]
                                         ELSE [r EXCEPT !.q = Pop(r.q)]]
           after == CHOOSE f : IsAfter(f)
<1>1. TrimTail(q) = after[N]
  BY DEF TrimTail
<1>2. N \in Nat
  BY BlocksFacts DEF IsQueueOf
<1>3. ASSUME NEW r \in D
      PROVE  next(r) \in D /\ Keeps(next(r).q, r.q)
  <2>1. IsBlocks(r.q) /\ Keeps(r.q, r.q)
    BY <1>3, BlockQueuesAll, KeepsSelf
  <2>2. CASE r.fault \/ ~TrimsTail(r.q)
    BY <1>3, <2>1, <2>2
  <2>3. CASE ~r.fault /\ TrimsTail(r.q) /\ r.q.tail = r.q.begin
    BY <1>3, <2>1, <2>3
  <2>4. CASE ~r.fault /\ TrimsTail(r.q) /\ r.q.tail # r.q.begin
    <3>1. Length(r.q) # 0
      BY <2>1, <2>4, BlocksWalk DEF TrimsTail
    <3>2. Keeps(Pop(r.q), r.q)
      <4>1. Length(r.q) \in 1..Length(r.q)
        BY <2>1, <3>1, BlocksFacts DEF IsQueueOf
      <4>2. Last(r.q) = Nth(r.q, Length(r.q))
            /\ Load(r.q, Nth(r.q, Length(r.q))) = Contents(r.q)[Length(r.q)]
        BY <2>1, <4>1, BlocksWalk, BlocksFacts DEF IsQueueOf
      <4>3. Expired(Contents(r.q)[Length(r.q)])
        BY <2>4, <4>2 DEF TrimsTail
      <4> QED BY <2>1, <2>4, <3>1, <4>3, DropsLastDead
    <3>3. Pop(r.q) \in BlockQueues
      BY <3>2, BlockQueuesAll DEF Keeps, Fewer
    <3>4. next(r) = [q |-> Pop(r.q), fault |-> r.fault]
      BY <1>3, <2>4
    <3> QED BY <1>3, <3>2, <3>3, <3>4
  <2> QED BY <2>2, <2>3, <2>4
<1>4. first \in D
  BY BlockQueuesAll
<1>5. \E f : IsAfter(f)
  <2> DEFINE step == [x \in (1..N) \X D |-> next(x[2])]
  <2>1. step \in [(1..N) \X D -> D]
    <3> HIDE DEF next, D
    <3> QED BY <1>3
  <2>2. PICK f : Iterates(N, D, step, first, f)
    <3> HIDE DEF step, N, D, first
    <3> QED BY <1>2, <1>4, <2>1, IteratesExists
  <2>3. ASSUME NEW i \in 0..N
        PROVE  f[i] = IF i = 0 THEN first ELSE next(f[i - 1])
    <3> HIDE DEF first, D, next
    <3>1. CASE i = 0
      BY <2>2, <3>1 DEF Iterates
    <3>2. CASE i # 0
      <4>1. i \in 1..N /\ f[i - 1] \in D
        BY <1>2, <2>2, <3>2 DEF Iterates
      <4>2. f[i] = step[<<i, f[i - 1]>>]
        BY <2>2, <4>1 DEF Iterates
      <4> HIDE DEF N
      <4> QED BY <3>2, <4>1, <4>2
    <3> QED BY <3>1, <3>2
  <2>4. f = [i \in 0..N |-> f[i]]
    BY <2>2 DEF Iterates
  <2>5. IsAfter(f)
    <3> HIDE DEF N
    <3> QED BY <2>3, <2>4
  <2> QED BY <2>5
<1>6. IsAfter(after)
  <2> HIDE DEF IsAfter
  <2> QED BY <1>5
<1>7. after[0] = first /\ \A i \in 1..N : after[i] = next(after[i - 1])
  <2> HIDE DEF after, N
  <2>1. \A i \in 0..N : after[i] = IF i = 0 THEN first ELSE next(after[i - 1])
    BY <1>6
  <2>2. 0 \in 0..N /\ \A i \in 1..N : i \in 0..N /\ i # 0
    BY <1>2
  <2> HIDE DEF next, first
  <2> QED BY <2>1, <2>2
<1>8. Keeps(first.q, q)
  BY KeepsSelf
<1> HIDE DEF after, N, next, D, first
<1> DEFINE T == {i \in 0..N : after[i] \in D /\ Keeps(after[i].q, q)}
<1>9. 0 \in T
  BY <1>2, <1>4, <1>7, <1>8
<1>10. ASSUME NEW i \in 1..N, i - 1 \in T
       PROVE  i \in T
  <2>1. after[i] = next(after[i - 1]) /\ after[i - 1] \in D /\ Keeps(after[i - 1].q, q)
    BY <1>7, <1>10
  <2>2. after[i] \in D /\ Keeps(after[i].q, after[i - 1].q)
    BY <1>3, <2>1
  <2> QED BY <2>1, <2>2, KeepsOfKept
<1>11. N \in T
  <2>1. N \in 0..N
    BY <1>2
  <2> HIDE DEF T
  <2> QED BY <1>2, <1>9, <1>10, <2>1, AllUpTo
<1> QED BY <1>1, <1>11 DEF D

\* Without a fault, squeezing leaves the live blocks and no others.
LEMMA SqueezeBlocks ==
  ASSUME NEW q, IsBlocks(q)
  PROVE  /\ Squeeze(q).fault \in BOOLEAN
         /\ Keeps(Squeeze(q).q, q)
         /\ ~Squeeze(q).fault => Contents(Squeeze(q).q) = Live(q)
<1> DEFINE h == TrimHead(q)
           r == TrimTail(h)
           dead == {eb \in BlocksOf(r.q) : Expired(eb)}
           s == Rotate(r.q, dead)
<1>1. Keeps(h, q)
  BY TrimHeadBlocks
<1>2. r \in [q : BlockQueues, fault : BOOLEAN] /\ Keeps(r.q, h)
  BY <1>1, TrimTailBlocks DEF Keeps, Fewer
<1>3. IsBlocks(r.q) /\ Keeps(r.q, q)
  <2> HIDE DEF h, r
  <2> QED BY <1>1, <1>2, KeepsOfKept DEF Keeps, Fewer
<1>4. Squeeze(q) = [q |-> IF r.fault THEN r.q ELSE s, fault |-> r.fault]
  BY <1>2 DEF Squeeze
<1> HIDE DEF h, r
<1>5. PICK c : c = Contents(r.q)
  OBVIOUS
<1>6. c \in Seq(BlockValues)
  BY <1>3, <1>5, BlocksFacts DEF IsQueueOf
<1>7. IsBlocks(s) /\ Contents(s) = Without(c, dead)
  BY <1>3, <1>5, RotateBlocks
<1>8. Without(c, dead) = Without(c, Dead)
  <2>1. \A x \in ItemsOf(c) : x \in dead <=> x \in Dead
    BY <1>5, <1>6 DEF Dead, BlocksOf, ItemsOf
  <2> HIDE DEF dead
  <2> QED BY <1>6, <2>1, WithoutAlike
<1>9. Without(c, Dead) = Live(q)
  BY <1>3, <1>5 DEF Keeps, Fewer, Live
<1>10. Without(Without(c, Dead), Dead) = Without(c, Dead)
  <2>1. Dead \cup Dead = Dead
    OBVIOUS
  <2> QED BY <1>6, <2>1, WithoutTwice
<1>11. ItemsOf(Without(c, Dead)) \subseteq ItemsOf(c)
  BY <1>6, WithoutItems
<1>12. Keeps(s, q)
  BY <1>3, <1>5, <1>7, <1>8, <1>9, <1>10, <1>11 DEF Keeps, Fewer, Live
<1> HIDE DEF s
<1> QED BY <1>2, <1>3, <1>4, <1>7, <1>8, <1>9, <1>12

-----------------------------------------------------------------------------
(* The calls.                                                              *)

\* What holds of the two queues between calls.
EmitterOK(ns, q) == NamesOK(ns) /\ BlocksOK(ns, q)

LEMMA EmitterInit ==
  EmitterOK(Initialise(NULL, MaxNames, NameSize),
            Initialise(NULL, MaxListeners, BlockSize))
BY NamesInit, BlocksInit DEF EmitterOK, NamesOK, BlocksOK

\* A block stays right when no slot in use gets free.
LEMMA BlocksStay ==
  ASSUME NEW ns, NEW q, BlocksOK(ns, q), NEW ms, \A p : InUse(ns, p) => InUse(ms, p)
  PROVE  BlocksOK(ms, q)
BY DEF BlocksOK, BlockOK

\* on() and once(), unless they run into the fault.
LEMMA RegisteredOK ==
  ASSUME NEW ns, NEW q, EmitterOK(ns, q),
         NEW n \in EventNames, n # Empty, NEW l \in Listeners, NEW once \in BOOLEAN
  PROVE  LET r == Registered(ns, q, n, l, once)
         IN  ~r.fault => EmitterOK(r.names, r.q)
<1> DEFINE ms == RegisterName(ns, n)
           p == FindName(ms, n)
           s == IF Available(q) <= 0 THEN Squeeze(q) ELSE [q |-> q, fault |-> FALSE]
           room == Available(s.q) > 0
           b == Block(p, l, once)
           r == Registered(ns, q, n, l, once)
<1>1. CASE n \in TooLong \/ p = NULL
  <2>1. r = Outcome(ns, q, FALSE, FALSE)
    BY <1>1 DEF Registered
  <2> QED BY <2>1 DEF Outcome
<1>2. CASE n \notin TooLong /\ p # NULL /\ s.fault
  <2>1. r = Outcome(ms, s.q, FALSE, TRUE)
    BY <1>2 DEF Registered
  <2> QED BY <2>1 DEF Outcome
<1>3. CASE n \notin TooLong /\ p # NULL /\ ~s.fault
  <2>1. r = Outcome(ms, IF room THEN Put(s.q, b) ELSE s.q, room, FALSE)
    BY <1>3 DEF Registered
  <2>2. NamesOK(ms) /\ (\A o : InUse(ns, o) => InUse(ms, o)) /\ InUse(ms, p) /\ p \in Nat
    BY <1>3, RegisterNameOK DEF EmitterOK
  <2>3. Fewer(s.q, q)
    <3>1. IsBlocks(q) /\ Fewer(q, q)
      BY DEF EmitterOK, BlocksOK, Fewer
    <3> QED BY <3>1, SqueezeBlocks DEF Keeps
  <2>4. b \in [name : Nat \cup {NULL}, listener : Listeners, once : BOOLEAN] /\ b.name = p
    BY <2>2 DEF Block
  <2> HIDE DEF ms, p, s, r, b
  <2>5. BlocksOK(ms, s.q)
    BY <2>2, <2>3, FewerOK, BlocksStay DEF EmitterOK
  <2>6. ASSUME room
        PROVE  BlocksOK(ms, Put(s.q, b))
    <3> DEFINE t == s.q
               u == Put(t, b)
    <3>1. IsBlocks(t) /\ IsQueueOf(t, BlockValues)
      BY <2>5, BlocksFacts DEF BlocksOK
    <3>2. Length(t) < MaxListeners
      <4>1. Available(t) = MaxListeners - Length(t) /\ Length(t) \in Nat
        BY <3>1, BlocksFacts DEF IsQueueOf
      <4> QED BY <2>6, <4>1, EmitterAssumption
    <3>3. CanPut(t)
      BY <3>1, <3>2 DEF IsQueueOf, IsBlocks
    <3>4. b \in BlockValues
      BY <2>4 DEF BlockValues
    <3> HIDE DEF t
    <3>5. IsBlocks(u) /\ Contents(u) = Append(Contents(t), b)
      BY <3>1, <3>3, <3>4, BlocksPut
    <3> HIDE DEF u
    <3>6. IsQueueOf(u, BlockValues)
      BY <3>5, BlocksFacts
    <3>7. /\ Length(u) = Length(t) + 1 /\ Length(t) \in Nat
          /\ \A i \in 1..Length(t) : Contents(u)[i] = Contents(t)[i]
          /\ Contents(u)[Length(t) + 1] = b
      BY <3>1, <3>4, <3>5, <3>6, AppendProperties DEF IsQueueOf
    <3>8. \A i \in 1..Length(u) : i \in 1..Length(t) \/ i = Length(t) + 1
      BY <3>7
    <3>9. BlockOK(ms, b)
      BY <2>2, <2>4 DEF BlockOK
    <3>10. \A i \in 1..Length(t) : BlockOK(ms, Contents(t)[i])
      BY <2>5 DEF BlocksOK, t
    <3>11. BlocksOK(ms, u)
      BY <3>5, <3>7, <3>8, <3>9, <3>10 DEF BlocksOK
    <3> QED BY <3>11 DEF u, t
  <2>7. EmitterOK(ms, IF room THEN Put(s.q, b) ELSE s.q)
    BY <2>2, <2>5, <2>6 DEF EmitterOK
  <2> QED BY <2>1, <2>7 DEF Outcome, r
<1> QED BY <1>1, <1>2, <1>3

\* off(): the name goes only when no block points at its slot any more.
LEMMA TurnedOffOK ==
  ASSUME NEW ns, NEW q, EmitterOK(ns, q), NEW n, NEW l
  PROVE  LET r == TurnedOff(ns, q, n, l)
         IN  EmitterOK(r.names, r.q) /\ r.fault = FALSE
<1> DEFINE p == FindName(ns, n)
           s == Rotate(q, {eb \in BlocksOf(q) : eb.name = p /\ eb.listener = l})
           left == \E eb \in BlocksOf(s) : eb.name = p
           ms == IF left THEN ns ELSE UnregisterName(ns, n)
           r == TurnedOff(ns, q, n, l)
<1>1. CASE p = NULL
  <2>1. r = Outcome(ns, q, FALSE, FALSE)
    BY <1>1 DEF TurnedOff
  <2> QED BY <2>1 DEF Outcome
<1>2. CASE p # NULL
  <2>1. r = Outcome(ms, s, TRUE, FALSE)
    BY <1>2 DEF TurnedOff
  <2>2. BlocksOK(ns, s)
    <3>1. Fewer(s, q)
      BY RotateFewer DEF EmitterOK, BlocksOK
    <3> HIDE DEF s
    <3> QED BY <3>1, FewerOK DEF EmitterOK
  <2> HIDE DEF s, r
  <2>3. CASE left
    BY <2>1, <2>2, <2>3 DEF Outcome, EmitterOK, r
  <2>4. CASE ~left
    <3>1. \A i \in 1..Length(s) : Contents(s)[i].name # p
      <4>1. Contents(s) \in Seq(BlockValues) /\ Len(Contents(s)) = Length(s)
        BY <2>2, BlocksFacts DEF BlocksOK, IsQueueOf
      <4> QED BY <2>4, <4>1 DEF BlocksOf, ItemsOf
    <3>2. NamesOK(ms) /\ \A o : InUse(ns, o) /\ o # p => InUse(ms, o)
      BY <2>4, UnregisterNameOK DEF EmitterOK
    <3> HIDE DEF ms, p
    <3>3. BlocksOK(ms, s)
      BY <2>2, <3>1, <3>2 DEF BlocksOK, BlockOK
    <3> QED BY <2>1, <3>2, <3>3 DEF Outcome, EmitterOK, r
  <2> QED BY <2>3, <2>4
<1> QED BY <1>1, <1>2

\* emit(), and a part of it: blocks expire, and nothing else.
Expires(r, q) ==
  /\ IsBlocks(r) /\ Length(r) = Length(q)
  /\ \A i \in 1..Length(q) :
       \/ Contents(r)[i] = Contents(q)[i]
       \/ Contents(r)[i] = [Contents(q)[i] EXCEPT !.name = NULL]

LEMMA ExpiresOK ==
  ASSUME NEW ns, NEW q, BlocksOK(ns, q), NEW r, Expires(r, q)
  PROVE  BlocksOK(ns, r)
<1>1. ASSUME NEW i \in 1..Length(r)
      PROVE  BlockOK(ns, Contents(r)[i])
  <2>1. BlockOK(ns, Contents(q)[i])
    BY DEF BlocksOK, Expires
  <2>2. CASE Contents(r)[i] = Contents(q)[i]
    BY <2>1, <2>2
  <2>3. CASE Contents(r)[i] = [Contents(q)[i] EXCEPT !.name = NULL]
    BY <2>1, <2>3 DEF BlockOK
  <2> QED BY <2>2, <2>3 DEF Expires
<1> QED BY <1>1 DEF BlocksOK, Expires

\* r is q but for the blocks whose places are in spent, which have expired.
OnlySpent(r, q, spent) ==
  /\ \A i : Nth(r, i) = Nth(q, i)
  /\ \A i \in 1..Length(q) :
       Contents(r)[i] = IF Nth(q, i) \in spent THEN [Contents(q)[i] EXCEPT !.name = NULL]
                        ELSE Contents(q)[i]

\* The blocks whose places are in spent expire.
LEMMA ExpireSpent ==
  ASSUME NEW ns, NEW q, BlocksOK(ns, q), q # NULL,
         NEW spent, \A o \in spent : \E i \in 1..Length(q) : o = Nth(q, i),
         NEW r, r = [q EXCEPT !.buf = [o \in DOMAIN q.buf |->
                       IF o \in spent THEN [q.buf[o] EXCEPT !.name = NULL]
                       ELSE q.buf[o]]]
  PROVE  Expires(r, q) /\ OnlySpent(r, q, spent)
<1> DEFINE b == [o \in DOMAIN q.buf |->
                   IF o \in spent THEN [q.buf[o] EXCEPT !.name = NULL] ELSE q.buf[o]]
<1>0. r = [q EXCEPT !.buf = b]
  OBVIOUS
<1>1. IsQueueOf(q, BlockValues) /\ IsBlocks(q)
  BY BlocksFacts DEF BlocksOK
<1>2. q.buf \in [DOMAIN q.buf -> BlockValues]
  <2>1. BQ!IsRing(q)
    BY <1>1 DEF IsBlocks, BQ!IsQueue
  <2> QED BY <2>1, BlocksAssumed DEF BQ!IsRing, BQ!RingOf
<1>3. b \in [DOMAIN q.buf -> BlockValues]
  <2>1. ASSUME NEW o \in DOMAIN q.buf, o \in spent
        PROVE  [q.buf[o] EXCEPT !.name = NULL] \in BlockValues
    <3>1. PICK i \in 1..Length(q) : o = Nth(q, i)
      BY <2>1
    <3>2. q.buf[o] \in [name : Nat \cup {NULL}, listener : Listeners, once : BOOLEAN]
      BY <1>1, <3>1 DEF BlocksOK, BlockOK, IsQueueOf
    <3> QED BY <3>2 DEF BlockValues
  <2> QED BY <1>2, <2>1
<1>4. /\ IsBlocks(r) /\ Length(r) = Length(q)
      /\ \A i : Nth(r, i) = Nth(q, i)
      /\ \A i \in 1..Length(q) : Contents(r)[i] = b[Nth(q, i)]
  <2> DEFINE u == [q EXCEPT !.buf = b]
  <2> HIDE DEF b
  <2>1. /\ IsBlocks(u) /\ Length(u) = Length(q)
        /\ \A i : Nth(u, i) = Nth(q, i)
        /\ \A i \in 1..Length(q) : Contents(u)[i] = b[Nth(q, i)]
    BY <1>1, <1>3, BlocksRewrite
  <2>2. r = u
    BY <1>0
  <2> HIDE DEF u
  <2> QED BY <2>1, <2>2
<1>5. \A i \in 1..Length(q) :
        b[Nth(q, i)] = IF Nth(q, i) \in spent THEN [Contents(q)[i] EXCEPT !.name = NULL]
                       ELSE Contents(q)[i]
  BY <1>1 DEF IsQueueOf
<1> HIDE DEF b
<1> QED BY <1>4, <1>5 DEF Expires, OnlySpent

-----------------------------------------------------------------------------
(* EventEmitter.                                                           *)

\* What holds until on() or once() is given the empty name.
EmitterInv == EmitterOK(m_names, m_listeners) /\ fault \in BOOLEAN

\* The inductive invariant.
BlankInv == blank \in BOOLEAN /\ (~blank => EmitterInv)

LEMMA EmitterInvInit == Init => EmitterInv /\ BlankInv
BY EmitterInit DEF Init, EmitterInv, BlankInv

LEMMA OnInv ==
  ASSUME EmitterInv, NEW u \in Uses, On(u[1], u[2], u[3]), u[1] # Empty
  PROVE  EmitterInv'
<1> DEFINE r == Registered(m_names, m_listeners, u[1], u[2], u[3])
<1>1. u[1] \in EventNames /\ u[2] \in Listeners /\ u[3] \in BOOLEAN
  BY EmitterAssumption
<1>2. ~r.fault => EmitterOK(r.names, r.q)
  BY <1>1, RegisteredOK DEF EmitterInv
<1> HIDE DEF r
<1>3. Takes(OnOrOnce(u[3]), u[1], u[2], r)
  BY DEF On, r
<1> QED BY <1>2, <1>3 DEF Takes, EmitterInv

LEMMA OffInv ==
  ASSUME EmitterInv, NEW u \in Uses, Off(u[1], u[2])
  PROVE  EmitterInv'
<1> DEFINE r == TurnedOff(m_names, m_listeners, u[1], u[2])
<1>1. EmitterOK(r.names, r.q) /\ r.fault = FALSE
  BY TurnedOffOK DEF EmitterInv
<1> HIDE DEF r
<1>2. Takes("off", u[1], u[2], r)
  BY DEF Off, r
<1> QED BY <1>1, <1>2 DEF Takes, EmitterInv

LEMMA EmitInv ==
  ASSUME EmitterInv, NEW n \in EventNames, Emit(n)
  PROVE  EmitterInv'
<1> DEFINE p == FindName(m_names, n)
           q == m_listeners
           spent == {Nth(q, i) : i \in {j \in DOMAIN Contents(q) :
                                          Contents(q)[j].name = p /\ Contents(q)[j].once}}
           r == [q EXCEPT !.buf = [o \in DOMAIN q.buf |->
                   IF o \in spent THEN [q.buf[o] EXCEPT !.name = NULL] ELSE q.buf[o]]]
<1>1. m_names' = m_names /\ fault' = fault
      /\ m_listeners' = IF p = NULL \/ q = NULL THEN q ELSE r
  BY DEF Emit
<1>2. BlocksOK(m_names, q)
  BY DEF EmitterInv, EmitterOK
<1>3. ASSUME q # NULL
      PROVE  BlocksOK(m_names, r)
  <2>1. \A o \in spent : \E i \in 1..Length(q) : o = Nth(q, i)
    BY DEF Contents
  <2> HIDE DEF spent
  <2>2. PICK x : x = r
    OBVIOUS
  <2>3. Expires(x, q)
    BY <1>2, <1>3, <2>1, <2>2, ExpireSpent
  <2> HIDE DEF r
  <2> QED BY <1>2, <2>2, <2>3, ExpiresOK
<1> HIDE DEF r
<1> QED BY <1>1, <1>2, <1>3 DEF EmitterInv, EmitterOK

LEMMA EmitterInvNext ==
  ASSUME BlankInv, [Next]_vars
  PROVE  BlankInv' /\ (~blank' => ~blank)
<1>1. CASE UNCHANGED vars
  BY <1>1 DEF vars, EmitterInv, BlankInv
<1>2. ASSUME NEW u \in Uses, On(u[1], u[2], u[3])
      PROVE  BlankInv' /\ (~blank' => ~blank)
  <2>1. blank' = (blank \/ u[1] = Empty)
    BY <1>2 DEF On
  <2>2. blank' \in BOOLEAN /\ (~blank' => ~blank /\ u[1] # Empty)
    BY <2>1, Zenon DEF BlankInv
  <2> QED BY <1>2, <2>2, OnInv DEF BlankInv
<1>3. ASSUME NEW u \in Uses, Off(u[1], u[2])
      PROVE  BlankInv' /\ (~blank' => ~blank)
  <2>1. blank' = blank
    BY <1>3 DEF Off
  <2> QED BY <1>3, <2>1, OffInv DEF BlankInv
<1>4. ASSUME NEW n \in EventNames, Emit(n)
      PROVE  BlankInv' /\ (~blank' => ~blank)
  <2>1. blank' = blank
    BY <1>4 DEF Emit
  <2> QED BY <1>4, <2>1, EmitInv DEF BlankInv
<1> QED BY <1>1, <1>2, <1>3, <1>4 DEF Next

LEMMA EmitterInvTypes == EmitterInv => TypeOK /\ NamesLinked
<1> SUFFICES ASSUME EmitterInv PROVE TypeOK /\ NamesLinked
  OBVIOUS
<1> DEFINE S == (EventNames \ TooLong) \cup {Empty}
<1>1. /\ NamesOK(m_names) /\ BlocksOK(m_names, m_listeners)
      /\ IsQueueOf(m_names, NameValues) /\ IsQueueOf(m_listeners, BlockValues)
  BY NamesFacts, BlocksFacts DEF EmitterInv, EmitterOK, NamesOK, BlocksOK
<1>2. Names \in Seq(NameValues) /\ Len(Names) = Length(m_names) /\ Len(Names) <= MaxNames
  BY <1>1 DEF IsQueueOf, Names, NamesOK, IsNames
<1>3. Len(Blocks) = Length(m_listeners) /\ Len(Blocks) <= MaxListeners
  BY <1>1 DEF IsQueueOf, Blocks, BlocksOK, IsBlocks
<1>4. \A i \in 1..Len(Names) : Names[i] \in S
  BY <1>1, <1>2 DEF NamesOK, Names
<1>5. Names \in Seq(S)
  <2>1. Len(Names) \in Nat /\ Names \in [1..Len(Names) -> S]
    BY <1>2, <1>4, LenProperties
  <2> HIDE DEF S
  <2> QED BY <2>1, SeqDef
<1>6. ASSUME NEW i \in 1..Len(Blocks)
      PROVE  /\ Blocks[i].listener \in Listeners /\ Blocks[i].once \in BOOLEAN
             /\ Blocks[i].name # NULL =>
                  \E j \in 1..Len(Names) :
                    /\ Nth(m_names, j) = Blocks[i].name
                    /\ Blocks[i].name \in DOMAIN m_names.buf
                    /\ Load(m_names, Blocks[i].name) # Empty
  <2>1. BlockOK(m_names, Blocks[i])
    BY <1>1, <1>3 DEF BlocksOK, Blocks
  <2>2. ASSUME Blocks[i].name # NULL
        PROVE  \E j \in 1..Len(Names) :
                 /\ Nth(m_names, j) = Blocks[i].name
                 /\ Blocks[i].name \in DOMAIN m_names.buf
                 /\ Load(m_names, Blocks[i].name) # Empty
    <3>1. PICK j \in 1..Length(m_names) :
            Nth(m_names, j) = Blocks[i].name /\ Contents(m_names)[j] # Empty
      BY <2>1, <2>2 DEF BlockOK, InUse
    <3>2. Nth(m_names, j) \in DOMAIN m_names.buf
          /\ Contents(m_names)[j] = Load(m_names, Nth(m_names, j))
      BY <1>1 DEF IsQueueOf
    <3> QED BY <1>2, <3>1, <3>2
  <2> QED BY <2>1, <2>2 DEF BlockOK
<1>7. TypeOK
  BY <1>2, <1>3, <1>5, <1>6 DEF TypeOK, EmitterInv
<1>8. \A i, j \in 1..Len(Names) : Names[i] = Names[j] /\ Names[i] # Empty => i = j
  BY <1>1, <1>2 DEF NamesOK, Names
<1>9. NamesLinked
  BY <1>6, <1>8 DEF NamesLinked, Expired
<1> QED BY <1>7, <1>9

\* The types, and with them that the queues never hold more than they have
\* room for, until the empty name is registered.
THEOREM EmitterTypes == Spec => [](blank \/ TypeOK)
<1>1. BlankInv /\ [Next]_vars => BlankInv'
  BY EmitterInvNext
<1>2. BlankInv => blank \/ TypeOK
  BY EmitterInvTypes DEF BlankInv
<1> QED BY EmitterInvInit, <1>1, <1>2, PTL DEF Spec

\* However often names are registered, given up and registered again: no name
\* has two slots, and no slot is used for another name, or none, while a block
\* points at it (gevent.cpp:35, 87-109).  Clients may emit and turn off the
\* empty name; once they have registered it nothing is said.
THEOREM NamesStayLinked == Spec => []NamesLinked
<1>1. BlankInv /\ [Next]_vars => BlankInv'
  BY EmitterInvNext
<1>2. BlankInv => NamesLinked
  BY EmitterInvTypes DEF BlankInv, NamesLinked
<1> QED BY EmitterInvInit, <1>1, <1>2, PTL DEF Spec

-----------------------------------------------------------------------------
(* The registry.                                                           *)

LEMMA MappedItems ==
  ASSUME NEW g, NEW s
  PROVE  ItemsOf(Mapped(s, g)) = {g[x] : x \in ItemsOf(s)}
BY DEF Mapped, ItemsOf

LEMMA MappedAlike ==
  ASSUME NEW s, NEW g, NEW h, \A x \in ItemsOf(s) : g[x] = h[x]
  PROVE  Mapped(s, g) = Mapped(s, h)
BY DEF Mapped, ItemsOf

LEMMA MappedWithout ==
  ASSUME NEW T, NEW R, NEW g \in [T -> R], NEW s \in Seq(T),
         NEW S, NEW W, \A x \in ItemsOf(s) : x \in S <=> g[x] \in W
  PROVE  Commutes(s, g, S, W)
<1>1. PICK V : V = {x \in T : g[x] \in W}
  OBVIOUS
<1>2. Commutes(s, g, V, W)
  <2>1. Reflects(g, T, V, W)
    BY <1>1 DEF Reflects
  <2> QED BY <2>1, WithoutMapped
<1>3. Without(s, V) = Without(s, S)
  <2>1. \A x \in ItemsOf(s) : x \in V <=> x \in S
    BY <1>1 DEF ItemsOf
  <2> QED BY <2>1, WithoutAlike
<1> QED BY <1>2, <1>3 DEF Commutes

-----------------------------------------------------------------------------
(* The registrations that the blocks stand for.                            *)

Records == [name : Nat \cup {NULL}, listener : Listeners, once : BOOLEAN]

\* The registration of a block, with the names ns.
Reg(ns) == [eb \in Records |-> [eb EXCEPT !.name = Load(ns, eb.name)]]
Regs(ns, q) == Mapped(Live(q), Reg(ns))

LEMMA BlockRecords ==
  ASSUME NEW ns, NEW q, BlocksOK(ns, q)
  PROVE  /\ Contents(q) \in Seq(Records)
         /\ \A x \in ItemsOf(Contents(q)) : BlockOK(ns, x)
<1>1. PICK c : c = Contents(q)
  OBVIOUS
<1>2. c \in Seq(BlockValues) /\ Len(c) = Length(q) /\ Length(q) \in Nat
  BY <1>1, BlocksFacts DEF BlocksOK, IsQueueOf
<1>3. \A i \in 1..Len(c) : BlockOK(ns, c[i])
  BY <1>1, <1>2 DEF BlocksOK
<1>4. \A i \in 1..Len(c) : c[i] \in Records
  BY <1>3 DEF BlockOK, Records
<1>5. c \in Seq(Records)
  BY <1>2, <1>4
<1>6. \A x \in ItemsOf(c) : BlockOK(ns, x)
  BY <1>2, <1>3 DEF ItemsOf
<1> QED BY <1>1, <1>5, <1>6

LEMMA LiveBlocks ==
  ASSUME NEW ns, NEW q, BlocksOK(ns, q)
  PROVE  /\ Live(q) \in Seq(Records) /\ Len(Live(q)) \in Nat /\ Len(Live(q)) <= Length(q)
         /\ \A x \in ItemsOf(Live(q)) :
              x \in Records /\ x.name # NULL /\ x.name \in Nat /\ InUse(ns, x.name)
         /\ \A x : x \in ItemsOf(Live(q)) <=> x \in ItemsOf(Contents(q)) /\ x.name # NULL
<1>1. PICK c : c = Contents(q)
  OBVIOUS
<1>2. c \in Seq(Records) /\ \A x \in ItemsOf(c) : BlockOK(ns, x)
  BY <1>1, BlockRecords
<1>3. Live(q) = Without(c, Dead)
  BY <1>1 DEF Live
<1>4. Live(q) \in Seq(Records)
  BY <1>2, <1>3, WithoutType
<1>5. ItemsOf(Live(q)) = ItemsOf(c) \ Dead /\ Len(Live(q)) <= Len(c)
  BY <1>2, <1>3, WithoutItems
<1>6. \A x \in ItemsOf(c) : x \in Records /\ (x \in Dead <=> x.name = NULL)
  <2>1. \A x \in ItemsOf(c) : x \in Records
    BY <1>2 DEF ItemsOf
  <2> QED BY <2>1 DEF Dead, BlockValues, Records, Expired
<1>7. Len(c) = Length(q)
  BY <1>1, BlocksFacts DEF BlocksOK, IsQueueOf
<1>8. \A x \in ItemsOf(Live(q)) :
        x \in Records /\ x.name # NULL /\ x.name \in Nat /\ InUse(ns, x.name)
  BY <1>2, <1>5, <1>6 DEF BlockOK, Records
<1>9. Len(Live(q)) \in Nat
  BY <1>4
<1> QED BY <1>1, <1>4, <1>5, <1>6, <1>7, <1>8, <1>9

\* The mapping of the registrations.
LEMMA RegistrationsAre ==
  ASSUME NEW ns, NEW q, BlocksOK(ns, q)
  PROVE  LET live == Without(Contents(q), {eb \in BlocksOf(q) : Expired(eb)})
         IN  [i \in DOMAIN live |-> [live[i] EXCEPT !.name = Load(ns, live[i].name)]]
               = Regs(ns, q)
<1>1. PICK c : c = Contents(q)
  OBVIOUS
<1>2. c \in Seq(BlockValues)
  BY <1>1, BlocksFacts DEF BlocksOK, IsQueueOf
<1>3. PICK live : live = Live(q)
  OBVIOUS
<1>4. Without(c, {eb \in BlocksOf(q) : Expired(eb)}) = live
  <2> DEFINE dead == {eb \in BlocksOf(q) : Expired(eb)}
  <2>1. \A x \in ItemsOf(c) : x \in dead <=> x \in Dead
    BY <1>1, <1>2 DEF Dead, BlocksOf, ItemsOf
  <2> HIDE DEF dead
  <2>2. Without(c, dead) = Without(c, Dead)
    BY <1>2, <2>1, WithoutAlike
  <2> QED BY <1>1, <1>3, <2>2 DEF Live, dead
<1>5. \A i \in DOMAIN live : Reg(ns)[live[i]] = [live[i] EXCEPT !.name = Load(ns, live[i].name)]
  <2>1. live \in Seq(Records)
    BY <1>3, LiveBlocks
  <2>2. \A i \in DOMAIN live : live[i] \in Records
    BY <2>1
  <2> QED BY <2>2 DEF Reg
<1>6. [i \in DOMAIN live |-> [live[i] EXCEPT !.name = Load(ns, live[i].name)]]
        = Mapped(live, Reg(ns))
  BY <1>5 DEF Mapped
<1> QED BY <1>1, <1>3, <1>4, <1>6 DEF Regs

LEMMA RegType ==
  ASSUME NEW ns
  PROVE  /\ Reg(ns) \in [Records -> {Reg(ns)[x] : x \in Records}]
         /\ \A x \in Records : Reg(ns)[x] = [x EXCEPT !.name = Load(ns, x.name)]
BY DEF Reg

\* Registrations stay when the slots their blocks point at do.
LEMMA RegsStay ==
  ASSUME NEW ns, NEW ms, NEW s,
         \A x \in ItemsOf(s) : x \in Records /\ Load(ms, x.name) = Load(ns, x.name)
  PROVE  Mapped(s, Reg(ms)) = Mapped(s, Reg(ns))
<1>1. ASSUME NEW x \in ItemsOf(s)
      PROVE  Reg(ms)[x] = Reg(ns)[x]
  <2>1. x \in Records /\ Load(ms, x.name) = Load(ns, x.name)
    OBVIOUS
  <2>2. /\ Reg(ms)[x] = [x EXCEPT !.name = Load(ms, x.name)]
        /\ Reg(ns)[x] = [x EXCEPT !.name = Load(ns, x.name)]
    BY <2>1, RegType
  <2> QED BY <2>1, <2>2
<1> QED BY <1>1, MappedAlike

\* There is room if and only if there are not too many live blocks.
LEMMA RoomForLive ==
  ASSUME NEW q, IsBlocks(q),
         NEW s, s = IF Available(q) <= 0 THEN Squeeze(q) ELSE [q |-> q, fault |-> FALSE],
         ~s.fault
  PROVE  Keeps(s.q, q) /\ (Available(s.q) > 0 <=> Len(Live(q)) < MaxListeners)
<1>1. /\ Len(Contents(q)) = Length(q) /\ Length(q) \in Nat /\ Contents(q) \in Seq(BlockValues)
      /\ Available(q) = MaxListeners - Length(q) /\ MaxListeners \in Nat
  BY BlocksFacts, EmitterAssumption DEF IsQueueOf
<1>2. CASE Available(q) <= 0
  <2>1. s = Squeeze(q)
    BY <1>2
  <2>2. Keeps(s.q, q) /\ Contents(s.q) = Live(q)
    BY <2>1, SqueezeBlocks
  <2>3. IsBlocks(s.q)
    BY <2>2 DEF Keeps, Fewer
  <2>4. Available(s.q) = MaxListeners - Len(Live(q)) /\ Len(Live(q)) \in Nat
    BY <2>2, <2>3, BlocksFacts DEF IsQueueOf
  <2> QED BY <1>1, <2>2, <2>4
<1>3. CASE ~(Available(q) <= 0)
  <2>1. s.q = q
    BY <1>3
  <2>2. Len(Live(q)) <= Length(q) /\ Len(Live(q)) \in Nat
    BY <1>1, WithoutItems, WithoutType DEF Live
  <2> QED BY <1>1, <1>3, <2>1, <2>2, KeepsSelf
<1> QED BY <1>2, <1>3

LEMMA PutLive ==
  ASSUME NEW q, IsBlocks(q), Available(q) > 0, NEW b \in BlockValues, ~Expired(b)
  PROVE  Live(Put(q, b)) = Append(Live(q), b)
<1>1. /\ Length(q) \in Nat /\ Contents(q) \in Seq(BlockValues) /\ (CanPut(q) <=> Length(q) < MaxListeners)
      /\ Available(q) = MaxListeners - Length(q) /\ MaxListeners \in Nat
  BY BlocksFacts, EmitterAssumption DEF IsQueueOf, IsBlocks
<1>2. CanPut(q)
  BY <1>1
<1>3. Contents(Put(q, b)) = Append(Contents(q), b)
  BY <1>2, BlocksPut
<1>4. b \notin Dead
  BY DEF Dead
<1>5. Without(Append(Contents(q), b), Dead) = Append(Without(Contents(q), Dead), b)
  BY <1>1, <1>4, WithoutAppend
<1> QED BY <1>3, <1>5 DEF Live

\* on() and once() register what the registry registers.
RegistersAs(r, ns, q, n, l, once) ==
  LET accepted == n \notin TooLong /\ (n \in Known(ns) \/ Cardinality(Known(ns)) < MaxNames)
      room == Len(Regs(ns, q)) < MaxListeners
  IN  /\ ~accepted => /\ r.ret = FALSE /\ Known(r.names) = Known(ns)
                      /\ Regs(r.names, r.q) = Regs(ns, q)
      /\ accepted => /\ r.ret = room /\ Known(r.names) = Known(ns) \cup {n}
                     /\ Regs(r.names, r.q) =
                          IF room THEN Append(Regs(ns, q), Block(n, l, once)) ELSE Regs(ns, q)

LEMMA RegisteredRegs ==
  ASSUME NEW ns, NEW q, EmitterOK(ns, q),
         NEW n \in EventNames, n # Empty, NEW l \in Listeners, NEW once \in BOOLEAN,
         NEW r, r = Registered(ns, q, n, l, once), ~r.fault
  PROVE  RegistersAs(r, ns, q, n, l, once)
<1> DEFINE ms == RegisterName(ns, n)
           p == FindName(ms, n)
           s == IF Available(q) <= 0 THEN Squeeze(q) ELSE [q |-> q, fault |-> FALSE]
           has == Available(s.q) > 0
           b == Block(p, l, once)
           accepted == n \notin TooLong /\ (n \in Known(ns) \/ Cardinality(Known(ns)) < MaxNames)
           room == Len(Regs(ns, q)) < MaxListeners
<1>1. NamesOK(ns) /\ BlocksOK(ns, q) /\ IsBlocks(q)
  BY DEF EmitterOK, BlocksOK
<1>2. n \notin TooLong =>
        /\ Known(ms) = IF n \in Known(ns) \/ Cardinality(Known(ns)) < MaxNames
                       THEN Known(ns) \cup {n} ELSE Known(ns)
        /\ p # NULL <=> n \in Known(ns) \/ Cardinality(Known(ns)) < MaxNames
        /\ \A o : InUse(ns, o) => Load(ms, o) = Load(ns, o)
  BY <1>1, RegisterKnown
<1>3. accepted <=> ~(n \in TooLong \/ p = NULL)
  BY <1>2
<1>4. CASE ~accepted
  <2>1. r = Outcome(ns, q, FALSE, FALSE)
    BY <1>3, <1>4 DEF Registered
  <2>2. r.names = ns /\ r.q = q /\ r.ret = FALSE
    BY <2>1 DEF Outcome
  <2> QED BY <1>4, <2>2 DEF RegistersAs
<1>5. CASE accepted
  <2>1. ~s.fault
    <3>1. CASE s.fault
      <4>1. r = Outcome(ms, s.q, FALSE, TRUE)
        BY <1>3, <1>5, <3>1 DEF Registered
      <4> QED BY <4>1 DEF Outcome
    <3> QED BY <3>1
  <2>2. r = Outcome(ms, IF has THEN Put(s.q, b) ELSE s.q, has, FALSE)
    BY <1>3, <1>5, <2>1 DEF Registered
  <2>3. Keeps(s.q, q) /\ (has <=> Len(Live(q)) < MaxListeners)
    BY <1>1, <2>1, RoomForLive
  <2>4. /\ \A o : InUse(ns, o) => Load(ms, o) = Load(ns, o)
        /\ Known(ms) = Known(ns) \cup {n}
    BY <1>2, <1>5
  <2>5. NamesOK(ms) /\ InUse(ms, p) /\ p \in Nat /\ p = FindName(ms, n) /\ p # NULL
    BY <1>1, <1>3, <1>5, RegisterNameOK
  <2>6. Load(ms, p) = n
    BY <2>5, NameIs
  <2>7. b \in Records /\ b.name = p /\ b.listener = l /\ b.once = once
    BY <2>5 DEF Block, Records
  <2> HIDE DEF ms, p, s, b
  <2>8. /\ Live(q) \in Seq(Records) /\ Len(Live(q)) \in Nat
        /\ \A x \in ItemsOf(Live(q)) : x \in Records /\ InUse(ns, x.name)
    BY <1>1, LiveBlocks
  <2>9. Mapped(Live(q), Reg(ms)) = Regs(ns, q)
    BY <2>4, <2>8, RegsStay DEF Regs
  <2>10. has <=> room
    BY <2>3, <2>8, MappedLen DEF Regs
  <2>11. Live(s.q) = Live(q) /\ IsBlocks(s.q)
    BY <2>3 DEF Keeps, Fewer
  <2>12. CASE has
    <3>1. b \in BlockValues /\ ~Expired(b)
      BY <2>5, <2>7 DEF BlockValues, Records, Expired
    <3>2. Live(Put(s.q, b)) = Append(Live(q), b)
      BY <2>11, <2>12, <3>1, PutLive
    <3>3. Mapped(Append(Live(q), b), Reg(ms)) = Append(Regs(ns, q), Reg(ms)[b])
      <4>1. PICK R : Reg(ms) \in [Records -> R]
        BY RegType
      <4>2. Mapped(Append(Live(q), b), Reg(ms)) = Append(Mapped(Live(q), Reg(ms)), Reg(ms)[b])
        BY <2>7, <2>8, <4>1, MappedAppend
      <4> QED BY <2>9, <4>2
    <3>4. Reg(ms)[b] = Block(n, l, once)
      <4>1. Reg(ms)[b] = [b EXCEPT !.name = n]
        BY <2>6, <2>7, RegType
      <4> QED BY <2>7, <4>1 DEF Block, Records
    <3>5. Regs(ms, Put(s.q, b)) = Append(Regs(ns, q), Block(n, l, once))
      BY <3>2, <3>3, <3>4 DEF Regs
    <3>6. r.names = ms /\ r.q = Put(s.q, b) /\ r.ret = has
      BY <2>2, <2>12 DEF Outcome
    <3> QED BY <1>5, <2>4, <2>10, <2>12, <3>5, <3>6 DEF RegistersAs
  <2>13. CASE ~has
    <3>1. Regs(ms, s.q) = Regs(ns, q)
      BY <2>9, <2>11 DEF Regs
    <3>2. r.names = ms /\ r.q = s.q /\ r.ret = has
      BY <2>2, <2>13 DEF Outcome
    <3> QED BY <1>5, <2>4, <2>10, <2>13, <3>1, <3>2 DEF RegistersAs
  <2> QED BY <2>12, <2>13
<1> QED BY <1>4, <1>5

\* Whether a live block has the name found for n, or its registration has n.
LEMMA NamedAs ==
  ASSUME NEW ns, NamesOK(ns), NEW q, BlocksOK(ns, q), NEW n \in EventNames,
         NEW x \in ItemsOf(Live(q))
  PROVE  /\ x.name = FindName(ns, n) <=> Reg(ns)[x].name = n
         /\ Reg(ns)[x].listener = x.listener /\ Reg(ns)[x].once = x.once
         /\ Reg(ns)[x] \in ItemsOf(Regs(ns, q))
<1>1. x \in Records /\ InUse(ns, x.name)
  BY LiveBlocks
<1>3. x.name = FindName(ns, n) <=> Load(ns, x.name) = n
  BY <1>1, NameIs
<1>4. Reg(ns)[x] = [x EXCEPT !.name = Load(ns, x.name)]
  BY <1>1, RegType
<1>5. /\ Reg(ns)[x].name = Load(ns, x.name)
      /\ Reg(ns)[x].listener = x.listener /\ Reg(ns)[x].once = x.once
  BY <1>1, <1>4 DEF Records
<1>6. Reg(ns)[x] \in ItemsOf(Regs(ns, q))
  BY MappedItems DEF Regs
<1> QED BY <1>3, <1>5, <1>6

\* The registrations without some.
LEMMA RegsWithout ==
  ASSUME NEW ns, NEW q, BlocksOK(ns, q),
         NEW S, NEW W, \A x \in ItemsOf(Live(q)) : x \in S <=> Reg(ns)[x] \in W
  PROVE  Without(Regs(ns, q), W) = Mapped(Without(Live(q), S), Reg(ns))
<1>1. Live(q) \in Seq(Records)
  BY LiveBlocks
<1>2. PICK R : Reg(ns) \in [Records -> R]
  BY RegType
<1>3. Commutes(Live(q), Reg(ns), S, W)
  BY <1>1, <1>2, MappedWithout
<1> QED BY <1>3 DEF Commutes, Regs

\* off() drops what the registry drops.
Others(ns, q, n, l) ==
  Without(Regs(ns, q), {x \in ItemsOf(Regs(ns, q)) : x.name = n /\ x.listener = l})

TurnsOffAs(r, ns, q, n, l) ==
  LET others == Others(ns, q, n, l)
      left == \E i \in 1..Len(others) : others[i].name = n
  IN  /\ r.ret = (FindName(ns, n) # NULL)
      /\ Regs(r.names, r.q) = IF FindName(ns, n) # NULL THEN others ELSE Regs(ns, q)
      /\ Known(r.names) = IF left THEN Known(ns) ELSE Known(ns) \ {n}

LeavesOthers(s, ns, q, n, l) ==
  /\ BlocksOK(ns, s) /\ Regs(ns, s) = Others(ns, q, n, l)
  /\ FindName(ns, n) # NULL =>
       ((\E eb \in BlocksOf(s) : eb.name = FindName(ns, n)) <=>
        (\E i \in 1..Len(Others(ns, q, n, l)) : Others(ns, q, n, l)[i].name = n))

LEMMA RotateOthers ==
  ASSUME NEW ns, NEW q, EmitterOK(ns, q), NEW n \in EventNames, NEW l,
         NEW s, s = Rotate(q, {eb \in BlocksOf(q) : eb.name = FindName(ns, n) /\ eb.listener = l})
  PROVE  LeavesOthers(s, ns, q, n, l)
<1>1. NamesOK(ns) /\ BlocksOK(ns, q) /\ IsBlocks(q)
  BY DEF EmitterOK, BlocksOK
<1>2. PICK p : p = FindName(ns, n)
  OBVIOUS
<1>3. PICK D : D = {eb \in BlocksOf(q) : eb.name = p /\ eb.listener = l}
  OBVIOUS
<1>4. s = Rotate(q, D)
  BY <1>2, <1>3
<1>5. IsBlocks(s) /\ Contents(s) = Without(Contents(q), D)
  BY <1>1, <1>4, RotateBlocks
<1>6. BlocksOK(ns, s)
  BY <1>1, <1>4, RotateFewer, FewerOK
<1>7. Contents(q) \in Seq(BlockValues)
  BY <1>1, BlocksFacts DEF IsQueueOf
<1>8. Live(s) = Without(Live(q), D)
  <2>1. /\ Without(Without(Contents(q), D), Dead) = Without(Contents(q), D \cup Dead)
        /\ Without(Without(Contents(q), Dead), D) = Without(Contents(q), Dead \cup D)
    BY <1>7, WithoutTwice
  <2>2. D \cup Dead = Dead \cup D
    OBVIOUS
  <2> QED BY <1>5, <2>1, <2>2 DEF Live
<1>9. PICK W : W = {x \in ItemsOf(Regs(ns, q)) : x.name = n /\ x.listener = l}
  OBVIOUS
<1>10. ASSUME NEW x \in ItemsOf(Live(q))
       PROVE  x \in D <=> Reg(ns)[x] \in W
  <2>1. x \in BlocksOf(q)
    BY <1>1, LiveBlocks DEF BlocksOf
  <2>2. /\ x.name = p <=> Reg(ns)[x].name = n
        /\ Reg(ns)[x].listener = x.listener
        /\ Reg(ns)[x] \in ItemsOf(Regs(ns, q))
    BY <1>1, <1>2, NamedAs
  <2> QED BY <1>3, <1>9, <2>1, <2>2
<1>11. Without(Regs(ns, q), W) = Mapped(Without(Live(q), D), Reg(ns))
  BY <1>1, <1>10, RegsWithout
<1>12. PICK others : others = Others(ns, q, n, l)
  OBVIOUS
<1>13. Regs(ns, s) = others
  BY <1>8, <1>9, <1>11, <1>12 DEF Regs, Others
<1>14. ASSUME p # NULL
       PROVE  (\E eb \in BlocksOf(s) : eb.name = p) <=> (\E i \in 1..Len(others) : others[i].name = n)
  <2>1. ItemsOf(others) = {Reg(ns)[x] : x \in ItemsOf(Live(s))}
    BY <1>13, MappedItems DEF Regs
  <2>2. \A x \in ItemsOf(Live(s)) : x.name = p <=> Reg(ns)[x].name = n
    BY <1>1, <1>2, <1>6, NamedAs
  <2>3. \A x : x \in ItemsOf(Live(s)) <=> x \in BlocksOf(s) /\ x.name # NULL
    BY <1>6, LiveBlocks DEF BlocksOf
  <2>4. (\E eb \in BlocksOf(s) : eb.name = p) <=> (\E y \in ItemsOf(others) : y.name = n)
    BY <1>14, <2>1, <2>2, <2>3
  <2>5. DOMAIN others = 1..Len(others)
    <3>1. Live(s) \in Seq(Records)
      BY <1>6, LiveBlocks
    <3>2. PICK R : Reg(ns) \in [Records -> R]
      BY RegType
    <3>3. others \in Seq(R)
      BY <1>13, <3>1, <3>2, MappedType DEF Regs
    <3> QED BY <3>3
  <2>6. (\E y \in ItemsOf(others) : y.name = n) <=> (\E i \in 1..Len(others) : others[i].name = n)
    BY <2>5 DEF ItemsOf
  <2> QED BY <2>4, <2>6
<1> QED BY <1>2, <1>6, <1>12, <1>13, <1>14 DEF LeavesOthers

LEMMA TurnedOffRegs ==
  ASSUME NEW ns, NEW q, EmitterOK(ns, q), NEW n \in EventNames, NEW l,
         NEW r, r = TurnedOff(ns, q, n, l)
  PROVE  TurnsOffAs(r, ns, q, n, l)
<1> DEFINE p == FindName(ns, n)
           s == Rotate(q, {eb \in BlocksOf(q) : eb.name = p /\ eb.listener = l})
           left == \E eb \in BlocksOf(s) : eb.name = p
           ms == IF left THEN ns ELSE UnregisterName(ns, n)
           others == Others(ns, q, n, l)
<1>1. NamesOK(ns) /\ IsNames(ns)
  BY DEF EmitterOK, NamesOK
<1>3. CASE p = NULL
  <2>1. r = Outcome(ns, q, FALSE, FALSE)
    BY <1>3 DEF TurnedOff
  <2>2. r.names = ns /\ r.q = q /\ r.ret = FALSE
    BY <2>1 DEF Outcome
  <2>3. n \notin Known(ns)
    BY <1>1, <1>3, FindNameFacts, KnownAre
  <2>4. Known(ns) \ {n} = Known(ns)
    BY <2>3
  <2>5. r.ret = (FindName(ns, n) # NULL)
    <3>1. (FindName(ns, n) # NULL) = FALSE
      BY <1>3
    <3> QED BY <2>2, <3>1
  <2> QED BY <1>3, <2>2, <2>4, <2>5 DEF TurnsOffAs
<1>4. CASE p # NULL
  <2>1. r = Outcome(ms, s, TRUE, FALSE)
    BY <1>4 DEF TurnedOff
  <2>2. /\ BlocksOK(ns, s) /\ Regs(ns, s) = others
        /\ left <=> \E i \in 1..Len(others) : others[i].name = n
    <3>1. PICK t : t = s
      OBVIOUS
    <3>2. LeavesOthers(t, ns, q, n, l)
      BY <3>1, RotateOthers
    <3> QED BY <1>4, <3>1, <3>2 DEF LeavesOthers
  <2>3. (FindName(ns, n) # NULL) = TRUE
    BY <1>4
  <2>4. r.names = ms /\ r.q = s /\ r.ret = TRUE
    BY <2>1 DEF Outcome
  <2>5. Known(ms) = IF left THEN Known(ns) ELSE Known(ns) \ {n}
    BY <1>1, UnregisterKnown
  <2>6. Regs(ms, s) = Regs(ns, s)
    <3>1. CASE left
      BY <3>1
    <3>2. CASE ~left
      <4>1. \A o : InUse(ns, o) /\ o # p => Load(ms, o) = Load(ns, o)
        BY <1>1, <3>2, UnregisterKnown
      <4>2. \A x \in ItemsOf(Live(s)) : x \in Records /\ InUse(ns, x.name) /\ x \in BlocksOf(s)
        BY <2>2, LiveBlocks DEF BlocksOf
      <4>3. \A x \in ItemsOf(Live(s)) : x.name # p
        BY <3>2, <4>2
      <4> HIDE DEF ms, p, s
      <4>4. Mapped(Live(s), Reg(ms)) = Mapped(Live(s), Reg(ns))
        BY <4>1, <4>2, <4>3, RegsStay
      <4> QED BY <4>4 DEF Regs
    <3> QED BY <3>1, <3>2
  <2> HIDE DEF p, s, ms, left, others
  <2>7. /\ r.ret = (FindName(ns, n) # NULL) /\ Regs(r.names, r.q) = others
        /\ Known(r.names) = IF left THEN Known(ns) ELSE Known(ns) \ {n}
    BY <2>2, <2>3, <2>4, <2>5, <2>6
  <2> QED BY <2>2, <2>3, <2>7 DEF TurnsOffAs, others
<1> QED BY <1>3, <1>4

\* No registration has the empty name.
LEMMA OthersOfEmpty ==
  ASSUME NEW ns, NEW q, EmitterOK(ns, q), NEW l
  PROVE  Others(ns, q, Empty, l) = Regs(ns, q) /\ Empty \notin Known(ns)
<1>1. NamesOK(ns) /\ BlocksOK(ns, q) /\ Live(q) \in Seq(Records)
  BY LiveBlocks DEF EmitterOK
<1>2. PICK W : W = {x \in ItemsOf(Regs(ns, q)) : x.name = Empty /\ x.listener = l}
  OBVIOUS
<1>3. ASSUME NEW x \in ItemsOf(Live(q))
      PROVE  x \in {} <=> Reg(ns)[x] \in W
  <2>1. x \in Records /\ Load(ns, x.name) # Empty
    BY <1>1, LiveBlocks, InUseNamed
  <2>2. Reg(ns)[x] = [x EXCEPT !.name = Load(ns, x.name)]
    BY <2>1, RegType
  <2>3. Reg(ns)[x].name # Empty
    BY <2>1, <2>2 DEF Records
  <2> QED BY <1>2, <2>3
<1>4. Without(Regs(ns, q), W) = Mapped(Without(Live(q), {}), Reg(ns))
  BY <1>1, <1>3, RegsWithout
<1>5. Without(Live(q), {}) = Live(q)
  BY <1>1, WithoutNone
<1> QED BY <1>2, <1>4, <1>5 DEF Others, Regs, Known

LEMMA MappedSelf ==
  ASSUME NEW T, NEW s \in Seq(T), NEW g, \A x \in ItemsOf(s) : g[x] = x
  PROVE  Mapped(s, g) = s
BY DEF Mapped, ItemsOf

LEMMA NoItems ==
  ASSUME NEW T, NEW s \in Seq(T), ItemsOf(s) = {}
  PROVE  s = <<>>
<1>1. \A i \in 1..Len(s) : FALSE
  BY DEF ItemsOf
<1>2. Len(s) = 0
  BY <1>1
<1> QED BY <1>2

\* emit() uses up what the registry uses up,
Spent(ns, q, n) ==
  {Nth(q, i) : i \in {j \in DOMAIN Contents(q) :
                        Contents(q)[j].name = FindName(ns, n) /\ Contents(q)[j].once}}

Emitted(ns, q, n) ==
  IF FindName(ns, n) = NULL \/ q = NULL THEN q
  ELSE [q EXCEPT !.buf = [o \in DOMAIN q.buf |->
          IF o \in Spent(ns, q, n) THEN [q.buf[o] EXCEPT !.name = NULL] ELSE q.buf[o]]]

StillThere(ns, q, n) ==
  Without(Regs(ns, q), {x \in ItemsOf(Regs(ns, q)) : x.name = n /\ x.once})

LEMMA NothingSpent ==
  ASSUME NEW ns, NEW q, EmitterOK(ns, q), NEW n \in EventNames,
         FindName(ns, n) = NULL \/ q = NULL
  PROVE  StillThere(ns, q, n) = Regs(ns, q)
<1>1. NamesOK(ns) /\ BlocksOK(ns, q)
  BY DEF EmitterOK
<1>2. PICK W : W = {x \in ItemsOf(Regs(ns, q)) : x.name = n /\ x.once}
  OBVIOUS
<1>3. /\ Live(q) \in Seq(Records)
      /\ \A x \in ItemsOf(Live(q)) : x.name # NULL /\ x \in ItemsOf(Contents(q))
  BY <1>1, LiveBlocks
<1>4. ASSUME q = NULL
      PROVE  ItemsOf(Contents(q)) = {}
  <2>1. IsQueueOf(q, BlockValues)
    BY <1>1, BlocksFacts DEF BlocksOK
  <2>2. DOMAIN Contents(q) = 1..Length(q)
    BY <2>1 DEF IsQueueOf
  <2>3. \A i \in 1..Length(q) : FALSE
    BY <1>4, <2>1 DEF IsQueueOf
  <2> QED BY <2>2, <2>3 DEF ItemsOf
<1>5. ASSUME NEW x \in ItemsOf(Live(q))
      PROVE  x \in {} <=> Reg(ns)[x] \in W
  <2>1. x.name = FindName(ns, n) <=> Reg(ns)[x].name = n
    BY <1>1, NamedAs
  <2> QED BY <1>2, <1>3, <1>4, <2>1
<1>6. Without(Regs(ns, q), W) = Mapped(Without(Live(q), {}), Reg(ns))
  BY <1>1, <1>5, RegsWithout
<1>7. Without(Live(q), {}) = Live(q)
  BY <1>3, WithoutNone
<1> QED BY <1>2, <1>6, <1>7 DEF StillThere, Regs

\* What a block is after the emit.
After(p) ==
  [eb \in Records |-> IF eb.name = p /\ eb.once THEN [eb EXCEPT !.name = NULL] ELSE eb]

LEMMA SpentBlocks ==
  ASSUME NEW ns, NEW q, BlocksOK(ns, q), q # NULL, NEW n \in EventNames,
         NEW r, r = Emitted(ns, q, n), FindName(ns, n) # NULL
  PROVE  BlocksOK(ns, r) /\ Contents(r) = Mapped(Contents(q), After(FindName(ns, n)))
<1>1. PICK p : p = FindName(ns, n)
  OBVIOUS
<1>2. PICK spent : spent = Spent(ns, q, n)
  OBVIOUS
<1>3. PICK c : c = Contents(q)
  OBVIOUS
<1>4. /\ c \in Seq(Records) /\ Len(c) = Length(q)
      /\ \A i, j \in 1..Length(q) : Nth(q, i) = Nth(q, j) => i = j
  BY <1>3, BlockRecords, BlocksFacts DEF BlocksOK, IsQueueOf
<1>5. DOMAIN c = 1..Length(q)
  BY <1>4
<1>6. spent = {Nth(q, i) : i \in {j \in DOMAIN c : c[j].name = p /\ c[j].once}}
  BY <1>1, <1>2, <1>3 DEF Spent
<1>7. \A o \in spent : \E i \in 1..Length(q) : o = Nth(q, i)
  BY <1>5, <1>6
<1>8. r = [q EXCEPT !.buf = [o \in DOMAIN q.buf |->
             IF o \in spent THEN [q.buf[o] EXCEPT !.name = NULL] ELSE q.buf[o]]]
  BY <1>2 DEF Emitted
<1>9. Expires(r, q) /\ OnlySpent(r, q, spent)
  BY <1>7, <1>8, ExpireSpent
<1>10. BlocksOK(ns, r)
  BY <1>9, ExpiresOK
<1>11. PICK d : d = Contents(r)
  OBVIOUS
<1>12. d \in Seq(Records) /\ Len(d) = Length(q)
  BY <1>9, <1>10, <1>11, BlockRecords, BlocksFacts DEF BlocksOK, IsQueueOf, Expires
<1>13. ASSUME NEW i \in 1..Length(q)
       PROVE  d[i] = After(p)[c[i]]
  <2>1. Nth(q, i) \in spent <=> c[i].name = p /\ c[i].once
    BY <1>4, <1>5, <1>6
  <2>2. d[i] = IF Nth(q, i) \in spent THEN [c[i] EXCEPT !.name = NULL] ELSE c[i]
    BY <1>3, <1>9, <1>11 DEF OnlySpent
  <2>3. c[i] \in Records
    BY <1>4
  <2> QED BY <2>1, <2>2, <2>3 DEF After
<1>14. d = Mapped(c, After(p))
  <2>1. DOMAIN d = DOMAIN c /\ d = [i \in DOMAIN d |-> d[i]]
    BY <1>5, <1>12
  <2> QED BY <1>5, <1>13, <2>1 DEF Mapped
<1> QED BY <1>1, <1>3, <1>10, <1>11, <1>14

LEMMA SpentLive ==
  ASSUME NEW ns, NEW q, BlocksOK(ns, q), NEW p, p # NULL,
         NEW r, BlocksOK(ns, r), Contents(r) = Mapped(Contents(q), After(p)),
         NEW S, S = {x \in Records : x.name = p /\ x.once}
  PROVE  Live(r) = Without(Live(q), S)
<1>1. PICK c : c = Contents(q)
  OBVIOUS
<1>2. c \in Seq(Records)
  BY <1>1, BlockRecords
<1>3. PICK E : E = After(p)
  OBVIOUS
<1>4. NULL \in Nat \cup {NULL} /\ \A x \in Records : [x EXCEPT !.name = NULL] \in Records
  BY DEF Records
<1>5. E \in [Records -> Records]
  BY <1>3, <1>4 DEF After
<1>6. ASSUME NEW x \in Records
      PROVE  /\ x \in Dead \cup S <=> E[x] \in Dead
             /\ x \notin S => E[x] = x
  <2>1. \A y \in Records : y \in Dead <=> y.name = NULL
    BY DEF Dead, BlockValues, Records, Expired
  <2>2. E[x] = IF x \in S THEN [x EXCEPT !.name = NULL] ELSE x
    BY <1>3 DEF After
  <2>3. [x EXCEPT !.name = NULL] \in Dead
    <3>1. [x EXCEPT !.name = NULL].name = NULL
      BY DEF Records
    <3> QED BY <1>4, <2>1, <3>1
  <2> QED BY <2>1, <2>2, <2>3
<1>7. Commutes(c, E, Dead \cup S, Dead)
  <2>1. \A x \in ItemsOf(c) : x \in Dead \cup S <=> E[x] \in Dead
    BY <1>2, <1>6 DEF ItemsOf
  <2>2. PICK D : D = Dead \cup S
    OBVIOUS
  <2>3. Commutes(c, E, D, Dead)
    BY <1>2, <1>5, <2>1, <2>2, MappedWithout
  <2> QED BY <2>2, <2>3
<1>8. Live(r) = Mapped(Without(c, Dead \cup S), E)
  BY <1>1, <1>3, <1>7 DEF Commutes, Live
<1>9. Without(c, Dead \cup S) = Without(Live(q), S)
  BY <1>1, <1>2, WithoutTwice DEF Live
<1>10. PICK u : u = Without(c, Dead \cup S)
  OBVIOUS
<1>11. u \in Seq(Records) /\ ItemsOf(u) = ItemsOf(c) \ (Dead \cup S)
  BY <1>2, <1>10, WithoutType, WithoutItems
<1>12. \A x \in ItemsOf(u) : E[x] = x
  <2>1. \A x \in ItemsOf(u) : x \in Records
    BY <1>11 DEF ItemsOf
  <2> QED BY <1>6, <1>11, <2>1
<1>13. Mapped(u, E) = u
  BY <1>11, <1>12, MappedSelf
<1> QED BY <1>8, <1>9, <1>10, <1>13

LEMMA EmittedRegs ==
  ASSUME NEW ns, NEW q, EmitterOK(ns, q), NEW n \in EventNames,
         NEW r, r = Emitted(ns, q, n)
  PROVE  Regs(ns, r) = StillThere(ns, q, n)
<1>1. NamesOK(ns) /\ BlocksOK(ns, q)
  BY DEF EmitterOK
<1>2. PICK p : p = FindName(ns, n)
  OBVIOUS
<1>3. CASE p = NULL \/ q = NULL
  <2>1. r = q
    BY <1>2, <1>3 DEF Emitted
  <2> QED BY <1>2, <1>3, <2>1, NothingSpent
<1>4. CASE ~(p = NULL \/ q = NULL)
  <2>1. BlocksOK(ns, r) /\ Contents(r) = Mapped(Contents(q), After(p))
    BY <1>1, <1>2, <1>4, SpentBlocks
  <2>2. PICK S : S = {x \in Records : x.name = p /\ x.once}
    OBVIOUS
  <2>3. Live(r) = Without(Live(q), S)
    BY <1>1, <1>4, <2>1, <2>2, SpentLive
  <2>4. PICK W : W = {x \in ItemsOf(Regs(ns, q)) : x.name = n /\ x.once}
    OBVIOUS
  <2>5. ASSUME NEW x \in ItemsOf(Live(q))
        PROVE  x \in S <=> Reg(ns)[x] \in W
    <3>1. x \in Records
      BY <1>1, LiveBlocks
    <3>2. /\ x.name = p <=> Reg(ns)[x].name = n
          /\ Reg(ns)[x].once = x.once
          /\ Reg(ns)[x] \in ItemsOf(Regs(ns, q))
      BY <1>1, <1>2, NamedAs
    <3> QED BY <2>2, <2>4, <3>1, <3>2
  <2>6. Without(Regs(ns, q), W) = Mapped(Without(Live(q), S), Reg(ns))
    BY <1>1, <2>5, RegsWithout
  <2> QED BY <2>3, <2>4, <2>6 DEF StillThere, Regs
<1> QED BY <1>3, <1>4

\* and calls what the registry calls.
ListenersOf(s) == [i \in 1..Len(s) |-> s[i].listener]

ServedBlocks(ns, q, n) ==
  Without(Contents(q), {eb \in BlocksOf(q) : eb.name # FindName(ns, n) \/ eb.listener = NULL})

ServedRegs(ns, q, n) ==
  Without(Regs(ns, q), {x \in ItemsOf(Regs(ns, q)) : x.name # n \/ x.listener = NULL})

LEMMA ServedAlike ==
  ASSUME NEW ns, NEW q, EmitterOK(ns, q), NEW n \in EventNames
  PROVE  ListenersOf(ServedRegs(ns, q, n)) =
           IF FindName(ns, n) = NULL THEN <<>> ELSE ListenersOf(ServedBlocks(ns, q, n))
<1>1. NamesOK(ns) /\ BlocksOK(ns, q)
  BY DEF EmitterOK
<1>2. PICK p : p = FindName(ns, n)
  OBVIOUS
<1>3. PICK W : W = {x \in ItemsOf(Regs(ns, q)) : x.name # n \/ x.listener = NULL}
  OBVIOUS
<1>4. /\ Live(q) \in Seq(Records)
      /\ \A x : x \in ItemsOf(Live(q)) <=> x \in ItemsOf(Contents(q)) /\ x.name # NULL
      /\ \A x \in ItemsOf(Live(q)) : x \in Records
  BY <1>1, LiveBlocks
<1>5. PICK S : S = {eb \in BlocksOf(q) : eb.name # p \/ eb.listener = NULL}
  OBVIOUS
<1>6. ASSUME NEW x \in ItemsOf(Live(q))
      PROVE  x \in S <=> Reg(ns)[x] \in W
  <2>1. /\ x.name = p <=> Reg(ns)[x].name = n
        /\ Reg(ns)[x].listener = x.listener
        /\ Reg(ns)[x] \in ItemsOf(Regs(ns, q))
    BY <1>1, <1>2, NamedAs
  <2>2. x \in BlocksOf(q)
    BY <1>4 DEF BlocksOf
  <2> QED BY <1>3, <1>5, <2>1, <2>2
<1>7. PICK u : u = Without(Live(q), S)
  OBVIOUS
<1>8. ServedRegs(ns, q, n) = Mapped(u, Reg(ns))
  BY <1>1, <1>3, <1>6, <1>7, RegsWithout DEF ServedRegs
<1>9. u \in Seq(Records) /\ ItemsOf(u) = ItemsOf(Live(q)) \ S
  BY <1>4, <1>7, WithoutType, WithoutItems
<1>10. ListenersOf(Mapped(u, Reg(ns))) = ListenersOf(u)
  <2>1. Len(Mapped(u, Reg(ns))) = Len(u)
    BY <1>9, MappedLen
  <2>2. \A i \in 1..Len(u) : Mapped(u, Reg(ns))[i].listener = u[i].listener
    <3>1. \A i \in 1..Len(u) : u[i] \in ItemsOf(Live(q))
      <4>1. \A i \in 1..Len(u) : u[i] \in ItemsOf(u)
        BY <1>9 DEF ItemsOf
      <4> QED BY <1>9, <4>1
    <3>2. \A i \in 1..Len(u) : Mapped(u, Reg(ns))[i] = Reg(ns)[u[i]]
      BY <1>9 DEF Mapped
    <3>3. \A x \in ItemsOf(Live(q)) : Reg(ns)[x].listener = x.listener
      BY <1>1, NamedAs
    <3> QED BY <3>1, <3>2, <3>3
  <2> QED BY <2>1, <2>2 DEF ListenersOf
<1>11. CASE p = NULL
  <2>1. ItemsOf(u) = {}
    BY <1>4, <1>5, <1>9, <1>11 DEF BlocksOf
  <2>2. u = <<>>
    BY <1>9, <2>1, NoItems
  <2>3. ListenersOf(u) = <<>>
    BY <2>2 DEF ListenersOf
  <2> QED BY <1>2, <1>8, <1>10, <1>11, <2>3
<1>12. CASE p # NULL
  <2>1. PICK c : c = Contents(q)
    OBVIOUS
  <2>2. c \in Seq(Records)
    BY <1>1, <2>1, BlockRecords
  <2>3. \A x \in ItemsOf(c) : x \in Records /\ (x \in Dead <=> x.name = NULL)
    <3>1. \A x \in ItemsOf(c) : x \in Records
      BY <2>2 DEF ItemsOf
    <3> QED BY <3>1 DEF Dead, BlockValues, Records, Expired
  <2>4. \A x \in ItemsOf(c) : x \in Dead \cup S <=> x \in S
    BY <1>5, <1>12, <2>1, <2>3 DEF BlocksOf
  <2>5. Without(c, Dead \cup S) = Without(c, S)
    <3>1. PICK D : D = Dead \cup S
      OBVIOUS
    <3>2. Without(c, D) = Without(c, S)
      BY <2>2, <2>4, <3>1, WithoutAlike
    <3> QED BY <3>1, <3>2
  <2>6. u = Without(c, Dead \cup S)
    BY <1>7, <2>1, <2>2, WithoutTwice DEF Live
  <2>7. u = ServedBlocks(ns, q, n)
    BY <1>2, <1>5, <2>1, <2>5, <2>6 DEF ServedBlocks
  <2> QED BY <1>2, <1>8, <1>10, <1>12, <2>7
<1> QED BY <1>11, <1>12

-----------------------------------------------------------------------------
(* The refinement.                                                         *)

LEMMA RegistryIs ==
  /\ \A s, S : Registry!Without(s, S) = Without(s, S)
  /\ \A s : Registry!ItemsOf(s) = ItemsOf(s)
  /\ \A n, l, o : Registry!Registration(n, l, o) = Block(n, l, o)
  /\ \A o : Registry!OnOrOnce(o) = OnOrOnce(o)
  /\ \A S : Registry!Cardinality(S) = Cardinality(S)
  /\ \A o, n, l, d : Registry!Invocation(o, n, l, d) = Invocation(o, n, l, d)
BY DEF Registry!Cardinality, Cardinality, Registry!Without, Without, Registry!ItemsOf, ItemsOf, Registry!Registration, Block,
       Registry!OnOrOnce, OnOrOnce, Registry!Invocation, Invocation

LEMMA MappingIs ==
  EmitterInv => /\ Registrations = Regs(m_names, m_listeners)
                /\ KnownNames = Known(m_names)
<1> SUFFICES ASSUME EmitterInv
             PROVE  /\ Registrations = Regs(m_names, m_listeners)
                    /\ KnownNames = Known(m_names)
  OBVIOUS
<1>1. BlocksOK(m_names, m_listeners)
  BY DEF EmitterInv, EmitterOK
<1>2. Registrations = Regs(m_names, m_listeners)
  BY <1>1, RegistrationsAre DEF Registrations, Blocks
<1>3. KnownNames = Known(m_names)
  BY DEF KnownNames, Known, Names
<1> QED BY <1>2, <1>3

LEMMA MappingNext ==
  EmitterInv' => /\ Registrations' = Regs(m_names', m_listeners')
                 /\ KnownNames' = Known(m_names')
<1> SUFFICES ASSUME EmitterInv'
             PROVE  /\ Registrations' = Regs(m_names', m_listeners')
                    /\ KnownNames' = Known(m_names')
  OBVIOUS
<1>1. BlocksOK(m_names', m_listeners')
  BY DEF EmitterInv, EmitterOK
<1>2. Registrations' = Regs(m_names', m_listeners')
  BY <1>1, RegistrationsAre DEF Registrations, Blocks
<1>3. KnownNames' = Known(m_names')
  BY DEF KnownNames, Known, Names
<1> QED BY <1>2, <1>3

LEMMA RegistryInit == Init => Registry!Init
<1> SUFFICES ASSUME Init PROVE Registry!Init
  OBVIOUS
<1>1. EmitterInv
  BY EmitterInvInit
<1>2. Length(m_names) = 0 /\ Length(m_listeners) = 0
  BY NamesInit, BlocksInit DEF Init
<1>3. Contents(m_names) = <<>> /\ Contents(m_listeners) = <<>>
  BY <1>2 DEF Contents
<1>4. ItemsOf(<<>>) = {}
  BY DEF ItemsOf
<1>5. Known(m_names) = {}
  BY <1>3, <1>4 DEF Known
<1>6. Regs(m_names, m_listeners) = <<>>
  BY <1>3, WithoutEmpty, MappedEmpty DEF Regs, Live
<1>7. Registrations = <<>> /\ KnownNames = {}
  BY <1>1, <1>5, <1>6, MappingIs
<1> QED BY <1>7, RegistryIs DEF Init, Registry!Init

LEMMA RegistryOn ==
  ASSUME EmitterInv, EmitterInv', NEW u \in Uses, On(u[1], u[2], u[3]), u[1] # Empty
  PROVE  Registry!On(u[1], u[2], u[3]) \/ UNCHANGED <<Registrations, KnownNames, called, call, ret>>
<1>1. PICK r : r = Registered(m_names, m_listeners, u[1], u[2], u[3])
  OBVIOUS
<1>2. u[1] \in EventNames /\ u[2] \in Listeners /\ u[3] \in BOOLEAN
  BY EmitterAssumption
<1>3. Takes(OnOrOnce(u[3]), u[1], u[2], r)
  BY <1>1 DEF On
<1>4. CASE r.fault
  <2>1. UNCHANGED <<m_names, m_listeners, called, call, ret>>
    BY <1>3, <1>4 DEF Takes
  <2>2. UNCHANGED <<Registrations, KnownNames>>
    BY <2>1 DEF Registrations, KnownNames, Names, Blocks
  <2> QED BY <2>1, <2>2
<1>5. CASE ~r.fault
  <2>1. /\ Calls(OnOrOnce(u[3]), u[1], u[2]) /\ called' = <<>> /\ ret' = r.ret
        /\ m_names' = r.names /\ m_listeners' = r.q
    BY <1>3, <1>5 DEF Takes
  <2>2. RegistersAs(r, m_names, m_listeners, u[1], u[2], u[3])
    BY <1>1, <1>2, <1>5, RegisteredRegs DEF EmitterInv
  <2>3. /\ Registrations = Regs(m_names, m_listeners) /\ KnownNames = Known(m_names)
        /\ Registrations' = Regs(r.names, r.q) /\ KnownNames' = Known(r.names)
    BY <2>1, MappingIs, MappingNext
  <2>4. Registry!Calls(Registry!OnOrOnce(u[3]), u[1], u[2]) /\ Registry!Quietly
    BY <2>1, RegistryIs DEF Calls, Registry!Calls, Registry!Quietly
  <2> DEFINE accepted == /\ u[1] \notin TooLong
                         /\ u[1] \in KnownNames \/ Cardinality(KnownNames) < MaxNames
             room == Len(Registrations) < MaxListeners
  <2>5. CASE ~accepted
    <3>1. ret' = FALSE /\ UNCHANGED <<Registrations, KnownNames>>
      BY <2>1, <2>2, <2>3, <2>5 DEF RegistersAs
    <3>2. u[1] \in TooLong \/ (u[1] \notin KnownNames /\ Cardinality(KnownNames) >= MaxNames)
      <4>1. Cardinality(KnownNames) \in Nat
        BY <2>3, KnownBound DEF EmitterInv, EmitterOK
      <4> QED BY <2>5, <4>1, EmitterAssumption
    <3> QED BY <2>4, <3>1, <3>2, RegistryIs DEF Registry!On
  <2>6. CASE accepted
    <3>1. /\ ret' = room /\ KnownNames' = KnownNames \cup {u[1]}
          /\ Registrations' = IF room THEN Append(Registrations, Block(u[1], u[2], u[3]))
                              ELSE Registrations
      BY <2>1, <2>2, <2>3, <2>6 DEF RegistersAs
    <3> QED BY <2>4, <2>6, <3>1, RegistryIs DEF Registry!On
  <2> QED BY <2>5, <2>6
<1> QED BY <1>4, <1>5

LEMMA RegistryOff ==
  ASSUME EmitterInv, EmitterInv', NEW u \in Uses, Off(u[1], u[2])
  PROVE  Registry!Off(u[1], u[2])
<1>1. PICK r : r = TurnedOff(m_names, m_listeners, u[1], u[2])
  OBVIOUS
<1>2. u[1] \in EventNames
  BY EmitterAssumption
<1>3. Takes("off", u[1], u[2], r) /\ r.fault = FALSE
  BY <1>1, TurnedOffOK DEF Off, EmitterInv
<1>4. /\ Calls("off", u[1], u[2]) /\ called' = <<>> /\ ret' = r.ret
      /\ m_names' = r.names /\ m_listeners' = r.q
  BY <1>3 DEF Takes
<1>5. TurnsOffAs(r, m_names, m_listeners, u[1], u[2])
  BY <1>1, <1>2, TurnedOffRegs DEF EmitterInv
<1>6. /\ Registrations = Regs(m_names, m_listeners) /\ KnownNames = Known(m_names)
      /\ Registrations' = Regs(r.names, r.q) /\ KnownNames' = Known(r.names)
  BY <1>4, MappingIs, MappingNext
<1>7. Registry!Calls("off", u[1], u[2]) /\ Registry!Quietly
  BY <1>4, RegistryIs DEF Calls, Registry!Calls, Registry!Quietly
<1> DEFINE others == Without(Registrations, {x \in ItemsOf(Registrations) :
                                               x.name = u[1] /\ x.listener = u[2]})
           left == \E i \in 1..Len(others) : others[i].name = u[1]
<1>8. others = Others(m_names, m_listeners, u[1], u[2])
  BY <1>6 DEF Others
<1> DEFINE p == FindName(m_names, u[1])
<1>9. /\ ret' = (p # NULL)
      /\ Registrations' = IF p # NULL THEN others ELSE Registrations
      /\ KnownNames' = IF left THEN KnownNames ELSE KnownNames \ {u[1]}
  BY <1>4, <1>5, <1>6, <1>8 DEF TurnsOffAs
<1>10. IsNames(m_names)
  BY DEF EmitterInv, EmitterOK, NamesOK
<1>11. /\ Registry!Answers(u[1])
       /\ Registrations' = IF u[1] \in KnownNames THEN others ELSE Registrations
  <2>1. CASE u[1] # Empty
    <3>1. p # NULL <=> u[1] \in KnownNames
      BY <1>6, <1>10, <2>1, FindKnown
    <3>2. (p # NULL) = (u[1] \in KnownNames)
      BY <3>1
    <3> HIDE DEF p, others
    <3> QED BY <1>9, <2>1, <3>1, <3>2 DEF Registry!Answers
  <2>2. CASE u[1] = Empty
    <3>1. others = Registrations
      BY <1>6, <1>8, <2>2, OthersOfEmpty DEF EmitterInv
    <3>2. ret' \in BOOLEAN
      BY <1>9
    <3> HIDE DEF p, others
    <3> QED BY <1>9, <2>2, <3>1, <3>2 DEF Registry!Answers
  <2> QED BY <2>1, <2>2
<1> QED BY <1>7, <1>9, <1>11, RegistryIs DEF Registry!Off

LEMMA RegistryEmit ==
  ASSUME EmitterInv, EmitterInv', NEW n \in EventNames, Emit(n)
  PROVE  Registry!Emit(n)
<1>1. /\ Calls("emit", n, NULL) /\ ret' = (FindName(m_names, n) # NULL)
      /\ called' = IF FindName(m_names, n) = NULL THEN <<>>
                   ELSE ListenersOf(ServedBlocks(m_names, m_listeners, n))
      /\ m_listeners' = Emitted(m_names, m_listeners, n)
      /\ m_names' = m_names
  BY DEF Emit, ListenersOf, ServedBlocks, Emitted, Spent
<1>2. EmitterOK(m_names, m_listeners)
  BY DEF EmitterInv
<1>3. called' = ListenersOf(ServedRegs(m_names, m_listeners, n))
  BY <1>1, <1>2, ServedAlike
<1>4. Regs(m_names, m_listeners') = StillThere(m_names, m_listeners, n)
  BY <1>1, <1>2, EmittedRegs
<1>5. /\ Registrations = Regs(m_names, m_listeners) /\ KnownNames = Known(m_names)
      /\ Registrations' = Regs(m_names, m_listeners') /\ KnownNames' = KnownNames
  BY <1>1, MappingIs, MappingNext
<1>6. Registry!Answers(n)
  <2>1. CASE n # Empty
    <3>1. IsNames(m_names)
      BY <1>2 DEF EmitterOK, NamesOK
    <3>2. FindName(m_names, n) # NULL <=> n \in Known(m_names)
      BY <2>1, <3>1, FindKnown
    <3>3. ret' = (n \in KnownNames)
      BY <1>1, <1>5, <3>2
    <3> QED BY <2>1, <3>3 DEF Registry!Answers
  <2>2. CASE n = Empty
    BY <1>1, <2>2 DEF Registry!Answers
  <2> QED BY <2>1, <2>2
<1>7. Registry!Calls("emit", n, NULL)
  BY <1>1, RegistryIs DEF Calls, Registry!Calls
<1> QED BY <1>3, <1>4, <1>5, <1>6, <1>7, RegistryIs
    DEF Registry!Emit, ListenersOf, ServedRegs, StillThere

LEMMA RegistryNext ==
  ASSUME BlankInv, [Next]_vars
  PROVE  [blank' \/ Registry!Next]_(Registry!vars)
<1> SUFFICES ASSUME ~blank'
             PROVE  [Registry!Next]_(Registry!vars)
  OBVIOUS
<1>1. ~blank /\ EmitterInv /\ EmitterInv'
  BY EmitterInvNext DEF BlankInv
<1>2. CASE UNCHANGED vars
  BY <1>2 DEF vars, Registry!vars, Registrations, KnownNames, Names, Blocks
<1>3. ASSUME NEW u \in Uses, On(u[1], u[2], u[3])
      PROVE  [Registry!Next]_(Registry!vars)
  <2>1. u[1] # Empty
    BY <1>3 DEF On
  <2> QED BY <1>1, <1>3, <2>1, RegistryOn DEF Registry!Next, Registry!vars
<1>4. ASSUME NEW u \in Uses, Off(u[1], u[2])
      PROVE  [Registry!Next]_(Registry!vars)
  BY <1>1, <1>4, RegistryOff DEF Registry!Next
<1>5. ASSUME NEW n \in EventNames, Emit(n)
      PROVE  [Registry!Next]_(Registry!vars)
  BY <1>1, <1>5, RegistryEmit DEF Registry!Next
<1> QED BY <1>2, <1>3, <1>4, <1>5 DEF Next

\* Each call returns what the registry returns and calls the listeners the
\* registry calls, in its order, however often names and slots were given up
\* and used again (gevent.cpp:35-109, gevent.h:88-112), until the empty name
\* is registered.  A call that trims into the fault is the last one.
THEOREM EmitterImplementsRegistry == Spec => ImplementsRegistry
<1>1. BlankInv /\ [Next]_vars => BlankInv'
  BY EmitterInvNext
<1>2. BlankInv /\ [Next]_vars => [blank' \/ Registry!Next]_(Registry!vars)
  BY RegistryNext
<1> QED BY EmitterInvInit, RegistryInit, <1>1, <1>2, PTL
    DEF Spec, ImplementsRegistry

-----------------------------------------------------------------------------
(* Exclusion.                                                              *)

Places == {"outside", "waiting", "inside", "walking", "calling", "ended"}

\* The inductive invariant.
Inv ==
  /\ pc \in [Threads -> Places]
  /\ m_lock \in Threads \cup {NONE}
  /\ Exclusion

\* In a call, that is, with the lock.
Within(t) == pc[t] = "inside" \/ Emitting(t)

LEMMA HolderWithin ==
  ASSUME Inv, NEW t \in Threads
  PROVE  Within(t) <=> m_lock = t
BY EmitterMTAssumption DEF Inv, Exclusion, Within

LEMMA InvIs ==
  Inv <=> /\ pc \in [Threads -> Places]
          /\ m_lock \in Threads \cup {NONE}
          /\ \A t \in Threads : Within(t) <=> m_lock = t
BY EmitterMTAssumption DEF Inv, Exclusion, Within, Emitting

-----------------------------------------------------------------------------
(* Steps that take the lock, keep it, and give it back.                    *)

\* Nothing changes for Exclusion when a thread moves between two places on
\* the same side of the lock.
LEMMA StaysInv ==
  ASSUME Inv, NEW t \in Threads, NEW l \in Places, Goto(t, l),
         Within(t) <=> l \in {"inside", "walking", "calling"},
         UNCHANGED m_lock
  PROVE  Inv'
BY InvIs DEF Goto, Within, Emitting, Inv, Exclusion, Places

LEMMA LeaveInv ==
  ASSUME Inv, NEW t \in Threads, Within(t), NEW l \in {"outside", "ended"},
         Leave(t, l)
  PROVE  Inv'
<1>1. m_lock = t
  BY HolderWithin
<1>2. m_lock' = NONE /\ Goto(t, l)
  BY <1>1 DEF Leave, Unlock
<1>3. pc' \in [Threads -> Places]
  BY <1>2, InvIs DEF Goto, Places
<1>4. ASSUME NEW u \in Threads PROVE ~Within(u)'
  BY <1>1, <1>2, InvIs DEF Goto, Within, Emitting
<1> QED BY <1>2, <1>3, <1>4, EmitterMTAssumption DEF Inv, Exclusion, Within

LEMMA WriteLockInv ==
  ASSUME Inv, NEW t \in Threads, WriteLock(t)
  PROVE  Inv'
<1>1. m_lock = NONE /\ m_lock' = t /\ Goto(t, "inside")
  BY DEF WriteLock
<1>2. pc' \in [Threads -> Places]
  BY <1>1, InvIs DEF Goto, Places
<1>3. ASSUME NEW u \in Threads PROVE Within(u)' <=> u = t
  BY <1>1, InvIs, EmitterMTAssumption DEF Goto, Within, Emitting
<1> QED BY <1>1, <1>2, <1>3, EmitterMTAssumption DEF Inv, Exclusion, Within

-----------------------------------------------------------------------------
(* The invariant.                                                          *)

LEMMA InitInv == SharedInit => Inv
BY EmitterMTAssumption DEF SharedInit, Inv, Exclusion, Emitting, Places

LEMMA NextInv ==
  ASSUME Inv, [SharedNext]_sharedVars
  PROVE  Inv'
<1>1. ASSUME NEW t \in Threads, Call(t) PROVE Inv'
  BY <1>1, StaysInv DEF Call, Within, Emitting, Places
<1>2. ASSUME NEW t \in Threads, WriteLock(t) PROVE Inv'
  BY <1>2, WriteLockInv
<1>3. ASSUME NEW t \in Threads, EmitBegin(t) PROVE Inv'
  <2>1. Within(t)
    BY <1>3 DEF EmitBegin, Within
  <2>2. \/ Leave(t, "outside")
        \/ Goto(t, "walking") /\ UNCHANGED m_lock
    BY <1>3 DEF EmitBegin
  <2> QED BY <2>1, <2>2, LeaveInv, StaysInv DEF Places
<1>4. ASSUME NEW t \in Threads, CallListener(t) PROVE Inv'
  BY <1>4, StaysInv DEF CallListener, Within, Emitting, Places
<1>5. ASSUME NEW t \in Threads, ListenerReturns(t) PROVE Inv'
  BY <1>5, StaysInv DEF ListenerReturns, Within, Emitting, Places
<1>6. ASSUME NEW t \in Threads, PassBy(t) PROVE Inv'
  BY <1>6 DEF PassBy, Inv, Exclusion, Emitting
<1>7. ASSUME NEW t \in Threads, EmitEnd(t) PROVE Inv'
  BY <1>7, LeaveInv DEF EmitEnd, Within, Emitting
<1>8. ASSUME NEW t \in Threads, OnOrOff(t) PROVE Inv'
  BY <1>8, LeaveInv DEF OnOrOff, Within
<1>9. ASSUME NEW t \in Threads, Cancel(t) PROVE Inv'
  BY <1>9 DEF Cancel, Inv, Exclusion, Emitting
<1>10. ASSUME NEW t \in Threads, EndCancelled(t) PROVE Inv'
  <2>1. CASE pc[t] = "calling" /\ Leave(t, "ended")
    BY <2>1, LeaveInv DEF Within, Emitting
  <2>2. CASE pc[t] = "outside" /\ Goto(t, "ended") /\ UNCHANGED m_lock
    BY <2>2, StaysInv DEF Within, Emitting, Places
  <2> QED BY <1>10, <2>1, <2>2 DEF EndCancelled
<1>11. CASE UNCHANGED sharedVars
  BY <1>11 DEF sharedVars, Inv, Exclusion, Emitting
<1> QED BY <1>1, <1>2, <1>3, <1>4, <1>5, <1>6, <1>7, <1>8, <1>9, <1>10, <1>11
        DEF SharedNext, Step

-----------------------------------------------------------------------------
(* The lock.                                                               *)

\* emit(), on(), once() and off() of any number of threads exclude each other,
\* and no end of a call or of a thread in it keeps the lock: what holding the
\* AutoLockWrite over the whole of each method is for.
THEOREM EmitterExclusion == SharedSpec => []Exclusion
<1>1. Inv /\ [SharedNext]_sharedVars => Inv'
  BY NextInv
<1>2. Inv => Exclusion
  BY DEF Inv
<1> QED BY InitInv, <1>1, <1>2, PTL DEF SharedSpec

-----------------------------------------------------------------------------
(* What a thread that emits can rely on.                                   *)

\* The queues between two steps: names are what they were, and of the blocks
\* at most one has expired; head and tail have not moved.
OnlyExpires ==
  /\ m_names' = m_names
  /\ \/ m_listeners' = m_listeners
     \/ \E o : m_listeners' = [m_listeners EXCEPT !.buf[o].name = NULL]

\* The only steps that change more than a once block are those of on(), once()
\* and off(), whose thread is inside.
LEMMA ChangersInside ==
  ASSUME NEW t \in Threads, [SharedNext]_sharedVars, Emitting(t), Inv
  PROVE  OnlyExpires
<1>1. ASSUME NEW u \in Threads, OnOrOff(u) PROVE FALSE
  <2>1. pc[u] = "inside"
    BY <1>1 DEF OnOrOff
  <2>2. m_lock = u /\ m_lock = t
    BY <2>1, HolderWithin DEF Within
  <2> QED BY <2>1, <2>2 DEF Emitting
<1>2. ASSUME NEW u \in Threads, Advance(u), UNCHANGED m_names PROVE OnlyExpires
  BY <1>2 DEF Advance, OnlyExpires
<1>3. ASSUME NEW u \in Threads, Step(u) PROVE OnlyExpires
  BY <1>2, <1>3 DEF Step, WriteLock, EmitBegin, CallListener, ListenerReturns,
                    PassBy, EmitEnd, OnlyExpires
<1>4. ASSUME NEW u \in Threads, Call(u) \/ Cancel(u) \/ EndCancelled(u)
      PROVE  OnlyExpires
  BY <1>4 DEF Call, Cancel, EndCancelled, OnlyExpires
<1> QED BY <1>1, <1>3, <1>4 DEF SharedNext, sharedVars, OnlyExpires

\* From one listener of an emit() to the next, whatever other threads call:
\* the name and the place in the queue that emit() has in its local variables
\* are of the queues as they still are (the lock of gevent.cpp:41).
THEOREM EmitUndisturbed ==
  SharedSpec => [][\A t \in Threads : Emitting(t) => OnlyExpires]_sharedVars
<1>1. Inv /\ [SharedNext]_sharedVars => Inv'
  BY NextInv
<1>2. Inv /\ [SharedNext]_sharedVars
        => [\A t \in Threads : Emitting(t) => OnlyExpires]_sharedVars
  BY ChangersInside
<1> QED BY InitInv, <1>1, <1>2, PTL DEF SharedSpec

-----------------------------------------------------------------------------
(* The listeners in the last blocks of a queue.                            *)

HasListeners(c, N) == N \in Nat /\ Len(c) = N /\ \A i \in 1..N : c[i].listener \in Listeners

Called(eb, p) == IF IsCalled(eb, p) THEN <<eb.listener>> ELSE <<>>

\* The recursion in ListenersIn, and that there is a function it defines.
LastAre(c, N, p, n, f) ==
  /\ f \in [0..n -> Seq(Listeners)] /\ f[0] = <<>>
  /\ \A i \in 1..n : f[i] = Called(c[N - i + 1], p) \o f[i - 1]
  /\ ListenersIn(c, p, n) = f[n]

LEMMA LastListeners ==
  ASSUME NEW c, NEW N, HasListeners(c, N), NEW p, NEW n \in 0..N
  PROVE  \E f : LastAre(c, N, p, n, f)
<1> DEFINE D == Seq(Listeners)
           first == <<>>
           next(i, x) == Called(c[N - i + 1], p) \o x
           IsLast(f) == f = [i \in 0..n |->
                               IF i = 0 THEN <<>>
                               ELSE LET eb == c[Len(c) - i + 1]
                                    IN  (IF IsCalled(eb, p) THEN <<eb.listener>> ELSE <<>>)
                                          \o f[i - 1]]
           last == CHOOSE f : IsLast(f)
<1>1. ListenersIn(c, p, n) = last[n]
  BY DEF ListenersIn
<1>2. N \in Nat /\ n \in Nat /\ Len(c) = N /\ \A i \in 1..n : N - i + 1 \in 1..N
  BY DEF HasListeners
<1>3. ASSUME NEW i \in 1..n, NEW x \in D
      PROVE  next(i, x) \in D
  <2>1. c[N - i + 1].listener \in Listeners
    BY <1>2 DEF HasListeners
  <2>2. Called(c[N - i + 1], p) \in D
    BY <2>1 DEF Called
  <2> QED BY <1>3, <2>2, ConcatProperties
<1>4. PICK f : /\ f \in [0..n -> D] /\ f[0] = first
               /\ \A i \in 1..n : f[i] = next(i, f[i - 1])
  <2> DEFINE step == [x \in (1..n) \X D |-> next(x[1], x[2])]
  <2> HIDE DEF next, D
  <2>1. step \in [(1..n) \X D -> D]
    BY <1>3
  <2>2. first \in D
    BY DEF D
  <2>3. PICK f : Iterates(n, D, step, first, f)
    <3> HIDE DEF step, first
    <3> QED BY <1>2, <2>1, <2>2, IteratesExists
  <2>4. ASSUME NEW i \in 1..n
        PROVE  f[i] = next(i, f[i - 1])
    <3>1. f[i - 1] \in D
      BY <1>2, <2>3 DEF Iterates
    <3>2. f[i] = step[<<i, f[i - 1]>>]
      BY <2>3 DEF Iterates
    <3> QED BY <3>1, <3>2
  <2> QED BY <2>3, <2>4 DEF Iterates
<1>5. IsLast(f)
  <2>1. f = [i \in 0..n |-> f[i]]
    BY <1>4
  <2>2. \A i \in 0..n : i = 0 \/ i \in 1..n
    BY <1>2
  <2>3. ASSUME NEW i \in 0..n
        PROVE  f[i] = IF i = 0 THEN <<>>
                      ELSE LET eb == c[Len(c) - i + 1]
                           IN  (IF IsCalled(eb, p) THEN <<eb.listener>> ELSE <<>>)
                                 \o f[i - 1]
    BY <1>2, <1>4, <2>2 DEF Called
  <2> QED BY <2>1, <2>3
<1>6. IsLast(last)
  <2> HIDE DEF IsLast
  <2> QED BY <1>5
<1>7. /\ last[0] = first
      /\ \A i \in 1..n : last[i] = next(i, last[i - 1])
  <2> HIDE DEF last
  <2>1. \A i \in 0..n : last[i] = IF i = 0 THEN <<>>
                      ELSE LET eb == c[Len(c) - i + 1]
                           IN  (IF IsCalled(eb, p) THEN <<eb.listener>> ELSE <<>>)
                                 \o last[i - 1]
    BY <1>6
  <2>2. 0 \in 0..n /\ \A i \in 1..n : i \in 0..n /\ i # 0
    BY <1>2
  <2> QED BY <1>2, <2>1, <2>2 DEF Called
<1> HIDE DEF last, next, first, D
<1> DEFINE T == {i \in 0..n : f[i] = last[i]}
<1>8. 0 \in T
  BY <1>2, <1>4, <1>7
<1>9. ASSUME NEW i \in 1..n, i - 1 \in T
      PROVE  i \in T
  BY <1>2, <1>4, <1>7, <1>9
<1>10. n \in T
  <2>1. n \in 0..n
    BY <1>2
  <2> HIDE DEF T
  <2> QED BY <1>2, <1>8, <1>9, <2>1, AllUpTo
<1>11. f[n] = last[n]
  BY <1>10
<1> QED BY <1>1, <1>4, <1>11 DEF next, first, D, LastAre

\* The same blocks have the same listeners.
LEMMA ListenersSame ==
  ASSUME NEW c, NEW d, NEW N, HasListeners(c, N), HasListeners(d, N), NEW p,
         NEW n \in 0..N, \A i \in 1..n : c[N - i + 1] = d[N - i + 1]
  PROVE  ListenersIn(c, p, n) = ListenersIn(d, p, n)
<1>1. PICK f : LastAre(c, N, p, n, f)
  BY LastListeners
<1>2. PICK g : LastAre(d, N, p, n, g)
  BY LastListeners
<1>3. n \in Nat
  BY DEF HasListeners
<1> DEFINE T == {i \in 0..n : f[i] = g[i]}
<1>4. 0 \in T
  BY <1>1, <1>2, <1>3 DEF LastAre
<1>5. ASSUME NEW i \in 1..n, i - 1 \in T
      PROVE  i \in T
  <2>1. c[N - i + 1] = d[N - i + 1] /\ i \in 0..n
    BY <1>3
  <2>2. f[i - 1] = g[i - 1]
    BY <1>5
  <2>3. f[i] = Called(c[N - i + 1], p) \o f[i - 1]
    BY <1>1 DEF LastAre
  <2>4. g[i] = Called(d[N - i + 1], p) \o g[i - 1]
    BY <1>2 DEF LastAre
  <2> QED BY <2>1, <2>2, <2>3, <2>4
<1>6. n \in T
  <2>1. n \in 0..n
    BY <1>3
  <2> HIDE DEF T
  <2> QED BY <1>3, <1>4, <1>5, <2>1, AllUpTo
<1> QED BY <1>1, <1>2, <1>6 DEF LastAre

LEMMA ListenersStep ==
  ASSUME NEW c, NEW N, HasListeners(c, N), NEW p
  PROVE  /\ ListenersIn(c, p, 0) = <<>>
         /\ \A n \in 0..N : ListenersIn(c, p, n) \in Seq(Listeners)
         /\ \A n \in 1..N : ListenersIn(c, p, n) =
                            Called(c[N - n + 1], p) \o ListenersIn(c, p, n - 1)
<1>1. N \in Nat /\ 0 \in 0..N
  BY DEF HasListeners
<1>2. ListenersIn(c, p, 0) = <<>>
  <2>1. PICK f : LastAre(c, N, p, 0, f)
    BY <1>1, LastListeners
  <2> QED BY <2>1 DEF LastAre
<1>3. ASSUME NEW n \in 0..N
      PROVE  ListenersIn(c, p, n) \in Seq(Listeners)
  <2>1. PICK f : LastAre(c, N, p, n, f)
    BY LastListeners
  <2>2. n \in 0..n
    BY <1>1
  <2> QED BY <2>1, <2>2 DEF LastAre
<1>4. ASSUME NEW n \in 1..N
      PROVE  ListenersIn(c, p, n) = Called(c[N - n + 1], p) \o ListenersIn(c, p, n - 1)
  <2>1. n \in 0..N /\ n - 1 \in 0..N /\ n \in Nat
    BY <1>1
  <2>2. PICK f : LastAre(c, N, p, n, f)
    BY <2>1, LastListeners
  <2>3. PICK g : LastAre(c, N, p, n - 1, g)
    BY <2>1, LastListeners
  <2> USE DEF LastAre
  <2> DEFINE T == {i \in 0..(n - 1) : f[i] = g[i]}
  <2>4. 0 \in T
    BY <2>1, <2>2, <2>3
  <2>5. ASSUME NEW i \in 1..(n - 1), i - 1 \in T
        PROVE  i \in T
    <3>1. i \in 1..n /\ i \in 0..(n - 1)
      BY <2>1
    <3> QED BY <2>2, <2>3, <2>5, <3>1
  <2>6. n - 1 \in T
    <3>1. n - 1 \in 0..(n - 1) /\ n - 1 \in Nat
      BY <2>1
    <3> HIDE DEF T
    <3> QED BY <2>4, <2>5, <3>1, AllUpTo
  <2>7. n \in 1..n
    BY <2>1
  <2> QED BY <2>2, <2>3, <2>6, <2>7
<1> QED BY <1>2, <1>3, <1>4
\* From the k-th block to the tail.
LEMMA ListenersFrom ==
  ASSUME NEW c, NEW N, HasListeners(c, N), NEW p, NEW k \in 1..N
  PROVE  /\ ListenersIn(c, p, N - k) \in Seq(Listeners)
         /\ ListenersIn(c, p, N - k + 1) = Called(c[k], p) \o ListenersIn(c, p, N - k)
<1>1. /\ N - k \in 0..N /\ N - k + 1 \in 1..N /\ (N - k + 1) - 1 = N - k
      /\ N - (N - k + 1) + 1 = k
  BY DEF HasListeners
<1>2. \A m \in 1..N : ListenersIn(c, p, m) =
                        Called(c[N - m + 1], p) \o ListenersIn(c, p, m - 1)
  BY ListenersStep
<1>3. ListenersIn(c, p, N - k) \in Seq(Listeners)
  BY <1>1, ListenersStep
<1>4. ListenersIn(c, p, N - k + 1) =
        Called(c[N - (N - k + 1) + 1], p) \o ListenersIn(c, p, (N - k + 1) - 1)
  BY <1>1, <1>2
<1> QED BY <1>1, <1>3, <1>4

-----------------------------------------------------------------------------
(* The walk of emit().                                                     *)

\* emit() of the name at p is at l and at the k-th block, o; it has called h of
\* the listeners d that were due, and the rest are in the blocks from there on.
WalkAt(ns, q, l, p, o, d, h, k) ==
  /\ InUse(ns, p) /\ h \in Seq(Listeners)
  /\ k \in 1..(Length(q) + 1)
  /\ o = IF k \in 1..Length(q) THEN Nth(q, k) ELSE NULL
  /\ l = "calling" => k \in 1..Length(q) /\ IsCalled(Contents(q)[k], p)
  /\ d = h \o ListenersIn(Contents(q), p,
                          IF l = "calling" THEN Length(q) - k ELSE Length(q) - k + 1)

LEMMA BlocksHaveListeners ==
  ASSUME NEW ns, NEW q, BlocksOK(ns, q)
  PROVE  HasListeners(Contents(q), Length(q))
BY BlocksFacts DEF BlocksOK, BlockOK, HasListeners, IsQueueOf

LEMMA WalkBegins ==
  ASSUME NEW ns, NEW q, BlocksOK(ns, q), NEW p, InUse(ns, p)
  PROVE  LET d == ListenersIn(Contents(q), p, Length(q))
         IN  d \in Seq(Listeners) /\ WalkAt(ns, q, "walking", p, Peek(q), d, <<>>, 1)
<1> DEFINE c == Contents(q)
           n == Length(q)
           d == ListenersIn(c, p, n)
<1>1. HasListeners(c, n) /\ n \in Nat
  BY BlocksHaveListeners DEF HasListeners
<1>2. d \in Seq(Listeners)
  <2>1. n \in 0..n
    BY <1>1
  <2> HIDE DEF c, n
  <2> QED BY <1>1, <2>1, ListenersStep
<1>3. Peek(q) = IF 1 \in 1..n THEN Nth(q, 1) ELSE NULL
  BY BlocksWalk DEF BlocksOK
<1>4. d = <<>> \o d /\ <<>> \in Seq(Listeners)
  <2> HIDE DEF d
  <2> QED BY <1>2, ConcatEmptySeq
<1>5. n - 1 + 1 = n /\ 1 \in 1..(n + 1)
  BY <1>1
<1> QED BY <1>2, <1>3, <1>4, <1>5 DEF WalkAt

\* A listener that is called is the next one due.
LEMMA WalkCalls ==
  ASSUME NEW ns, NEW q, BlocksOK(ns, q),
         NEW p, NEW o, NEW d, NEW h, NEW k, WalkAt(ns, q, "walking", p, o, d, h, k),
         o # NULL, IsCalled(Load(q, o), p)
  PROVE  LET g == Append(h, Load(q, o).listener)
         IN  g \in Seq(Listeners) /\ WalkAt(ns, q, "calling", p, o, d, g, k)
<1> DEFINE c == Contents(q)
           n == Length(q)
           x == Load(q, o).listener
           rest == ListenersIn(c, p, n - k)
<1>1. HasListeners(c, n) /\ n \in Nat
  BY BlocksHaveListeners DEF HasListeners
<1>2. k \in 1..n /\ o = Nth(q, k) /\ h \in Seq(Listeners)
  BY <1>1 DEF WalkAt
<1>3. Load(q, o) = c[k]
  BY <1>2, BlocksFacts DEF BlocksOK, IsQueueOf
<1>4. x \in Listeners
  BY <1>1, <1>2, <1>3 DEF HasListeners
<1>5. rest \in Seq(Listeners) /\ ListenersIn(c, p, n - k + 1) = Called(c[k], p) \o rest
  <2> HIDE DEF c, n
  <2> QED BY <1>1, <1>2, ListenersFrom
<1>6. Called(c[k], p) = <<x>>
  BY <1>3 DEF Called
<1>7. d = h \o (<<x>> \o rest)
  BY <1>5, <1>6 DEF WalkAt
<1> HIDE DEF rest, x
<1>8. Append(h, x) \in Seq(Listeners) /\ d = Append(h, x) \o rest
  <2>1. <<x>> \in Seq(Listeners)
    BY <1>4
  <2>2. h \o (<<x>> \o rest) = (h \o <<x>>) \o rest
    BY <1>2, <1>5, <2>1, ConcatAssociative
  <2> QED BY <1>2, <1>4, <1>7, <2>2
<1> QED BY <1>2, <1>3, <1>8 DEF WalkAt, rest, x

\* r has the blocks of q where they were, except for the k-th.
SameBut(r, q, k) ==
  /\ Length(r) = Length(q) /\ \A i : Nth(r, i) = Nth(q, i)
  /\ \A i \in 1..Length(q) : i # k => Contents(r)[i] = Contents(q)[i]

LEMMA ExpireOne ==
  ASSUME NEW ns, NEW q, BlocksOK(ns, q), NEW k \in 1..Length(q)
  PROVE  LET r == [q EXCEPT !.buf[Nth(q, k)].name = NULL]
         IN  BlocksOK(ns, r) /\ SameBut(r, q, k)
<1> DEFINE o == Nth(q, k)
           spent == {o}
           b == [e \in DOMAIN q.buf |->
                   IF e \in spent THEN [q.buf[e] EXCEPT !.name = NULL] ELSE q.buf[e]]
           r == [q EXCEPT !.buf = b]
<1>1. /\ q # NULL /\ o \in DOMAIN q.buf
      /\ \A i \in 1..Length(q) : Nth(q, i) = o => i = k
  BY BlocksFacts DEF BlocksOK, IsQueueOf
<1>2. \A e \in spent : \E i \in 1..Length(q) : e = Nth(q, i)
  OBVIOUS
<1>3. [q EXCEPT !.buf[o].name = NULL] = r
  <2>1. [q.buf EXCEPT ![o].name = NULL] = b
    BY <1>1
  <2> QED BY <2>1
<1>4. \A i : i # o => i \notin spent
  OBVIOUS
<1> HIDE DEF spent, o
<1>5. /\ Expires(r, q) /\ \A i : Nth(r, i) = Nth(q, i)
      /\ \A i \in 1..Length(q) : Nth(q, i) \notin spent => Contents(r)[i] = Contents(q)[i]
  <2>1. PICK x : x = r
    OBVIOUS
  <2>2. Expires(x, q) /\ OnlySpent(x, q, spent)
    BY <1>1, <1>2, <2>1, ExpireSpent
  <2> HIDE DEF r
  <2> QED BY <2>1, <2>2 DEF OnlySpent
<1> HIDE DEF r
<1>6. BlocksOK(ns, r)
  BY <1>5, ExpiresOK
<1>7. SameBut(r, q, k)
  BY <1>1, <1>4, <1>5 DEF SameBut, Expires
<1> QED BY <1>3, <1>6, <1>7 DEF o

\* On to the next block.  What becomes of the one behind changes nothing of
\* what is ahead.
LEMMA WalkAdvances ==
  ASSUME NEW ns, NEW q, BlocksOK(ns, q),
         NEW l, NEW p, NEW o, NEW d, NEW h, NEW k, WalkAt(ns, q, l, p, o, d, h, k),
         o # NULL, l = "calling" \/ ~IsCalled(Load(q, o), p),
         NEW r, BlocksOK(ns, r), SameBut(r, q, k)
  PROVE  WalkAt(ns, r, "walking", p, PeekNext(q, o), d, h, k + 1)
<1> DEFINE c == Contents(q)
           n == Length(q)
<1>1. HasListeners(c, n) /\ n \in Nat
  BY BlocksHaveListeners DEF HasListeners
<1>2. k \in 1..n /\ o = Nth(q, k) /\ h \in Seq(Listeners)
  BY <1>1 DEF WalkAt
<1>3. Load(q, o) = c[k]
  BY <1>2, BlocksFacts DEF BlocksOK, IsQueueOf
<1>4. /\ Length(r) = n /\ \A i : Nth(r, i) = Nth(q, i)
      /\ \A i \in 1..n : i # k => Contents(r)[i] = c[i]
  BY DEF SameBut
<1>5. n - k \in 0..n /\ n - (k + 1) + 1 = n - k /\ k + 1 \in 1..(n + 1)
  BY <1>1, <1>2
<1>6. d = h \o ListenersIn(c, p, n - k)
  <2>1. CASE l = "calling"
    BY <2>1 DEF WalkAt
  <2>2. CASE l # "calling"
    <3>1. Called(c[k], p) = <<>>
      BY <1>3, <2>2 DEF Called
    <3>2. /\ ListenersIn(c, p, n - k) \in Seq(Listeners)
          /\ ListenersIn(c, p, n - k + 1) = Called(c[k], p) \o ListenersIn(c, p, n - k)
      <4> HIDE DEF c, n
      <4> QED BY <1>1, <1>2, ListenersFrom
    <3>3. ListenersIn(c, p, n - k + 1) = ListenersIn(c, p, n - k)
      BY <3>1, <3>2, ConcatEmptySeq
    <3> QED BY <2>2, <3>3 DEF WalkAt
  <2> QED BY <2>1, <2>2
<1>7. ListenersIn(c, p, n - k) = ListenersIn(Contents(r), p, n - k)
  <2>1. HasListeners(Contents(r), n)
    BY <1>4, BlocksHaveListeners
  <2> DEFINE m == n - k
             e == Contents(r)
  <2>2. m \in 0..n /\ \A i \in 1..m : c[n - i + 1] = e[n - i + 1]
    BY <1>1, <1>2, <1>4
  <2> HIDE DEF m, e, c, n
  <2>3. ListenersIn(c, p, m) = ListenersIn(e, p, m)
    BY <1>1, <2>1, <2>2, ListenersSame DEF e
  <2> QED BY <2>3 DEF m, e
<1>8. PeekNext(q, o) = IF k + 1 \in 1..n THEN Nth(q, k + 1) ELSE NULL
  BY <1>2, BlocksWalk DEF BlocksOK
<1>9. InUse(ns, p)
  BY DEF WalkAt
<1> QED BY <1>2, <1>4, <1>5, <1>6, <1>7, <1>8, <1>9 DEF WalkAt
-----------------------------------------------------------------------------
(* The walks of all threads.                                               *)

Walks(t) ==
  \E k \in Nat : WalkAt(m_names, m_listeners, pc[t], name[t], peek[t], due[t], heard[t], k)

LocalsOK ==
  /\ name \in [Threads -> Nat \cup {NULL}] /\ peek \in [Threads -> Nat \cup {NULL}]
  /\ due \in [Threads -> Seq(Listeners)] /\ heard \in [Threads -> Seq(Listeners)]

\* The inductive invariant.
WalkInv ==
  /\ NoEmptyName
  /\ Inv /\ EmitterInv /\ LocalsOK
  /\ \A t \in Threads : IF Emitting(t) THEN Walks(t) ELSE heard[t] = <<>>

\* A step of t moves t to l, with p, o, d and h in its local variables.
Moves(t, l, p, o, d, h) ==
  /\ Goto(t, l)
  /\ p \in Nat \cup {NULL} /\ o \in Nat \cup {NULL}
  /\ d \in Seq(Listeners) /\ h \in Seq(Listeners)
  /\ name' = [name EXCEPT ![t] = p] /\ peek' = [peek EXCEPT ![t] = o]
  /\ due' = [due EXCEPT ![t] = d] /\ heard' = [heard EXCEPT ![t] = h]

\* The walks of other threads are not disturbed: the queues stay, or nobody
\* else emits.
LEMMA MovesWalkInv ==
  ASSUME WalkInv, Inv', EmitterInv', NEW t \in Threads,
         UNCHANGED <<m_names, m_listeners>> \/ Within(t),
         NEW l, NEW p, NEW o, NEW d, NEW h, Moves(t, l, p, o, d, h),
         IF l \in {"walking", "calling"}
           THEN \E k \in Nat : WalkAt(m_names', m_listeners', l, p, o, d, h, k)
           ELSE h = <<>>
  PROVE  WalkInv'
<1>1. LocalsOK'
  BY DEF WalkInv, LocalsOK, Moves
<1>2. pc \in [Threads -> Places]
  BY DEF WalkInv, Inv
<1>3. ASSUME NEW u \in Threads
      PROVE  IF Emitting(u)' THEN Walks(u)' ELSE heard'[u] = <<>>
  <2>1. CASE u = t
    <3>1. /\ pc'[u] = l /\ name'[u] = p /\ peek'[u] = o /\ due'[u] = d
          /\ heard'[u] = h
      BY <1>2, <2>1 DEF Moves, Goto, WalkInv, LocalsOK
    <3> QED BY <3>1 DEF Emitting, Walks
  <2>2. CASE u # t
    <3>1. /\ pc'[u] = pc[u] /\ name'[u] = name[u] /\ peek'[u] = peek[u]
          /\ due'[u] = due[u] /\ heard'[u] = heard[u]
      BY <1>2, <2>2 DEF Moves, Goto, WalkInv, LocalsOK
    <3>2. CASE UNCHANGED <<m_names, m_listeners>>
      BY <3>1, <3>2 DEF WalkInv, Emitting, Walks
    <3>3. CASE Within(t)
      <4>1. m_lock = t /\ (Within(u) => m_lock = u)
        BY <3>3, HolderWithin DEF WalkInv
      <4>2. ~Emitting(u)
        BY <2>2, <4>1 DEF Within
      <4> QED BY <3>1, <4>2 DEF WalkInv, Emitting
    <3> QED BY <3>2, <3>3
  <2> QED BY <2>1, <2>2
<1> QED BY <1>1, <1>3 DEF WalkInv, NoEmptyName

\* A step that leaves the queues and the local variables, of a thread that
\* does not emit.
LEMMA StandsWalkInv ==
  ASSUME WalkInv, Inv', EmitterInv', NEW t \in Threads, ~Emitting(t),
         UNCHANGED <<m_names, m_listeners, locals>>,
         NEW l, Goto(t, l), l \notin {"walking", "calling"}
  PROVE  WalkInv'
<1>1. /\ name[t] \in Nat \cup {NULL} /\ peek[t] \in Nat \cup {NULL}
      /\ due[t] \in Seq(Listeners) /\ heard[t] \in Seq(Listeners) /\ heard[t] = <<>>
  BY DEF WalkInv, LocalsOK
<1>2. /\ name' = [name EXCEPT ![t] = name[t]] /\ peek' = [peek EXCEPT ![t] = peek[t]]
      /\ due' = [due EXCEPT ![t] = due[t]] /\ heard' = [heard EXCEPT ![t] = heard[t]]
  BY DEF WalkInv, LocalsOK, locals
<1>3. Moves(t, l, name[t], peek[t], due[t], heard[t])
  BY <1>1, <1>2 DEF Moves
<1> QED BY <1>1, <1>3, MovesWalkInv

LEMMA LeaveWalkInv ==
  ASSUME WalkInv, Inv', EmitterInv', NEW t \in Threads, Within(t),
         NEW l \in {"outside", "ended"}, Leave(t, l)
  PROVE  WalkInv'
<1>1. <<>> \in Seq(Listeners)
  OBVIOUS
<1>2. Moves(t, l, NULL, NULL, <<>>, <<>>)
  BY <1>1 DEF Moves, Leave
<1> QED BY <1>2, MovesWalkInv
LEMMA SameQueues ==
  ASSUME EmitterInv, UNCHANGED <<m_names, m_listeners, fault>>
  PROVE  EmitterInv'
BY DEF EmitterInv

LEMMA AppliesOK ==
  ASSUME EmitterInv, NEW r, ~r.fault => EmitterOK(r.names, r.q), Applies(r)
  PROVE  EmitterInv'
BY DEF EmitterInv, Applies

LEMMA OnOrOffWalk ==
  ASSUME WalkInv, Inv', NEW t \in Threads, OnOrOff(t)
  PROVE  WalkInv'
<1>1. EmitterOK(m_names, m_listeners)
  BY DEF WalkInv, EmitterInv
<1>2. PICK u \in Uses :
        \/ Applies(Registered(m_names, m_listeners, u[1], u[2], u[3]))
        \/ Applies(TurnedOff(m_names, m_listeners, u[1], u[2]))
  BY DEF OnOrOff
<1>3. u[1] \in EventNames /\ u[1] # Empty /\ u[2] \in Listeners /\ u[3] \in BOOLEAN
  BY EmitterAssumption DEF WalkInv, NoEmptyName
<1>4. CASE Applies(Registered(m_names, m_listeners, u[1], u[2], u[3]))
  <2> DEFINE r == Registered(m_names, m_listeners, u[1], u[2], u[3])
  <2>1. ~r.fault => EmitterOK(r.names, r.q)
    BY <1>1, <1>3, RegisteredOK
  <2>2. Applies(r)
    BY <1>4
  <2> HIDE DEF r
  <2> QED BY <2>1, <2>2, AppliesOK, LeaveWalkInv DEF WalkInv, OnOrOff, Within
<1>5. CASE Applies(TurnedOff(m_names, m_listeners, u[1], u[2]))
  <2> DEFINE r == TurnedOff(m_names, m_listeners, u[1], u[2])
  <2>1. EmitterOK(r.names, r.q)
    BY <1>1, TurnedOffOK
  <2>2. Applies(r)
    BY <1>5
  <2> HIDE DEF r
  <2> QED BY <2>1, <2>2, AppliesOK, LeaveWalkInv DEF WalkInv, OnOrOff, Within
<1> QED BY <1>2, <1>4, <1>5

LEMMA EmitBeginWalk ==
  ASSUME WalkInv, Inv', NEW t \in Threads, EmitBegin(t)
  PROVE  WalkInv'
<1>1. EmitterInv' /\ UNCHANGED <<m_names, m_listeners>>
  BY SameQueues DEF EmitBegin, WalkInv
<1>2. Within(t) /\ heard[t] = <<>> /\ heard[t] \in Seq(Listeners)
  BY DEF EmitBegin, Within, WalkInv, LocalsOK, Emitting
<1>3. NamesOK(m_names) /\ IsNames(m_names) /\ BlocksOK(m_names, m_listeners)
  BY DEF WalkInv, EmitterInv, EmitterOK, NamesOK
<1>4. PICK u \in Uses :
        \/ Leave(t, "outside")
        \/ LET p == FindName(m_names, u[1])
           IN  /\ p # NULL /\ Goto(t, "walking")
               /\ name' = [name EXCEPT ![t] = p]
               /\ peek' = [peek EXCEPT ![t] = Peek(m_listeners)]
               /\ due' = [due EXCEPT ![t] =
                            ListenersIn(Contents(m_listeners), p, Length(m_listeners))]
               /\ UNCHANGED <<m_lock, heard>>
  BY DEF EmitBegin
<1>5. CASE Leave(t, "outside")
  BY <1>1, <1>2, <1>5, LeaveWalkInv
<1>6. CASE ~Leave(t, "outside")
  <2> DEFINE p == FindName(m_names, u[1])
             o == Peek(m_listeners)
             d == ListenersIn(Contents(m_listeners), p, Length(m_listeners))
  <2>1. /\ p # NULL /\ Goto(t, "walking")
        /\ name' = [name EXCEPT ![t] = p] /\ peek' = [peek EXCEPT ![t] = o]
        /\ due' = [due EXCEPT ![t] = d] /\ heard' = heard
    BY <1>4, <1>6
  <2>2. InUse(m_names, p) /\ p \in Nat
    <3>1. u[1] # Empty
      BY DEF WalkInv, NoEmptyName
    <3>2. PICK i \in 1..Length(m_names) : p = Nth(m_names, i) /\ Contents(m_names)[i] = u[1]
      BY <1>3, <2>1, FindNameFacts
    <3>3. Nth(m_names, i) \in Nat
      BY <1>3, NamesFacts DEF IsQueueOf
    <3> HIDE DEF p
    <3> QED BY <3>1, <3>2, <3>3 DEF InUse
  <2> HIDE DEF p
  <2>3. d \in Seq(Listeners) /\ WalkAt(m_names, m_listeners, "walking", p, o, d, <<>>, 1)
    BY <1>3, <2>2, WalkBegins
  <2>4. o \in Nat \cup {NULL}
    BY <1>3, BlocksFacts, <2>3 DEF WalkAt, BlocksOK, IsQueueOf
  <2>5. heard' = [heard EXCEPT ![t] = <<>>]
    BY <1>2, <2>1 DEF WalkInv, LocalsOK
  <2> HIDE DEF o, d
  <2>6. Moves(t, "walking", p, o, d, <<>>)
    BY <1>2, <2>1, <2>2, <2>3, <2>4, <2>5 DEF Moves
  <2>7. \E k \in Nat : WalkAt(m_names', m_listeners', "walking", p, o, d, <<>>, k)
    BY <1>1, <2>3
  <2> QED BY <1>1, <2>6, <2>7, MovesWalkInv
<1> QED BY <1>5, <1>6

\* Where a thread that emits is.
LEMMA WalkOf ==
  ASSUME WalkInv, NEW t \in Threads, Emitting(t)
  PROVE  /\ Walks(t) /\ BlocksOK(m_names, m_listeners) /\ Within(t)
         /\ name[t] \in Nat \cup {NULL} /\ peek[t] \in Nat \cup {NULL}
         /\ due[t] \in Seq(Listeners) /\ heard[t] \in Seq(Listeners)
         /\ name = [name EXCEPT ![t] = name[t]] /\ peek = [peek EXCEPT ![t] = peek[t]]
         /\ due = [due EXCEPT ![t] = due[t]] /\ heard = [heard EXCEPT ![t] = heard[t]]
         /\ pc = [pc EXCEPT ![t] = pc[t]]
BY DEF WalkInv, LocalsOK, Within, EmitterInv, EmitterOK, Inv

LEMMA CallListenerWalk ==
  ASSUME WalkInv, Inv', NEW t \in Threads, CallListener(t)
  PROVE  WalkInv'
<1>1. EmitterInv' /\ UNCHANGED <<m_names, m_listeners>>
  BY SameQueues DEF CallListener, WalkInv
<1>2. Emitting(t) /\ pc[t] = "walking" /\ peek[t] # NULL /\ IsCalled(At(t), name[t])
  BY DEF CallListener, Emitting
<1>3. PICK k \in Nat :
        WalkAt(m_names, m_listeners, "walking", name[t], peek[t], due[t], heard[t], k)
  BY <1>2, WalkOf DEF Walks
<1> DEFINE h == Append(heard[t], At(t).listener)
<1>4. h \in Seq(Listeners)
      /\ WalkAt(m_names, m_listeners, "calling", name[t], peek[t], due[t], h, k)
  BY <1>2, <1>3, WalkOf, WalkCalls DEF At
<1>5. heard' = [heard EXCEPT ![t] = h]
  BY <1>2, WalkOf DEF CallListener
<1> HIDE DEF h
<1>6. Moves(t, "calling", name[t], peek[t], due[t], h)
  BY <1>2, <1>4, <1>5, WalkOf DEF Moves, CallListener
<1>7. \E j \in Nat : WalkAt(m_names', m_listeners', "calling", name[t], peek[t], due[t], h, j)
  BY <1>1, <1>4
<1> QED BY <1>1, <1>6, <1>7, MovesWalkInv

\* Of ListenerReturns and PassBy.
LEMMA AdvanceWalk ==
  ASSUME WalkInv, Inv', NEW t \in Threads, Emitting(t), peek[t] # NULL,
         pc[t] = "calling" \/ ~IsCalled(At(t), name[t]),
         Advance(t), Goto(t, "walking"), UNCHANGED <<m_names, name, due, heard, fault>>
  PROVE  WalkInv'
<1>1. PICK k \in Nat :
        WalkAt(m_names, m_listeners, pc[t], name[t], peek[t], due[t], heard[t], k)
  BY WalkOf DEF Walks
<1>2. BlocksOK(m_names, m_listeners) /\ Within(t)
  BY WalkOf
<1>3. k \in 1..Length(m_listeners) /\ peek[t] = Nth(m_listeners, k)
  BY <1>1 DEF WalkAt
<1> DEFINE r == [m_listeners EXCEPT !.buf[Nth(m_listeners, k)].name = NULL]
<1>4. m_listeners' \in {m_listeners, r}
  BY <1>3 DEF Advance
<1>5. BlocksOK(m_names, r) /\ SameBut(r, m_listeners, k)
  BY <1>2, <1>3, ExpireOne
<1>6. SameBut(m_listeners, m_listeners, k)
  BY DEF SameBut
<1> HIDE DEF r
<1>7. BlocksOK(m_names, m_listeners') /\ SameBut(m_listeners', m_listeners, k)
  BY <1>2, <1>4, <1>5, <1>6
<1> DEFINE o == PeekNext(m_listeners, peek[t])
           q == m_listeners'
<1>8. WalkAt(m_names, q, "walking", name[t], o, due[t], heard[t], k + 1)
  <2> HIDE DEF q
  <2> QED BY <1>1, <1>2, <1>7, WalkAdvances DEF At, q
<1>9. EmitterInv'
  BY <1>7 DEF WalkInv, EmitterInv, EmitterOK
<1>10. o \in Nat \cup {NULL}
  <2>1. IsQueueOf(q, BlockValues)
    BY <1>7, BlocksFacts DEF BlocksOK
  <2> HIDE DEF q, o
  <2> QED BY <1>8, <2>1 DEF WalkAt, IsQueueOf
<1>11. peek' = [peek EXCEPT ![t] = o]
  BY DEF Advance
<1> HIDE DEF o
<1>12. Moves(t, "walking", name[t], o, due[t], heard[t])
  BY <1>10, <1>11, WalkOf DEF Moves
<1>13. \E j \in Nat : WalkAt(m_names', q, "walking", name[t], o, due[t], heard[t], j)
  BY <1>8
<1> QED BY <1>2, <1>9, <1>12, <1>13, MovesWalkInv
LEMMA WalkInvInit == SharedInit /\ NoEmptyName => WalkInv
<1> SUFFICES ASSUME SharedInit, NoEmptyName PROVE WalkInv
  OBVIOUS
<1>1. EmitterInv
  BY EmitterInit DEF SharedInit, EmitterInv
<1>2. LocalsOK
  <2>1. <<>> \in Seq(Listeners)
    OBVIOUS
  <2> QED BY <2>1 DEF SharedInit, LocalsOK
<1> QED BY <1>1, <1>2, InitInv DEF SharedInit, WalkInv, Emitting

LEMMA WalkInvNext ==
  ASSUME WalkInv, [SharedNext]_sharedVars
  PROVE  WalkInv'
<1>1. Inv'
  BY NextInv DEF WalkInv
<1>2. ASSUME NEW t \in Threads, Call(t) \/ WriteLock(t) PROVE WalkInv'
  <2>1. EmitterInv'
    BY <1>2, SameQueues DEF Call, WriteLock, WalkInv
  <2> QED BY <1>1, <1>2, <2>1, StandsWalkInv DEF Call, WriteLock, Emitting
<1>3. ASSUME NEW t \in Threads, EmitBegin(t) PROVE WalkInv'
  BY <1>1, <1>3, EmitBeginWalk
<1>4. ASSUME NEW t \in Threads, CallListener(t) PROVE WalkInv'
  BY <1>1, <1>4, CallListenerWalk
<1>5. ASSUME NEW t \in Threads, ListenerReturns(t) PROVE WalkInv'
  <2>1. Emitting(t) /\ pc[t] = "calling"
    BY <1>5 DEF ListenerReturns, Emitting
  <2>2. peek[t] # NULL
    <3>1. PICK k \in Nat :
            WalkAt(m_names, m_listeners, "calling", name[t], peek[t], due[t], heard[t], k)
      BY <2>1, WalkOf DEF Walks
    <3>2. k \in 1..Length(m_listeners) /\ peek[t] = Nth(m_listeners, k)
      BY <3>1 DEF WalkAt
    <3>3. Nth(m_listeners, k) \in Nat
      BY <2>1, <3>2, WalkOf, BlocksFacts DEF BlocksOK, IsQueueOf
    <3> QED BY <3>2, <3>3, EmitterAssumption
  <2> QED BY <1>1, <1>5, <2>1, <2>2, AdvanceWalk DEF ListenerReturns
<1>6. ASSUME NEW t \in Threads, PassBy(t) PROVE WalkInv'
  <2>1. Emitting(t) /\ peek[t] # NULL /\ ~IsCalled(At(t), name[t])
    BY <1>6 DEF PassBy, Emitting
  <2>2. Goto(t, "walking")
    BY <1>6, <2>1, WalkOf DEF PassBy, Goto
  <2> QED BY <1>1, <1>6, <2>1, <2>2, AdvanceWalk DEF PassBy
<1>7. ASSUME NEW t \in Threads, EmitEnd(t) PROVE WalkInv'
  <2>1. Within(t) /\ EmitterInv'
    BY <1>7, SameQueues DEF EmitEnd, Within, Emitting, WalkInv
  <2> QED BY <1>1, <1>7, <2>1, LeaveWalkInv DEF EmitEnd
<1>8. ASSUME NEW t \in Threads, OnOrOff(t) PROVE WalkInv'
  BY <1>1, <1>8, OnOrOffWalk
<1>9. ASSUME NEW t \in Threads, EndCancelled(t) PROVE WalkInv'
  <2>1. EmitterInv'
    BY <1>9, SameQueues DEF EndCancelled, WalkInv
  <2>2. CASE pc[t] = "calling" /\ Leave(t, "ended")
    BY <1>1, <2>1, <2>2, LeaveWalkInv DEF Within, Emitting
  <2>3. CASE pc[t] = "outside" /\ Goto(t, "ended") /\ UNCHANGED locals
    BY <1>1, <1>9, <2>1, <2>3, StandsWalkInv DEF Emitting, EndCancelled
  <2> QED BY <1>9, <2>2, <2>3 DEF EndCancelled
<1>10. ASSUME UNCHANGED <<m_names, m_listeners, fault, pc, locals>> PROVE WalkInv'
  <2>1. EmitterInv'
    BY <1>10, SameQueues DEF WalkInv
  <2> QED BY <1>1, <1>10, <2>1 DEF WalkInv, NoEmptyName, LocalsOK, locals, Emitting, Walks
<1>11. ASSUME NEW t \in Threads, Cancel(t) PROVE WalkInv'
  BY <1>10, <1>11 DEF Cancel
<1>12. CASE UNCHANGED sharedVars
  BY <1>10, <1>12 DEF sharedVars
<1> QED BY <1>2, <1>3, <1>4, <1>5, <1>6, <1>7, <1>8, <1>9, <1>11, <1>12
        DEF SharedNext, Step

\* A listener that runs is in the block at peek, which waits; so its name is
\* in use.
LEMMA WalkRegistered == WalkInv => RunningIsRegistered
<1> SUFFICES ASSUME WalkInv, NEW t \in Threads, pc[t] = "calling"
             PROVE  /\ \E i \in 1..Length(m_listeners) : Nth(m_listeners, i) = peek[t]
                    /\ At(t).name = name[t]
                    /\ Load(m_names, name[t]) # Empty
  BY DEF RunningIsRegistered
<1>1. Emitting(t)
  BY DEF Emitting
<1>2. PICK k \in Nat :
        WalkAt(m_names, m_listeners, "calling", name[t], peek[t], due[t], heard[t], k)
  BY <1>1, WalkOf DEF Walks
<1>3. /\ k \in 1..Length(m_listeners) /\ peek[t] = Nth(m_listeners, k)
      /\ Contents(m_listeners)[k].name = name[t] /\ InUse(m_names, name[t])
  BY <1>2 DEF WalkAt, IsCalled
<1>4. IsQueueOf(m_names, NameValues) /\ IsQueueOf(m_listeners, BlockValues)
  BY NamesFacts, BlocksFacts DEF WalkInv, EmitterInv, EmitterOK, NamesOK, BlocksOK
<1>5. At(t).name = name[t]
  BY <1>3, <1>4 DEF IsQueueOf, At
<1>6. Load(m_names, name[t]) # Empty
  BY <1>3, <1>4 DEF InUse, IsQueueOf
<1> QED BY <1>3, <1>5, <1>6

LEMMA WalkOneInstant == WalkInv => EmitsAtOneInstant
<1> DEFINE c == Contents(m_listeners)
           next(t) == IF peek[t] = NULL THEN Len(c) + 1
                      ELSE CHOOSE k \in DOMAIN c : Nth(m_listeners, k) = peek[t]
           left(t) == IF pc[t] = "calling" THEN Len(c) - next(t) ELSE Len(c) - next(t) + 1
<1>1. ASSUME WalkInv, NEW t \in Threads, Emitting(t)
      PROVE  due[t] = heard[t] \o ListenersIn(c, name[t], left(t))
  <2>1. PICK k \in Nat :
          WalkAt(m_names, m_listeners, pc[t], name[t], peek[t], due[t], heard[t], k)
    BY <1>1, WalkOf DEF Walks
  <2>2. IsQueueOf(m_listeners, BlockValues)
    BY <1>1, WalkOf, BlocksFacts DEF BlocksOK
  <2>3. Len(c) = Length(m_listeners) /\ DOMAIN c = 1..Length(m_listeners)
    BY <2>2 DEF IsQueueOf
  <2>4. next(t) = k
    <3>1. CASE k \in 1..Length(m_listeners)
      <4>1. peek[t] = Nth(m_listeners, k) /\ peek[t] \in Nat
        BY <2>1, <2>2, <3>1 DEF WalkAt, IsQueueOf
      <4>2. \A j \in DOMAIN c : Nth(m_listeners, j) = peek[t] => j = k
        BY <2>2, <2>3, <3>1, <4>1 DEF IsQueueOf
      <4>3. peek[t] # NULL
        BY <4>1, EmitterAssumption
      <4> QED BY <2>3, <3>1, <4>1, <4>2, <4>3
    <3>2. CASE k \notin 1..Length(m_listeners)
      <4>1. peek[t] = NULL /\ k = Length(m_listeners) + 1
        BY <2>1, <2>2, <3>2 DEF WalkAt, IsQueueOf
      <4> QED BY <2>3, <4>1
    <3> QED BY <3>1, <3>2
  <2> HIDE DEF next
  <2> QED BY <2>1, <2>3, <2>4 DEF WalkAt
<1> QED BY <1>1 DEF EmitsAtOneInstant

\* A listener that runs is registered, whatever the other threads call: the
\* off() of a thread takes effect before or after the emit() of another one,
\* never between its finding a block and its calling the listener
\* (gevent.cpp:19-36, 41-53), as long as nobody uses the empty name.
THEOREM OffIsFinal == SharedSpec /\ NoEmptyName => []RunningIsRegistered
<1>1. WalkInv /\ [SharedNext]_sharedVars => WalkInv'
  BY WalkInvNext
<1> QED BY WalkInvInit, <1>1, WalkRegistered, PTL DEF SharedSpec

\* What an emit() calls are the listeners of the name at the moment it got the
\* lock, once each and in the order they were registered (gevent.cpp:41-53), as
\* long as nobody uses the empty name.
THEOREM EmitOneInstant == SharedSpec /\ NoEmptyName => []EmitsAtOneInstant
<1>1. WalkInv /\ [SharedNext]_sharedVars => WalkInv'
  BY WalkInvNext
<1> QED BY WalkInvInit, <1>1, WalkOneInstant, PTL DEF SharedSpec
=============================================================================
