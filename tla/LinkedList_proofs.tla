--------------------------- MODULE LinkedList_proofs ---------------------------
(***************************************************************************)
(* Proofs about LinkedList for any sets of lists and items, as long as     *)
(* clients stay out of its corners: Regular leaves them the one that does  *)
(* not touch the pointers, items that do not begin with their Linkable.    *)
(*                                                                         *)
(* IsRinged(r, S) says that the pointers r link the nodes of S, and no     *)
(* others, to rings.  TypeOK, DoublyLinked and NoDangling together say it  *)
(* of the nodes in rings, and are inductive; what detach() and the linking *)
(* in append() do to S is a lemma each.                                    *)
(*                                                                         *)
(* IsRing(r, S, l, s) says that one of the rings is l and the items s in   *)
(* this order.  That every list has such a ring is inductive too: each     *)
(* operation on pointers is one on s, and that one is the operation of     *)
(* ItemLists.  The walks of the accessors are functions defined by         *)
(* recursion; an induction on their steps gives what they find, which is s. *)
(***************************************************************************)
EXTENDS LinkedList, FiniteSetTheorems, WellFoundedInduction, TLAPS

Pointers == [next : [Nodes -> Nodes], prev : [Nodes -> Nodes]]

IsRinged(r, S) ==
  /\ r \in Pointers /\ S \subseteq Nodes
  /\ \A x \in S : /\ r.next[x] \in S /\ r.prev[x] \in S
                  /\ r.next[r.prev[x]] = x /\ r.prev[r.next[x]] = x

\* Clients stay out of the corners that touch the pointers.
Regular == Corners \subseteq {"offset"}
USE DEF Regular

\* The inductive invariant.
Inv == TypeOK /\ DoublyLinked /\ NoDangling

LEMMA InvIsRinged ==
  Inv <=> IsRinged(links, ringed) /\ alive \subseteq Nodes /\ ringed \subseteq alive
BY DEF Inv, TypeOK, DoublyLinked, NoDangling, IsRinged, Pointers

-----------------------------------------------------------------------------
(* What the operations on pointers do to rings.                            *)

\* A ring loses the node that is detached from it.
LEMMA DetachLeaves ==
  ASSUME NEW r, NEW S, NEW x \in S, IsRinged(r, S)
  PROVE  IsRinged(Detach(r, x), S \ {x})
<1> DEFINE d == Detach(r, x)
<1>1. d \in Pointers
  BY DEF IsRinged, Detach, Pointers
<1>2. ASSUME NEW y \in S \ {x}
      PROVE  /\ d.next[y] = IF y = r.prev[x] THEN r.next[x] ELSE r.next[y]
             /\ d.prev[y] = IF y = r.next[x] THEN r.prev[x] ELSE r.prev[y]
  BY DEF IsRinged, Detach, Pointers
<1>3. ASSUME NEW y \in S \ {x}
      PROVE  d.next[y] \in S \ {x} /\ d.prev[y] \in S \ {x}
  BY <1>2 DEF IsRinged
<1>4. ASSUME NEW y \in S \ {x}
      PROVE  d.next[d.prev[y]] = y /\ d.prev[d.next[y]] = y
  BY <1>2, <1>3 DEF IsRinged
<1> QED BY <1>1, <1>3, <1>4 DEF IsRinged

\* A node that is alone is a ring of its own; the others do not need it.
LEMMA AloneLeaves ==
  ASSUME NEW r, NEW S, NEW x, IsRinged(r, S), r.next[x] = x
  PROVE  IsRinged(r, S \ {x})
BY DEF IsRinged

\* A ring gains the node that is linked before one of its nodes.
LEMMA LinkJoins ==
  ASSUME NEW r, NEW S, NEW t \in S, NEW x \in Nodes \ S, IsRinged(r, S)
  PROVE  IsRinged(Link(r, t, x), S \cup {x})
<1> DEFINE d == Link(r, t, x)
<1>1. d \in Pointers
  BY DEF IsRinged, Link, Pointers
<1>2. /\ d.next[x] = t /\ d.prev[x] = r.prev[t]
      /\ d.next[r.prev[t]] = x /\ d.prev[t] = x
  BY DEF IsRinged, Link, Pointers
<1>3. ASSUME NEW y \in S
      PROVE  /\ y # r.prev[t] => d.next[y] = r.next[y]
             /\ y # t => d.prev[y] = r.prev[y]
  BY DEF IsRinged, Link, Pointers
<1>4. ASSUME NEW y \in S \cup {x}
      PROVE  d.next[y] \in S \cup {x} /\ d.prev[y] \in S \cup {x}
  BY <1>2, <1>3 DEF IsRinged
<1>5. ASSUME NEW y \in S \cup {x}
      PROVE  d.next[d.prev[y]] = y /\ d.prev[d.next[y]] = y
  BY <1>2, <1>3 DEF IsRinged
<1> QED BY <1>1, <1>4, <1>5 DEF IsRinged

\* A node that may be detached leaves the rings in order when it is.
LEMMA DetachSafe ==
  ASSUME NEW x, Regular, IsRinged(links, ringed), MayDetach(x)
  PROVE  IsRinged(Detach(links, x), ringed \ {x})
<1>1. CASE x \in ringed
  BY <1>1, DetachLeaves
<1>2. CASE x \notin ringed
  <2>1. Harmless(x)
    BY <1>2 DEF MayDetach
  <2>2. Detach(links, x) = links
    BY <2>1 DEF Harmless, Detach, IsRinged, Pointers
  <2> QED BY <1>2, <2>2 DEF IsRinged
<1> QED BY <1>1, <1>2

\* append() puts the node in the ring, wherever it was.
LEMMA AppendSafe ==
  ASSUME NEW t \in ringed, NEW x \in Nodes, t # x,
         Regular, IsRinged(links, ringed), MayDetach(x)
  PROVE  IsRinged(Appended(t, x), ringed \cup {x})
<1> DEFINE r == IF IsAlone(x) THEN links ELSE Detach(links, x)
<1>1. IsRinged(r, ringed \ {x})
  BY DetachSafe, AloneLeaves DEF IsAlone
<1>2. IsRinged(Link(r, t, x), (ringed \ {x}) \cup {x})
  <2> HIDE DEF r
  <2> QED BY <1>1, LinkJoins
<1>3. (ringed \ {x}) \cup {x} = ringed \cup {x}
  OBVIOUS
<1> QED BY <1>2, <1>3 DEF Appended

-----------------------------------------------------------------------------
(* The invariant.                                                          *)

LEMMA InitInv == Init => Inv
BY DEF Init, Inv, TypeOK, DoublyLinked, NoDangling

\* Each operation is one on the pointers, on links and ringed alike; the rest
\* of the invariant follows from what it does to alive.
LEMMA NextInv ==
  ASSUME Regular, Inv, [Next]_vars
  PROVE  Inv'
<1> SUFFICES IsRinged(links', ringed') /\ alive' \subseteq Nodes
             /\ ringed' \subseteq alive'
  BY DEF Inv, TypeOK, DoublyLinked, NoDangling, IsRinged, Pointers
<1>a. IsRinged(links, ringed) /\ alive \subseteq Nodes /\ ringed \subseteq alive
  BY InvIsRinged
<1>1. ASSUME NEW x \in Nodes, Construct(x)
      PROVE  /\ IsRinged(links', ringed') /\ alive' \subseteq Nodes
             /\ ringed' \subseteq alive'
  BY <1>a, <1>1 DEF Construct, SelfLinked, IsRinged, Pointers
<1>2. ASSUME NEW x \in Nodes, Destroy(x)
      PROVE  /\ IsRinged(links', ringed') /\ alive' \subseteq Nodes
             /\ ringed' \subseteq alive'
  BY <1>a, <1>2, DetachSafe DEF Destroy
<1>3. ASSUME NEW t \in Nodes, NEW x \in Items, AppendTo(t, x)
      PROVE  /\ IsRinged(links', ringed') /\ alive' \subseteq Nodes
             /\ ringed' \subseteq alive'
  BY <1>a, <1>3, AppendSafe DEF AppendTo, Nodes
<1>4. ASSUME NEW l \in Lists, NEW x \in Items, PrependTo(l, x)
      PROVE  /\ IsRinged(links', ringed') /\ alive' \subseteq Nodes
             /\ ringed' \subseteq alive'
  <2>1. l \in Nodes /\ x # l /\ l \in ringed /\ x \in ringed
    BY <1>4, ListAssumption DEF PrependTo, Nodes
  <2>2. IsRinged(Appended(x, l), ringed \cup {l})
    BY <1>a, <2>1, AppendSafe DEF MayDetach
  <2>3. ringed \cup {l} = ringed
    BY <2>1
  <2> QED BY <1>a, <1>4, <2>2, <2>3 DEF PrependTo
<1>5. ASSUME NEW l \in Lists, NEW x \in Items, Remove(l, x)
      PROVE  /\ IsRinged(links', ringed') /\ alive' \subseteq Nodes
             /\ ringed' \subseteq alive'
  BY <1>a, <1>5, DetachSafe DEF Remove
<1>6. CASE UNCHANGED vars
  BY <1>a, <1>6 DEF vars
<1> QED BY <1>1, <1>2, <1>3, <1>4, <1>5, <1>6 DEF Next

LEMMA SpecInv ==
  ASSUME Regular
  PROVE  Spec => []Inv
<1>1. Inv /\ [Next]_vars => Inv'
  BY NextInv
<1> QED BY InitInv, <1>1, PTL DEF Spec

-----------------------------------------------------------------------------
(* Induction.                                                              *)

\* What holds of 0 and goes from each number to the next holds up to N: the
\* least number it did not hold of would have one before it.
LEMMA UpTo ==
  ASSUME NEW N \in Nat, NEW T, 0 \in T, \A n \in 1..N : n - 1 \in T => n \in T
  PROVE  0..N \subseteq T
<1> SUFFICES ASSUME (0..N) \ T # {} PROVE FALSE
  OBVIOUS
<1> DEFINE C == (0..N) \ T
           R == OpToRel(<, Nat)
<1>1. IsWellFoundedOn(R, Nat)
  BY NatLessThanWellFounded
<1>2. \A x, y \in Nat : x < y => <<x, y>> \in R
  BY DEF OpToRel
<1>3. C \subseteq Nat /\ C # {}
  OBVIOUS
<1> HIDE DEF R
<1>4. PICK n \in C : \A m \in C : ~(<<m, n>> \in R)
  <2> HIDE DEF C
  <2> QED BY <1>1, <1>3, WFMin
<1>5. n \in 1..N /\ n - 1 \in Nat /\ n \in Nat /\ n - 1 < n
  BY <1>4
<1>6. <<n - 1, n>> \in R
  BY <1>2, <1>5
<1>7. n - 1 \notin C
  BY <1>4, <1>6
<1>8. n - 1 \in T
  BY <1>5, <1>7
<1> QED BY <1>4, <1>5, <1>8

\* Two walks that begin and go on in the same way.
GoAlike(N, f, g) ==
  f[0] = g[0] /\ \A n \in 1..N : f[n-1] = g[n-1] => f[n] = g[n]

LEMMA SameSteps ==
  ASSUME NEW N \in Nat, NEW f, NEW g, GoAlike(N, f, g)
  PROVE  \A n \in 0..N : f[n] = g[n]
<1> USE DEF GoAlike
<1> DEFINE T == {n \in 0..N : f[n] = g[n]}
<1>1. 0 \in T
  OBVIOUS
<1>2. ASSUME NEW n \in 1..N, n - 1 \in T
      PROVE  n \in T
  <2>1. n \in 0..N
    OBVIOUS
  <2> QED BY <1>2, <2>1
<1>3. 0..N \subseteq T
  <2> HIDE DEF T
  <2> QED BY <1>1, <1>2, UpTo
<1> QED BY <1>3

\* f goes on from a by steps of a function.
GoesOn(N, D, step, a, f) ==
  f \in [0..N -> D] /\ f[0] = a /\ \A n \in 1..N : f[n] = step[f[n-1]]

\* There is such a function.
LEMMA StepsExist ==
  ASSUME NEW N \in Nat, NEW D, NEW step \in [D -> D], NEW a \in D
  PROVE  \E f : GoesOn(N, D, step, a, f)
<1> USE DEF GoesOn
<1> DEFINE Ok(m, f) == f[0] = a /\ \A n \in 1..m : f[n] = step[f[n-1]]
           T == {m \in 0..N : \E f \in [0..m -> D] : Ok(m, f)}
<1>1. 0 \in T
  <2>1. [n \in 0..0 |-> a] \in [0..0 -> D] /\ Ok(0, [n \in 0..0 |-> a])
    OBVIOUS
  <2>2. \E f \in [0..0 -> D] : Ok(0, f)
    BY <2>1
  <2> QED BY <2>2
<1>2. ASSUME NEW m \in 1..N, m - 1 \in T
      PROVE  m \in T
  <2>1. PICK f \in [0..(m-1) -> D] : Ok(m - 1, f)
    BY <1>2
  <2> DEFINE g == [n \in 0..m |-> IF n = m THEN step[f[m-1]] ELSE f[n]]
  <2>2. f[m-1] \in D /\ step[f[m-1]] \in D
    BY <2>1
  <2>3. g \in [0..m -> D]
    BY <2>1, <2>2
  <2>4. g[0] = a
    BY <2>1
  <2>5. ASSUME NEW n \in 1..m PROVE g[n] = step[g[n-1]]
    <3>1. CASE n = m
      BY <3>1
    <3>2. CASE n # m
      BY <2>1, <3>2
    <3> QED BY <3>1, <3>2
  <2>6. \E h \in [0..m -> D] : Ok(m, h)
    <3> HIDE DEF g
    <3> QED BY <2>3, <2>4, <2>5
  <2>7. m \in 0..N
    OBVIOUS
  <2> QED BY <2>6, <2>7
<1>3. 0..N \subseteq T
  <2> HIDE DEF T
  <2> QED BY <1>1, <1>2, UpTo
<1> QED BY <1>3

-----------------------------------------------------------------------------
(* The ring of a list.                                                     *)

\* The i-th node of the ring of l with the items s: l comes before the first
\* and after the last.
Nth(l, s, i) == IF i \in 1..Len(s) THEN s[i] ELSE l

\* The pointers r link l and the items s, of S, in this order.
IsRing(r, S, l, s) ==
  /\ s \in Seq(Items) /\ \A i \in 1..Len(s) : s[i] \in S
  /\ \A i \in 0..Len(s) : r.next[Nth(l, s, i)] = Nth(l, s, i + 1)
  /\ \A i, j \in 1..Len(s) : s[i] = s[j] => i = j

\* What the accessors make of it, for items that begin with their Linkable.
LEMMA RingFacts ==
  ASSUME Corners = {}, NEW l \in Lists \cap ringed, NEW s, IsRinged(links, ringed),
         IsRing(links, ringed, l, s)
  PROVE  /\ Len(s) \in Nat /\ Len(s) <= Cardinality(Items) /\ Cardinality(Items) \in Nat
         /\ \A i \in 1..Len(s) : s[i] \in Items /\ s[i] # l /\ s[i] # NULL
         /\ \A i \in 1..Len(s) + 1 : links.prev[Nth(l, s, i)] = Nth(l, s, i - 1)
         /\ NextOf(l, NULL) = IF Len(s) = 0 THEN NULL ELSE s[1]
         /\ PrevOf(l, NULL) = IF Len(s) = 0 THEN NULL ELSE s[Len(s)]
         /\ \A i \in 1..Len(s) : NextOf(l, s[i]) = IF i = Len(s) THEN NULL ELSE s[i + 1]
         /\ \A i \in 1..Len(s) : PrevOf(l, s[i]) = IF i = 1 THEN NULL ELSE s[i - 1]
<1>1. Len(s) \in Nat /\ \A i \in 1..Len(s) : s[i] \in Items /\ s[i] # l /\ s[i] # NULL
  BY ListAssumption DEF IsRing, Nodes
<1>2. Len(s) <= Cardinality(Items) /\ Cardinality(Items) \in Nat
  <2>1. s \in Injection(1..Len(s), Items)
    BY <1>1 DEF IsRing, Injection, IsInjective
  <2>2. Cardinality(1..Len(s)) <= Cardinality(Items) /\ Cardinality(Items) \in Nat
    BY <2>1, FS_Injection, FS_CardinalityType, ListAssumption
  <2>3. Cardinality(1..Len(s)) = Len(s)
    <3>1. 1 \in Int /\ Len(s) \in Int
      BY <1>1
    <3>2. Cardinality(1..Len(s)) = IF 1 > Len(s) THEN 0 ELSE Len(s) - 1 + 1
      BY <3>1, FS_Interval, Zenon
    <3> QED BY <1>1, <3>2
  <2> QED BY <2>2, <2>3
<1>3. \A i \in 0..Len(s) : Nth(l, s, i) \in ringed
  BY <1>1 DEF IsRing, Nth
<1>4. ASSUME NEW i \in 1..Len(s) + 1
      PROVE  links.prev[Nth(l, s, i)] = Nth(l, s, i - 1)
  <2>1. i - 1 \in 0..Len(s) /\ i - 1 + 1 = i
    BY <1>1
  <2>2. links.next[Nth(l, s, i - 1)] = Nth(l, s, i)
    BY <2>1 DEF IsRing
  <2> QED BY <2>1, <2>2, <1>3 DEF IsRinged
<1>5. l \in Nodes /\ l # NULL
  BY ListAssumption DEF Nodes
<1>6. links.next[l] = Nth(l, s, 1) /\ links.prev[l] = Nth(l, s, Len(s))
  <2>1. Nth(l, s, 0) = l /\ Nth(l, s, Len(s) + 1) = l /\ 0 \in 0..Len(s)
        /\ Len(s) + 1 \in 1..Len(s) + 1 /\ Len(s) + 1 - 1 = Len(s)
    BY <1>1 DEF Nth
  <2> QED BY <2>1, <1>4 DEF IsRing
<1>7. NextOf(l, NULL) = IF Len(s) = 0 THEN NULL ELSE s[1]
  BY <1>1, <1>5, <1>6 DEF NextOf, First, IsEnd, IsAlone, Nth
<1>8. PrevOf(l, NULL) = IF Len(s) = 0 THEN NULL ELSE s[Len(s)]
  BY <1>1, <1>5, <1>6 DEF PrevOf, Last, IsEnd, IsAlone, Nth
<1>9. ASSUME NEW i \in 1..Len(s)
      PROVE  NextOf(l, s[i]) = IF i = Len(s) THEN NULL ELSE s[i + 1]
  <2>1. links.next[s[i]] = Nth(l, s, i + 1)
    BY <1>1 DEF IsRing, Nth
  <2> QED BY <1>1, <2>1 DEF NextOf, IsEnd, Nth
<1>10. ASSUME NEW i \in 1..Len(s)
       PROVE  PrevOf(l, s[i]) = IF i = 1 THEN NULL ELSE s[i - 1]
  <2>1. links.prev[s[i]] = Nth(l, s, i - 1)
    BY <1>1, <1>4 DEF Nth
  <2> QED BY <1>1, <2>1 DEF PrevOf, IsEnd, Nth
<1> QED BY <1>1, <1>2, <1>4, <1>7, <1>8, <1>9, <1>10

\* The walk with next_of() meets the items of the ring in order and ends: the
\* n-th step of it is written down, and both go on from step to step alike.
LEMMA ForwardIs ==
  ASSUME Corners = {}, NEW l \in Lists \cap ringed, NEW s, IsRinged(links, ringed),
         IsRing(links, ringed, l, s)
  PROVE  Forward(l) = [seen |-> s, at |-> NULL]
<1> DEFINE N == Cardinality(Items)
           step(w) == IF w.at = NULL THEN w
                      ELSE [seen |-> w.seen \o <<w.at>>, at |-> NextOf(l, w.at)]
           IsWalk(w) == w = [n \in 0..N |->
             IF n = 0 THEN [seen |-> <<>>, at |-> NextOf(l, NULL)]
             ELSE step(w[n - 1])]
           walk == CHOOSE w : IsWalk(w)
           g == [n \in 0..N |->
                  IF n < Len(s) THEN [seen |-> SubSeq(s, 1, n), at |-> s[n + 1]]
                  ELSE [seen |-> s, at |-> NULL]]
<1>1. Forward(l) = walk[N]
  BY DEF Forward
<1>a. /\ N \in Nat /\ Len(s) \in 0..N /\ s \in Seq(Items)
      /\ \A i \in 1..Len(s) : s[i] # NULL
  BY RingFacts DEF IsRing
<1>2. g[0] = [seen |-> <<>>, at |-> NextOf(l, NULL)]
  <2>1. NextOf(l, NULL) = IF Len(s) = 0 THEN NULL ELSE s[1]
    BY RingFacts
  <2>2. SubSeq(s, 1, 0) = <<>> /\ (Len(s) = 0 => s = <<>>)
    BY <1>a
  <2> QED BY <1>a, <2>1, <2>2
<1>3. ASSUME NEW n \in 1..N
      PROVE  g[n] = step(g[n - 1])
  <2>1. n \in 0..N /\ n - 1 \in 0..N
    BY <1>a
  <2>2. CASE n <= Len(s)
    <3>1. g[n - 1] = [seen |-> SubSeq(s, 1, n - 1), at |-> s[n]] /\ s[n] # NULL
      BY <1>a, <2>1, <2>2
    <3>2. NextOf(l, s[n]) = IF n = Len(s) THEN NULL ELSE s[n + 1]
      BY <1>a, <2>2, RingFacts
    <3>3. SubSeq(s, 1, n - 1) \o <<s[n]>> = SubSeq(s, 1, n)
      BY <1>a, <2>2
    <3>4. n = Len(s) => SubSeq(s, 1, n) = s
      BY <1>a
    <3>5. step(g[n - 1]) = [seen |-> SubSeq(s, 1, n), at |-> NextOf(l, s[n])]
      <4> HIDE DEF g
      <4> QED BY <3>1, <3>3
    <3>6. g[n] = [seen |-> SubSeq(s, 1, n), at |-> NextOf(l, s[n])]
      BY <1>a, <2>1, <2>2, <3>2, <3>4
    <3> HIDE DEF g, step
    <3> QED BY <3>5, <3>6
  <2>3. CASE n > Len(s)
    BY <1>a, <2>1, <2>3
  <2>4. n <= Len(s) \/ n > Len(s)
    BY <1>a
  <2> QED BY <2>2, <2>3, <2>4, Zenon
<1>4. IsWalk(g)
  <2> SUFFICES ASSUME NEW n \in 0..N
               PROVE  g[n] = IF n = 0 THEN [seen |-> <<>>, at |-> NextOf(l, NULL)]
                             ELSE step(g[n - 1])
    OBVIOUS
  <2>1. n = 0 \/ n \in 1..N
    BY <1>a
  <2> HIDE DEF g, step
  <2> QED BY <1>2, <1>3, <2>1
<1>5. IsWalk(walk)
  <2> HIDE DEF IsWalk
  <2> QED BY <1>4
<1>6. walk = g
  <2>1. walk = [n \in 0..N |-> IF n = 0 THEN [seen |-> <<>>, at |-> NextOf(l, NULL)]
                               ELSE step(walk[n - 1])]
    <3> HIDE DEF walk, step
    <3> QED BY <1>5
  <2>2. walk = [n \in 0..N |-> walk[n]] /\ g = [n \in 0..N |-> g[n]]
    <3> HIDE DEF walk, step
    <3> QED BY <2>1
  <2>3. walk[0] = g[0] /\ \A n \in 1..N : walk[n] = step(walk[n - 1])
    <3> HIDE DEF walk, step, g
    <3> QED BY <1>a, <1>2, <2>1
  <2>4. \A n \in 1..N : walk[n - 1] = g[n - 1] => walk[n] = g[n]
    <3> HIDE DEF walk, g, step
    <3> QED BY <1>3, <2>3
  <2> HIDE DEF walk, g, step
  <2>5. \A n \in 0..N : walk[n] = g[n]
    <3> HIDE DEF N
    <3>1. GoAlike(N, walk, g)
      BY <2>3, <2>4 DEF GoAlike
    <3> QED BY <1>a, <3>1, SameSteps
  <2> QED BY <2>2, <2>5
<1>7. g[N] = [seen |-> s, at |-> NULL]
  BY <1>a
<1> QED BY <1>1, <1>6, <1>7

\* So does the one with prev_of(), from the last.
LEMMA BackwardIs ==
  ASSUME Corners = {}, NEW l \in Lists \cap ringed, NEW s, IsRinged(links, ringed),
         IsRing(links, ringed, l, s)
  PROVE  Backward(l) = [seen |-> s, at |-> NULL]
<1> DEFINE N == Cardinality(Items)
           step(w) == IF w.at = NULL THEN w
                      ELSE [seen |-> <<w.at>> \o w.seen, at |-> PrevOf(l, w.at)]
           IsWalk(w) == w = [n \in 0..N |->
             IF n = 0 THEN [seen |-> <<>>, at |-> PrevOf(l, NULL)]
             ELSE step(w[n - 1])]
           walk == CHOOSE w : IsWalk(w)
           g == [n \in 0..N |->
                  IF n < Len(s) THEN [seen |-> SubSeq(s, Len(s) - n + 1, Len(s)), at |-> s[Len(s) - n]]
                  ELSE [seen |-> s, at |-> NULL]]
<1>1. Backward(l) = walk[N]
  BY DEF Backward
<1>a. /\ N \in Nat /\ Len(s) \in 0..N /\ s \in Seq(Items)
      /\ \A i \in 1..Len(s) : s[i] # NULL
  BY RingFacts DEF IsRing
<1>2. g[0] = [seen |-> <<>>, at |-> PrevOf(l, NULL)]
  <2>1. PrevOf(l, NULL) = IF Len(s) = 0 THEN NULL ELSE s[Len(s)]
    BY RingFacts
  <2>2. SubSeq(s, Len(s) + 1, Len(s)) = <<>> /\ (Len(s) = 0 => s = <<>>)
    BY <1>a
  <2> QED BY <1>a, <2>1, <2>2
<1>3. ASSUME NEW n \in 1..N
      PROVE  g[n] = step(g[n - 1])
  <2>1. n \in 0..N /\ n - 1 \in 0..N
    BY <1>a
  <2>2. CASE n <= Len(s)
    <3> DEFINE k == Len(s) - n + 1
    <3>0. k \in 1..Len(s) /\ Len(s) - (n - 1) = k /\ (k = 1 <=> n = Len(s))
          /\ Len(s) - (n - 1) + 1 = k + 1 /\ k - 1 = Len(s) - n
      BY <1>a, <2>2
    <3>1. g[n - 1] = [seen |-> SubSeq(s, k + 1, Len(s)), at |-> s[k]] /\ s[k] # NULL
      <4>1. g[n - 1] = [seen |-> SubSeq(s, Len(s) - (n - 1) + 1, Len(s)),
                        at |-> s[Len(s) - (n - 1)]]
        BY <1>a, <2>1, <2>2
      <4> HIDE DEF g, k
      <4> QED BY <1>a, <3>0, <4>1
    <3>2. PrevOf(l, s[k]) = IF k = 1 THEN NULL ELSE s[k - 1]
      <4> HIDE DEF k
      <4> QED BY <3>0, RingFacts
    <3>3. <<s[k]>> \o SubSeq(s, k + 1, Len(s)) = SubSeq(s, k, Len(s))
      <4> HIDE DEF k
      <4> QED BY <1>a, <3>0
    <3>4. k = 1 => SubSeq(s, k, Len(s)) = s
      BY <1>a
    <3>5. step(g[n - 1]) = [seen |-> SubSeq(s, k, Len(s)), at |-> PrevOf(l, s[k])]
      <4> HIDE DEF g, k
      <4>1. step(g[n - 1]) = [seen |-> <<s[k]>> \o SubSeq(s, k + 1, Len(s)),
                              at |-> PrevOf(l, s[k])]
        BY <3>1
      <4> HIDE DEF step
      <4> QED BY <4>1, <3>3
    <3>6. g[n] = [seen |-> SubSeq(s, k, Len(s)), at |-> PrevOf(l, s[k])]
      <4>1. g[n] = IF n < Len(s) THEN [seen |-> SubSeq(s, k, Len(s)), at |-> s[k - 1]]
                   ELSE [seen |-> s, at |-> NULL]
        BY <1>a, <2>1, <3>0
      <4> HIDE DEF g, k
      <4>2. CASE n = Len(s)
        BY <1>a, <3>0, <3>2, <3>4, <4>1, <4>2
      <4>3. CASE n < Len(s)
        <5>1. k # 1
          BY <1>a, <3>0, <4>3
        <5> QED BY <3>2, <4>1, <4>3, <5>1
      <4> QED BY <1>a, <2>2, <4>2, <4>3
    <3> HIDE DEF g, step
    <3> QED BY <3>5, <3>6
  <2>3. CASE n > Len(s)
    BY <1>a, <2>1, <2>3
  <2>4. n <= Len(s) \/ n > Len(s)
    BY <1>a
  <2> QED BY <2>2, <2>3, <2>4, Zenon
<1>4. IsWalk(g)
  <2> SUFFICES ASSUME NEW n \in 0..N
               PROVE  g[n] = IF n = 0 THEN [seen |-> <<>>, at |-> PrevOf(l, NULL)]
                             ELSE step(g[n - 1])
    OBVIOUS
  <2>1. n = 0 \/ n \in 1..N
    BY <1>a
  <2> HIDE DEF g, step
  <2> QED BY <1>2, <1>3, <2>1
<1>5. IsWalk(walk)
  <2> HIDE DEF IsWalk
  <2> QED BY <1>4
<1>6. walk = g
  <2>1. walk = [n \in 0..N |-> IF n = 0 THEN [seen |-> <<>>, at |-> PrevOf(l, NULL)]
                               ELSE step(walk[n - 1])]
    <3> HIDE DEF walk, step
    <3> QED BY <1>5
  <2>2. walk = [n \in 0..N |-> walk[n]] /\ g = [n \in 0..N |-> g[n]]
    <3> HIDE DEF walk, step
    <3> QED BY <2>1
  <2>3. walk[0] = g[0] /\ \A n \in 1..N : walk[n] = step(walk[n - 1])
    <3> HIDE DEF walk, step, g
    <3> QED BY <1>a, <1>2, <2>1
  <2>4. \A n \in 1..N : walk[n - 1] = g[n - 1] => walk[n] = g[n]
    <3> HIDE DEF walk, g, step
    <3> QED BY <1>3, <2>3
  <2> HIDE DEF walk, g, step
  <2>5. \A n \in 0..N : walk[n] = g[n]
    <3> HIDE DEF N
    <3>1. GoAlike(N, walk, g)
      BY <2>3, <2>4 DEF GoAlike
    <3> QED BY <1>a, <3>1, SameSteps
  <2> QED BY <2>2, <2>5
<1>7. g[N] = [seen |-> s, at |-> NULL]
  BY <1>a
<1> QED BY <1>1, <1>6, <1>7

\* length() comes back to the list after as many steps as there are items.
LEMMA LengthIs ==
  ASSUME Corners = {}, NEW l \in Lists \cap ringed, NEW s, IsRinged(links, ringed),
         IsRing(links, ringed, l, s)
  PROVE  Length(l) = Len(s)
<1> DEFINE N == Cardinality(Items)
           IsAt(f) == f = [n \in 0..N |-> IF n = 0 THEN links.next[l]
                                          ELSE links.next[f[n - 1]]]
           at == CHOOSE f : IsAt(f)
           ends == {n \in 0..N : at[n] = l}
<1>1. Length(l) = IF ends = {} THEN N + 1
                  ELSE CHOOSE n \in ends : \A m \in ends : n <= m
  BY DEF Length
<1>2. /\ N \in Nat /\ Len(s) \in 0..N /\ Len(s) \in Nat
      /\ \A i \in 1..Len(s) : s[i] # l
  BY RingFacts
<1>3. \E f : IsAt(f)
  <2>1. links.next \in [Nodes -> Nodes] /\ links.next[l] \in Nodes
    BY DEF IsRinged, Pointers, Nodes
  <2>2. PICK f \in [0..N -> Nodes] :
          f[0] = links.next[l] /\ \A n \in 1..N : f[n] = links.next[f[n - 1]]
    <3> DEFINE step == links.next
               a == links.next[l]
    <3>1. step \in [Nodes -> Nodes] /\ a \in Nodes
      BY <2>1
    <3> HIDE DEF N, step, a
    <3>2. \E f : GoesOn(N, Nodes, step, a, f)
      BY <1>2, <3>1, StepsExist
    <3> QED BY <3>2 DEF step, a, GoesOn
  <2>3. ASSUME NEW n \in 0..N
        PROVE  f[n] = IF n = 0 THEN links.next[l] ELSE links.next[f[n - 1]]
    <3>1. n = 0 \/ n \in 1..N
      BY <1>2
    <3> QED BY <2>2, <3>1
  <2>4. IsAt(f)
    <3> HIDE DEF N
    <3> QED BY <2>2, <2>3
  <2> QED BY <2>4
<1>4. IsAt(at)
  <2> HIDE DEF IsAt
  <2> QED BY <1>3
<1>5. \A n \in 0..N : at[n] = IF n = 0 THEN links.next[l] ELSE links.next[at[n - 1]]
  <2> HIDE DEF at, N
  <2> QED BY <1>4
<1> HIDE DEF at, N
<1>6. \A n \in 0..Len(s) : at[n] = Nth(l, s, n + 1)
  <2> DEFINE T == {n \in 0..Len(s) : at[n] = Nth(l, s, n + 1)}
  <2>1. \A i \in 0..Len(s) : links.next[Nth(l, s, i)] = Nth(l, s, i + 1)
    BY DEF IsRing
  <2>2. 0 \in T
    <3>1. Nth(l, s, 0) = l /\ 0 \in 0..Len(s) /\ 0 \in 0..N
      BY <1>2 DEF Nth
    <3> QED BY <1>5, <2>1, <3>1
  <2>3. ASSUME NEW n \in 1..Len(s), n - 1 \in T
        PROVE  n \in T
    <3>1. n \in 0..Len(s) /\ n \in 0..N /\ n # 0 /\ n - 1 + 1 = n
      BY <1>2
    <3>2. at[n] = links.next[Nth(l, s, n)]
      BY <1>5, <2>3, <3>1
    <3> QED BY <2>1, <3>1, <3>2
  <2>4. 0..Len(s) \subseteq T
    <3> HIDE DEF T
    <3> QED BY <1>2, <2>2, <2>3, UpTo
  <2> QED BY <2>4
<1>7. Len(s) \in ends
  <2>1. at[Len(s)] = Nth(l, s, Len(s) + 1)
    BY <1>2, <1>6
  <2>2. Nth(l, s, Len(s) + 1) = l
    BY <1>2 DEF Nth
  <2> QED BY <1>2, <2>1, <2>2
<1>8. ASSUME NEW n \in ends PROVE n \in Nat /\ Len(s) <= n
  <2>1. n \in Nat
    BY <1>2
  <2>2. ~(n < Len(s))
    <3> SUFFICES ASSUME n < Len(s) PROVE FALSE
      OBVIOUS
    <3>1. n \in 0..Len(s) /\ n + 1 \in 1..Len(s)
      BY <1>2, <2>1
    <3>2. at[n] = s[n + 1]
      BY <1>6, <3>1 DEF Nth
    <3> QED BY <1>2, <3>1, <3>2
  <2> QED BY <1>2, <2>1, <2>2
<1>9. ASSUME NEW n \in ends, \A m \in ends : n <= m
      PROVE  n = Len(s)
  <2> HIDE DEF ends
  <2> QED BY <1>2, <1>7, <1>8, <1>9
<1> HIDE DEF ends
<1>10. (CHOOSE n \in ends : \A m \in ends : n <= m) = Len(s)
  BY <1>7, <1>8, <1>9
<1> QED BY <1>1, <1>7, <1>10

-----------------------------------------------------------------------------
(* The operations of the abstract lists, item by item.                     *)

Removed(s, k) == [i \in 1..Len(s) - 1 |-> IF i < k THEN s[i] ELSE s[i + 1]]
Inserted(s, k, x) ==
  [i \in 1..Len(s) + 1 |-> IF i < k THEN s[i] ELSE IF i = k THEN x ELSE s[i - 1]]

Distinct(s) == \A i, j \in 1..Len(s) : s[i] = s[j] => i = j

\* Where an item is, and what the list is without it or with another before.
LEMMA PlaceIs ==
  ASSUME NEW s \in Seq(Items), Distinct(s), NEW k \in 1..Len(s)
  PROVE  Abstract!Has(s, s[k]) /\ Abstract!Place(s, s[k]) = k
<1>1. DOMAIN s = 1..Len(s)
  OBVIOUS
<1>2. Abstract!Has(s, s[k])
  BY <1>1 DEF Abstract!Has
<1>3. \A i \in DOMAIN s : s[i] = s[k] => i = k
  BY <1>1 DEF Distinct
<1>4. (CHOOSE i \in DOMAIN s : s[i] = s[k]) = k
  BY <1>1, <1>3
<1> QED BY <1>2, <1>4 DEF Abstract!Place

LEMMA WithoutIs ==
  ASSUME NEW s \in Seq(Items), Distinct(s), NEW k \in 1..Len(s)
  PROVE  Abstract!Without(s, s[k]) = Removed(s, k)
<1>1. Abstract!Without(s, s[k]) = SubSeq(s, 1, k - 1) \o SubSeq(s, k + 1, Len(s))
  BY PlaceIs DEF Abstract!Without
<1>2. SubSeq(s, 1, k - 1) \o SubSeq(s, k + 1, Len(s)) = Removed(s, k)
  <2> DEFINE u == SubSeq(s, 1, k - 1)
             v == SubSeq(s, k + 1, Len(s))
  <2>1. /\ u \in Seq(Items) /\ Len(u) = k - 1
        /\ \A i \in 1..k - 1 : u[i] = s[i]
    OBVIOUS
  <2>2. /\ v \in Seq(Items) /\ Len(v) = Len(s) - k
        /\ \A i \in 1..Len(s) - k : v[i] = s[i + k]
    OBVIOUS
  <2> HIDE DEF u, v
  <2>3. u \o v \in Seq(Items) /\ Len(u \o v) = Len(s) - 1
    BY <2>1, <2>2
  <2>4. ASSUME NEW i \in 1..Len(s) - 1
        PROVE  (u \o v)[i] = IF i < k THEN s[i] ELSE s[i + 1]
    <3>1. CASE i < k
      BY <2>1, <2>2, <3>1
    <3>2. CASE i >= k
      <4>1. (u \o v)[i] = v[i - (k - 1)]
        BY <2>1, <2>2, <3>2
      <4>2. i - (k - 1) \in 1..Len(s) - k /\ i - (k - 1) + k = i + 1
        BY <3>2
      <4> QED BY <2>2, <3>2, <4>1, <4>2
    <3>3. i < k \/ i >= k
      OBVIOUS
    <3> QED BY <3>1, <3>2, <3>3, Zenon
  <2> DEFINE w == u \o v
  <2>5. w = [i \in 1..Len(s) - 1 |-> w[i]]
    <3>1. w \in Seq(Items) /\ Len(w) = Len(s) - 1
      BY <2>3
    <3> HIDE DEF w
    <3> QED BY <3>1
  <2> HIDE DEF w
  <2>6. w = Removed(s, k)
    BY <2>4, <2>5 DEF Removed, w
  <2> QED BY <2>6 DEF u, v, w
<1> QED BY <1>1, <1>2

LEMMA BeforeIs ==
  ASSUME NEW s \in Seq(Items), Distinct(s), NEW k \in 1..Len(s), NEW x \in Items
  PROVE  Abstract!Before(s, s[k], x) = Inserted(s, k, x)
<1>1. Abstract!Before(s, s[k], x)
        = SubSeq(s, 1, k - 1) \o <<x>> \o SubSeq(s, k, Len(s))
  BY PlaceIs DEF Abstract!Before
<1>2. SubSeq(s, 1, k - 1) \o <<x>> \o SubSeq(s, k, Len(s)) = Inserted(s, k, x)
  BY DEF Inserted
<1> QED BY <1>1, <1>2

LEMMA AtEndIs ==
  ASSUME NEW s \in Seq(Items), NEW x \in Items
  PROVE  s \o <<x>> = Inserted(s, Len(s) + 1, x)
BY DEF Inserted

LEMMA NotThereIs ==
  ASSUME NEW s \in Seq(Items), NEW x, \A i \in 1..Len(s) : s[i] # x
  PROVE  ~Abstract!Has(s, x) /\ Abstract!Without(s, x) = s
BY DEF Abstract!Has, Abstract!Without

-----------------------------------------------------------------------------
(* What the operations on pointers do to the ring of a list.               *)

\* The forward pointers after detach() and after linking.
LEMMA DetachNext ==
  ASSUME NEW r \in Pointers, NEW x \in Nodes, NEW y \in Nodes
  PROVE  Detach(r, x).next[y] = IF y = r.prev[x] THEN r.next[x] ELSE r.next[y]
BY DEF Pointers, Detach

LEMMA LinkNext ==
  ASSUME NEW r \in Pointers, NEW t \in Nodes, NEW x \in Nodes, NEW y \in Nodes
  PROVE  Link(r, t, x).next[y] = IF y = r.prev[t] THEN x
                                 ELSE IF y = x THEN t ELSE r.next[y]
BY DEF Pointers, Link

\* A ring whose nodes point on as they did is as it was.
LEMMA SameRing ==
  ASSUME NEW r, NEW S, NEW d, NEW T, NEW l, NEW s, IsRing(r, S, l, s),
         \A i \in 0..Len(s) : d.next[Nth(l, s, i)] = r.next[Nth(l, s, i)],
         \A i \in 1..Len(s) : s[i] \in T
  PROVE  IsRing(d, T, l, s)
BY DEF IsRing

\* A node of a ring is one of its items or the list, and the only one there.
LEMMA NthIs ==
  ASSUME NEW r, NEW S, NEW l \in Lists, NEW s, IsRing(r, S, l, s)
  PROVE  /\ Len(s) \in Nat /\ Nth(l, s, 0) = l /\ Nth(l, s, Len(s) + 1) = l
         /\ \A i \in 1..Len(s) : Nth(l, s, i) = s[i] /\ s[i] \in Items /\ s[i] # l
         /\ \A i, j \in 0..Len(s) : Nth(l, s, i) = Nth(l, s, j) => i = j
<1>1. Len(s) \in Nat /\ Nth(l, s, 0) = l /\ Nth(l, s, Len(s) + 1) = l
  BY DEF IsRing, Nth
<1>2. \A i \in 1..Len(s) : Nth(l, s, i) = s[i] /\ s[i] \in Items /\ s[i] # l
  BY <1>1, ListAssumption DEF IsRing, Nth
<1>3. ASSUME NEW i \in 0..Len(s), NEW j \in 0..Len(s), Nth(l, s, i) = Nth(l, s, j)
      PROVE  i = j
  <2>1. (i = 0 \/ i \in 1..Len(s)) /\ (j = 0 \/ j \in 1..Len(s))
    BY <1>1
  <2>2. \A h, k \in 1..Len(s) : s[h] = s[k] => h = k
    BY DEF IsRing
  <2> QED BY <1>1, <1>2, <1>3, <2>1, <2>2
<1> QED BY <1>1, <1>2, <1>3

\* A list loses the item that is detached, and only it.
LEMMA RingLoses ==
  ASSUME NEW r, NEW S, NEW l \in Lists \cap S, NEW s, NEW k \in 1..Len(s),
         IsRinged(r, S), IsRing(r, S, l, s)
  PROVE  IsRing(Detach(r, s[k]), S \ {s[k]}, l, Removed(s, k))
<1> DEFINE x == s[k]
           d == Detach(r, x)
           t == Removed(s, k)
<1>1. /\ Len(s) \in Nat
      /\ \A i \in 1..Len(s) : s[i] \in Items /\ s[i] \in S
      /\ \A i, j \in 1..Len(s) : s[i] = s[j] => i = j
  BY NthIs DEF IsRing
<1>2. /\ Len(t) = Len(s) - 1 /\ Len(t) \in Nat /\ t \in Seq(Items)
      /\ \A i \in 1..Len(t) : t[i] = IF i < k THEN s[i] ELSE s[i + 1]
  <2>1. Len(s) - 1 \in Nat
    BY <1>1
  <2>2. \A i \in 1..Len(s) - 1 : (IF i < k THEN s[i] ELSE s[i + 1]) \in Items
    BY <1>1
  <2>3. t \in [1..Len(s) - 1 -> Items]
    BY <2>2 DEF Removed
  <2>4. t \in Seq(Items)
    <3> HIDE DEF t
    <3> QED BY <2>1, <2>3
  <2>5. Len(t) = Len(s) - 1
    <3> HIDE DEF t
    <3> QED BY <2>1, <2>3, <2>4
  <2> QED BY <2>1, <2>4, <2>5 DEF Removed
<1>3. ASSUME NEW i \in 0..Len(s)
      PROVE  Nth(l, t, i) = IF i < k THEN Nth(l, s, i) ELSE Nth(l, s, i + 1)
  BY <1>1, <1>2 DEF Nth
<1>4. \A i \in 1..Len(t) : t[i] \in S \ {x}
  BY <1>1, <1>2
<1>5. \A i, j \in 1..Len(t) : t[i] = t[j] => i = j
  BY <1>1, <1>2
<1>6. /\ \A i \in 0..Len(s) : r.next[Nth(l, s, i)] = Nth(l, s, i + 1)
      /\ \A i \in 0..Len(s) : Nth(l, s, i) \in S
  BY <1>1 DEF IsRing, Nth
<1>7. /\ x \in S /\ Nth(l, s, k) = x /\ r.next[Nth(l, s, k - 1)] = x
      /\ r.prev[x] = Nth(l, s, k - 1)
  <2>1. k - 1 \in 0..Len(s) /\ k - 1 + 1 = k /\ Nth(l, s, k) = x /\ x \in S
    BY <1>1 DEF Nth
  <2>2. r.next[Nth(l, s, k - 1)] = x /\ Nth(l, s, k - 1) \in S
    BY <1>6, <2>1
  <2> QED BY <2>1, <2>2 DEF IsRinged
<1>8. ASSUME NEW y \in S
      PROVE  d.next[y] = IF y = r.prev[x] THEN r.next[x] ELSE r.next[y]
  BY <1>7, DetachNext DEF IsRinged
<1>9. ASSUME NEW i \in 0..Len(t)
      PROVE  d.next[Nth(l, t, i)] = Nth(l, t, i + 1)
  <2>1. i \in 0..Len(s) /\ i + 1 \in 0..Len(s) /\ k - 1 \in 0..Len(s) /\ k \in 0..Len(s)
    BY <1>1, <1>2
  <2>2. \A h, j \in 0..Len(s) : Nth(l, s, h) = Nth(l, s, j) => h = j
    BY NthIs
  <2> HIDE DEF d, t
  <2>3. CASE i < k - 1
    <3>1. Nth(l, t, i) = Nth(l, s, i) /\ Nth(l, t, i + 1) = Nth(l, s, i + 1)
      BY <1>1, <1>3, <2>1, <2>3
    <3>2. Nth(l, s, i) # Nth(l, s, k - 1)
      BY <2>1, <2>2, <2>3
    <3> QED BY <1>6, <1>7, <1>8, <2>1, <3>1, <3>2
  <2>4. CASE i = k - 1
    <3>1. Nth(l, t, i) = Nth(l, s, k - 1) /\ Nth(l, t, i + 1) = Nth(l, s, k + 1)
      BY <1>1, <1>3, <2>1, <2>4
    <3>2. r.next[x] = Nth(l, s, k + 1)
      BY <1>6, <1>7, <2>1
    <3> QED BY <1>6, <1>7, <1>8, <2>1, <3>1, <3>2
  <2>5. CASE i >= k
    <3>1. Nth(l, t, i) = Nth(l, s, i + 1) /\ Nth(l, t, i + 1) = Nth(l, s, i + 2)
      BY <1>1, <1>2, <1>3, <2>1, <2>5
    <3>2. Nth(l, s, i + 1) # Nth(l, s, k - 1)
      BY <1>1, <2>1, <2>2, <2>5
    <3>3. r.next[Nth(l, s, i + 1)] = Nth(l, s, i + 2)
      <4>1. i + 1 + 1 = i + 2
        BY <2>1
      <4> QED BY <1>6, <2>1, <4>1
    <3> QED BY <1>6, <1>7, <1>8, <2>1, <3>1, <3>2, <3>3
  <2> QED BY <1>1, <2>1, <2>3, <2>4, <2>5
<1> HIDE DEF t, d
<1> QED BY <1>2, <1>4, <1>5, <1>9 DEF IsRing, t, d

\* A list gains the item that is linked before its k-th node, at that place.
LEMMA RingGains ==
  ASSUME NEW r, NEW S, NEW l \in Lists \cap S, NEW s, NEW k \in 1..Len(s) + 1,
         NEW x \in Items \ S, IsRinged(r, S), IsRing(r, S, l, s)
  PROVE  IsRing(Link(r, Nth(l, s, k), x), S \cup {x}, l, Inserted(s, k, x))
<1> DEFINE d == Link(r, Nth(l, s, k), x)
           t == Inserted(s, k, x)
<1>1. /\ Len(s) \in Nat
      /\ \A i \in 1..Len(s) : s[i] \in Items /\ s[i] \in S /\ s[i] # x
      /\ \A i, j \in 1..Len(s) : s[i] = s[j] => i = j
  BY NthIs DEF IsRing
<1>2. /\ Len(t) = Len(s) + 1 /\ Len(t) \in Nat /\ t \in Seq(Items)
      /\ \A i \in 1..Len(t) : t[i] = IF i < k THEN s[i]
                                     ELSE IF i = k THEN x ELSE s[i - 1]
  <2>1. Len(s) + 1 \in Nat
    BY <1>1
  <2>2. ASSUME NEW i \in 1..Len(s) + 1
        PROVE  (IF i < k THEN s[i] ELSE IF i = k THEN x ELSE s[i - 1]) \in Items
    BY <1>1
  <2>3. t \in [1..Len(s) + 1 -> Items]
    BY <2>2 DEF Inserted
  <2>4. t \in Seq(Items)
    <3> HIDE DEF t
    <3> QED BY <2>1, <2>3
  <2>5. Len(t) = Len(s) + 1
    <3> HIDE DEF t
    <3> QED BY <2>1, <2>3, <2>4
  <2> QED BY <2>1, <2>4, <2>5 DEF Inserted
<1>3. ASSUME NEW i \in 0..Len(s) + 2
      PROVE  Nth(l, t, i) = IF i < k THEN Nth(l, s, i)
                            ELSE IF i = k THEN x ELSE Nth(l, s, i - 1)
  BY <1>1, <1>2 DEF Nth
<1>4. \A i \in 1..Len(t) : t[i] \in S \cup {x}
  BY <1>1, <1>2
<1>5. ASSUME NEW i \in 1..Len(t), NEW j \in 1..Len(t), t[i] = t[j]
      PROVE  i = j
  <2> DEFINE old(h) == IF h < k THEN h ELSE h - 1
  <2>1. ASSUME NEW h \in 1..Len(t)
        PROVE  IF h = k THEN t[h] = x
               ELSE old(h) \in 1..Len(s) /\ t[h] = s[old(h)] /\ t[h] # x
    <3> HIDE DEF t
    <3>1. CASE h = k
      BY <1>2, <3>1
    <3>2. CASE h < k
      BY <1>1, <1>2, <3>2
    <3>3. CASE h > k
      BY <1>1, <1>2, <3>3
    <3> QED BY <3>1, <3>2, <3>3
  <2>2. i # k /\ j # k => old(i) = old(j)
    <3> HIDE DEF old, t
    <3> QED BY <1>1, <1>5, <2>1
  <2>3. i = k <=> j = k
    <3> HIDE DEF old, t
    <3> QED BY <1>5, <2>1
  <2> QED BY <1>1, <1>2, <2>2, <2>3
<1>6. /\ \A i \in 0..Len(s) : r.next[Nth(l, s, i)] = Nth(l, s, i + 1)
      /\ \A i \in 0..Len(s) + 1 : Nth(l, s, i) \in S
  BY <1>1 DEF IsRing, Nth
<1>7. Nth(l, s, k) \in S /\ r.prev[Nth(l, s, k)] = Nth(l, s, k - 1)
  <2>1. k - 1 \in 0..Len(s) /\ k - 1 + 1 = k /\ k \in 0..Len(s) + 1
    BY <1>1
  <2>2. r.next[Nth(l, s, k - 1)] = Nth(l, s, k) /\ Nth(l, s, k - 1) \in S
    BY <1>6, <2>1
  <2> QED BY <1>6, <2>1, <2>2 DEF IsRinged
<1>8. /\ d.next[x] = Nth(l, s, k)
      /\ \A y \in S : d.next[y] = IF y = Nth(l, s, k - 1) THEN x ELSE r.next[y]
  <2>1. x \in Nodes
    BY DEF Nodes
  <2> QED BY <1>7, <2>1, LinkNext DEF IsRinged
<1>9. ASSUME NEW i \in 0..Len(t)
      PROVE  d.next[Nth(l, t, i)] = Nth(l, t, i + 1)
  <2> HIDE DEF d, t
  <2>1. i \in 0..Len(s) + 2 /\ i + 1 \in 0..Len(s) + 2 /\ k - 1 \in 0..Len(s)
    BY <1>1, <1>2
  <2>2. \A h, j \in 0..Len(s) : Nth(l, s, h) = Nth(l, s, j) => h = j
    BY NthIs
  <2>3. CASE i < k - 1
    BY <1>1, <1>3, <1>6, <1>8, <2>1, <2>2, <2>3
  <2>4. CASE i = k - 1
    BY <1>1, <1>3, <1>6, <1>8, <2>1, <2>4
  <2>5. CASE i = k
    BY <1>1, <1>3, <1>8, <2>1, <2>5
  <2>6. CASE i > k
    <3>1. i - 1 \in 0..Len(s) /\ i - 1 + 1 = i /\ i - 1 # k - 1
      BY <1>1, <1>2, <2>6
    <3>2. Nth(l, t, i) = Nth(l, s, i - 1) /\ Nth(l, t, i + 1) = Nth(l, s, i)
      BY <1>1, <1>3, <2>1, <2>6
    <3>3. Nth(l, s, i - 1) # Nth(l, s, k - 1)
      BY <2>1, <2>2, <3>1
    <3> QED BY <1>6, <1>8, <3>1, <3>2, <3>3
  <2> QED BY <1>1, <2>1, <2>3, <2>4, <2>5, <2>6
<1> HIDE DEF t, d
<1> QED BY <1>2, <1>4, <1>5, <1>9 DEF IsRing, t, d

\* Detaching a node takes it out of the other lists.
LEMMA DetachRing ==
  ASSUME NEW l \in Lists \cap ringed, NEW s, NEW x \in Nodes, x # l,
         Corners = {}, MayDetach(x),
         IsRinged(links, ringed), IsRing(links, ringed, l, s)
  PROVE  IsRing(Detach(links, x), ringed \ {x}, l, Abstract!Without(s, x))
<1>0. s \in Seq(Items) /\ Distinct(s)
  BY DEF IsRing, Distinct
<1>1. CASE \E k \in 1..Len(s) : x = s[k]
  <2>1. PICK k \in 1..Len(s) : x = s[k]
    BY <1>1
  <2>2. Abstract!Without(s, x) = Removed(s, k)
    BY <1>0, <2>1, WithoutIs
  <2> QED BY <2>1, <2>2, RingLoses
<1>2. CASE ~ \E k \in 1..Len(s) : x = s[k]
  <2>1. /\ \A i \in 0..Len(s) : Nth(l, s, i) # x /\ Nth(l, s, i) \in ringed
        /\ \A i \in 0..Len(s) : Nth(l, s, i + 1) # x
    <3>1. \A i \in 0..Len(s) : Nth(l, s, i) # x /\ Nth(l, s, i) \in ringed
      BY <1>2 DEF IsRing, Nth
    <3>2. \A i \in 0..Len(s) : Nth(l, s, i + 1) # x
      BY <1>2 DEF Nth
    <3> QED BY <3>1, <3>2
  <2>2. ASSUME NEW i \in 0..Len(s)
        PROVE  Detach(links, x).next[Nth(l, s, i)] = links.next[Nth(l, s, i)]
    <3> DEFINE y == Nth(l, s, i)
    <3> SUFFICES Detach(links, x).next[y] = links.next[y]
      OBVIOUS
    <3>1. links.next[y] # x /\ y \in ringed
      BY <2>1 DEF IsRing
    <3>2. CASE x \in ringed
      <4>1. y # links.prev[x]
        BY <3>1, <3>2 DEF IsRinged
      <4> HIDE DEF y
      <4> QED BY <4>1, <3>1, DetachNext DEF IsRinged
    <3>3. CASE x \notin ringed
      <4>1. Harmless(x)
        BY <3>3 DEF MayDetach
      <4>2. Detach(links, x) = links
        BY <4>1 DEF Harmless, Detach, IsRinged, Pointers
      <4> QED BY <4>2
    <3> QED BY <3>2, <3>3
  <2>3. \A i \in 1..Len(s) : s[i] \in ringed \ {x}
    BY <1>2 DEF IsRing
  <2>4. Abstract!Without(s, x) = s
    BY <1>0, <1>2, NotThereIs
  <2> HIDE DEF Detach
  <2> QED BY <2>2, <2>3, <2>4, SameRing
<1> QED BY <1>1, <1>2

\* Linking an item in puts it before the node it is linked to, or at the end.
Gained(s, l, t, x) ==
  IF l = t THEN s \o <<x>>
  ELSE IF Abstract!Has(s, t) THEN Abstract!Before(s, t, x) ELSE s

LEMMA LinkRing ==
  ASSUME NEW r, NEW S, NEW l \in Lists \cap S, NEW s, NEW t \in S,
         NEW x \in Items \ S, IsRinged(r, S), IsRing(r, S, l, s)
  PROVE  IsRing(Link(r, t, x), S \cup {x}, l, Gained(s, l, t, x))
<1>0. s \in Seq(Items) /\ Distinct(s) /\ Len(s) \in Nat
  BY DEF IsRing, Distinct
<1>1. CASE l = t
  <2>1. Len(s) + 1 \in 1..Len(s) + 1 /\ Nth(l, s, Len(s) + 1) = t
    BY <1>0, <1>1, NthIs
  <2>2. Gained(s, l, t, x) = Inserted(s, Len(s) + 1, x)
    BY <1>0, <1>1, AtEndIs DEF Gained
  <2> QED BY <2>1, <2>2, RingGains
<1>2. CASE l # t /\ \E k \in 1..Len(s) : t = s[k]
  <2>1. PICK k \in 1..Len(s) : t = s[k]
    BY <1>2
  <2>2. k \in 1..Len(s) + 1 /\ Nth(l, s, k) = t
    BY <1>0, <2>1 DEF Nth
  <2>3. Gained(s, l, t, x) = Inserted(s, k, x)
    BY <1>0, <1>2, <2>1, PlaceIs, BeforeIs DEF Gained
  <2> QED BY <2>2, <2>3, RingGains
<1>3. CASE l # t /\ ~ \E k \in 1..Len(s) : t = s[k]
  <2>1. ASSUME NEW i \in 0..Len(s)
        PROVE  Link(r, t, x).next[Nth(l, s, i)] = r.next[Nth(l, s, i)]
    <3> DEFINE y == Nth(l, s, i)
    <3> SUFFICES Link(r, t, x).next[y] = r.next[y]
      OBVIOUS
    <3>1. y \in S /\ y # x
      BY DEF IsRing, Nth
    <3>2. r.next[y] # t
      BY <1>3 DEF IsRing, Nth
    <3>3. y # r.prev[t]
      BY <3>2 DEF IsRinged
    <3>4. x \in Nodes
      BY DEF Nodes
    <3> HIDE DEF y
    <3> QED BY <3>1, <3>3, <3>4, LinkNext DEF IsRinged
  <2>2. \A i \in 1..Len(s) : s[i] \in S \cup {x}
    BY DEF IsRing
  <2>3. Gained(s, l, t, x) = s
    BY <1>0, <1>3, NotThereIs DEF Gained
  <2> HIDE DEF Link
  <2> QED BY <2>1, <2>2, <2>3, SameRing
<1> QED BY <1>1, <1>2, <1>3

\* append() does both.
LEMMA AppendRing ==
  ASSUME NEW l \in Lists \cap ringed, NEW s, NEW t \in ringed, NEW x \in Items,
         t # x, Corners = {}, MayDetach(x),
         IsRinged(links, ringed), IsRing(links, ringed, l, s)
  PROVE  IsRing(Appended(t, x), ringed \cup {x}, l,
                Gained(Abstract!Without(s, x), l, t, x))
<1> DEFINE v == Abstract!Without(s, x)
           r == IF IsAlone(x) THEN links ELSE Detach(links, x)
<1>0. x \in Nodes /\ x # l
  BY ListAssumption DEF Nodes
<1>1. IsRinged(r, ringed \ {x})
  BY <1>0, DetachSafe, AloneLeaves DEF IsAlone
<1>2. IsRing(r, ringed \ {x}, l, v)
  <2>1. CASE IsAlone(x)
    <3>1. ASSUME NEW i \in 1..Len(s) PROVE s[i] # x
      <4> SUFFICES ASSUME s[i] = x PROVE FALSE
        OBVIOUS
      <4>0. Len(s) \in Nat /\ Nth(l, s, i) = s[i]
        BY NthIs
      <4>1. links.next[s[i]] = Nth(l, s, i + 1) /\ Len(s) \in Nat
        BY <4>0 DEF IsRing
      <4>2. Nth(l, s, i + 1) = x
        BY <2>1, <4>1 DEF IsAlone
      <4>3. i + 1 \in 1..Len(s) /\ s[i + 1] = x
        BY <4>1, <4>2, <1>0 DEF Nth
      <4>4. i + 1 = i
        BY <4>3 DEF IsRing
      <4> QED BY <4>1, <4>4
    <3>2. IsRing(links, ringed \ {x}, l, s)
      BY <3>1 DEF IsRing
    <3>3. v = s
      BY <3>1, NotThereIs DEF IsRing
    <3> QED BY <2>1, <3>2, <3>3
  <2>2. CASE ~IsAlone(x)
    BY <1>0, <2>2, DetachRing
  <2> QED BY <2>1, <2>2
<1>3. IsRing(Link(r, t, x), (ringed \ {x}) \cup {x}, l, Gained(v, l, t, x))
  <2> HIDE DEF r, v
  <2>1. t \in ringed \ {x} /\ l \in Lists \cap (ringed \ {x}) /\ x \in Items \ (ringed \ {x})
    BY <1>0
  <2> QED BY <1>1, <1>2, <2>1, LinkRing
<1>4. (ringed \ {x}) \cup {x} = ringed \cup {x}
  OBVIOUS
<1> QED BY <1>3, <1>4 DEF Appended

-----------------------------------------------------------------------------
(* Every list is a ring of distinct items, and the operations make of these  *)
(* what those of the abstract lists make of them.                            *)

\* The ring of a list that lives has the items s; other lists have none.
Holds(l, s) == IF l \in alive THEN l \in ringed /\ IsRing(links, ringed, l, s)
               ELSE s = <<>>

AllRings == \A l \in Lists : \E s : Holds(l, s)

\* What each operation makes of the items of a list.
LEMMA ConstructHolds ==
  ASSUME NEW x \in Nodes, Inv, Construct(x), NEW l \in Lists, NEW s, Holds(l, s)
  PROVE  Holds(l, s)'
<1>a. IsRinged(links, ringed) /\ ringed \subseteq alive
  BY InvIsRinged
<1>b. links' = SelfLinked(links, x) /\ ringed' = ringed \cup {x} /\ x \notin ringed
      /\ alive' = alive \cup {x} /\ x \notin alive
  BY <1>a DEF Construct
<1>c. \A y \in Nodes : SelfLinked(links, x).next[y] = IF y = x THEN x ELSE links.next[y]
  BY <1>a DEF IsRinged, Pointers, SelfLinked
<1>1. CASE l = x
  <2>1. s = <<>>
    BY <1>b, <1>1 DEF Holds
  <2>2. IsRing(SelfLinked(links, x), ringed \cup {x}, l, <<>>)
    BY <1>c, <1>1 DEF IsRing, Nth
  <2> QED BY <1>b, <1>1, <2>1, <2>2 DEF Holds
<1>2. CASE l # x /\ l \in alive
  <2>1. l \in ringed /\ IsRing(links, ringed, l, s)
    BY <1>2 DEF Holds
  <2>3. \A i \in 0..Len(s) : Nth(l, s, i) \in ringed
    BY <2>1 DEF IsRing, Nth
  <2>4. \A i \in 0..Len(s) :
          SelfLinked(links, x).next[Nth(l, s, i)] = links.next[Nth(l, s, i)]
    BY <1>a, <1>b, <1>c, <2>3 DEF IsRinged
  <2>5. \A i \in 1..Len(s) : s[i] \in ringed \cup {x}
    BY <2>1 DEF IsRing
  <2>6. IsRing(SelfLinked(links, x), ringed \cup {x}, l, s)
    <3> HIDE DEF SelfLinked
    <3> QED BY <2>1, <2>4, <2>5, SameRing
  <2> QED BY <1>b, <2>1, <2>6 DEF Holds
<1>3. CASE l # x /\ l \notin alive
  BY <1>b, <1>3 DEF Holds
<1> QED BY <1>1, <1>2, <1>3

\* An empty list without an item is empty.
LEMMA NoneWithout ==
  ASSUME NEW x
  PROVE  ~Abstract!Has(<<>>, x) /\ Abstract!Without(<<>>, x) = <<>>
BY DEF Abstract!Has, Abstract!Without

LEMMA DestroyHolds ==
  ASSUME NEW x \in Nodes, Corners = {}, Inv, Destroy(x),
         NEW l \in Lists, NEW s, Holds(l, s)
  PROVE  Holds(l, IF l = x THEN <<>> ELSE Abstract!Without(s, x))'
<1>b. links' = Detach(links, x) /\ ringed' = ringed \ {x} /\ alive' = alive \ {x}
      /\ MayDetach(x) /\ IsRinged(links, ringed)
  BY InvIsRinged DEF Destroy
<1>1. CASE l = x
  BY <1>b, <1>1 DEF Holds
<1>2. CASE l # x /\ l \in alive
  BY <1>b, <1>2, DetachRing DEF Holds
<1>3. CASE l # x /\ l \notin alive
  BY <1>b, <1>3, NoneWithout DEF Holds
<1> QED BY <1>1, <1>2, <1>3

LEMMA RemoveHolds ==
  ASSUME NEW m \in Lists, NEW x \in Items, Corners = {}, Inv, Remove(m, x),
         NEW l \in Lists, NEW s, Holds(l, s)
  PROVE  Holds(l, Abstract!Without(s, x))'
<1>b. /\ links' = Detach(links, x) /\ ringed' = ringed \ {x} /\ alive' = alive
      /\ MayDetach(x) /\ IsRinged(links, ringed) /\ x # l /\ x \in Nodes
  BY InvIsRinged, ListAssumption DEF Remove, Nodes
<1>1. CASE l \in alive
  BY <1>b, <1>1, DetachRing DEF Holds
<1>2. CASE l \notin alive
  BY <1>b, <1>2, NoneWithout DEF Holds
<1> QED BY <1>1, <1>2

LEMMA AppendHolds ==
  ASSUME NEW t \in Nodes, NEW x \in Items, Corners = {}, Inv, AppendTo(t, x),
         NEW l \in Lists, NEW s, Holds(l, s)
  PROVE  Holds(l, Gained(Abstract!Without(s, x), l, t, x))'
<1>b. /\ links' = Appended(t, x) /\ ringed' = ringed \cup {x} /\ alive' = alive
      /\ MayDetach(x) /\ IsRinged(links, ringed) /\ t # x /\ t \in ringed
      /\ ringed \subseteq alive
  BY InvIsRinged DEF AppendTo
<1>1. CASE l \in alive
  BY <1>b, <1>1, AppendRing DEF Holds
<1>2. CASE l \notin alive
  <2>1. l # t /\ s = <<>>
    BY <1>b, <1>2 DEF Holds
  <2>2. Gained(Abstract!Without(s, x), l, t, x) = <<>>
    BY <2>1, NoneWithout DEF Gained
  <2> QED BY <1>b, <1>2, <2>2 DEF Holds
<1> QED BY <1>1, <1>2

\* prepend() of a list: outside the corner both are alone before.
LEMMA PrependHolds ==
  ASSUME NEW m \in Lists, NEW x \in Items, Corners = {}, Inv, PrependTo(m, x),
         NEW l \in Lists, NEW s, Holds(l, s)
  PROVE  LET others == Abstract!Without(s, x)
         IN  Holds(l, IF l = m THEN <<x>> \o others ELSE others)'
<1>a. IsRinged(links, ringed) /\ links \in Pointers /\ ringed \subseteq alive
  BY InvIsRinged DEF IsRinged
<1>b. /\ m \in Nodes /\ x \in Nodes /\ x # m /\ m \in ringed /\ x \in ringed
      /\ links.next[m] = m /\ links.next[x] = x
      /\ links' = Link(links, x, m) /\ alive' = alive /\ ringed' = ringed
  BY ListAssumption DEF PrependTo, IsAlone, Appended, Nodes
<1>c. /\ links.prev[x] = x
      /\ \A y \in Nodes : Link(links, x, m).next[y] =
           IF y = x THEN m ELSE IF y = m THEN x ELSE links.next[y]
  BY <1>a, <1>b, LinkNext DEF IsRinged
<1>1. CASE l = m
  <2>1. s = <<>>
    <3>1. IsRing(links, ringed, l, s) /\ l \in ringed
      BY <1>a, <1>b, <1>1 DEF Holds
    <3>2. Len(s) \in Nat /\ Nth(l, s, 1) = l /\ s \in Seq(Items)
      <4>1. Len(s) \in Nat /\ Nth(l, s, 0) = l /\ s \in Seq(Items)
        <5>1. s \in Seq(Items)
          BY <3>1 DEF IsRing
        <5> QED BY <3>1, <5>1, NthIs
      <4> QED BY <1>b, <1>1, <3>1, <4>1 DEF IsRing
    <3>3. Len(s) = 0
      BY <3>1, <3>2, NthIs DEF Nth
    <3> QED BY <3>2, <3>3
  <2>2. <<x>> \o Abstract!Without(s, x) = <<x>>
    <3>1. <<x>> \o <<>> = <<x>>
      OBVIOUS
    <3> QED BY <2>1, <3>1, NoneWithout
  <2>3. IsRing(Link(links, x, m), ringed, l, <<x>>)
    <3> DEFINE u == <<x>>
    <3>1. u \in Seq(Items) /\ Len(u) = 1 /\ u[1] = x
      OBVIOUS
    <3>2. ASSUME NEW i \in 0..Len(u)
          PROVE  Link(links, x, m).next[Nth(l, u, i)] = Nth(l, u, i + 1)
      <4>1. CASE i = 0
        BY <1>b, <1>c, <1>1, <3>1, <4>1 DEF Nth
      <4>2. CASE i = 1
        BY <1>b, <1>c, <1>1, <3>1, <4>2 DEF Nth
      <4> QED BY <3>1, <4>1, <4>2
    <3> QED BY <1>b, <3>1, <3>2 DEF IsRing
  <2> QED BY <1>a, <1>b, <1>1, <2>2, <2>3 DEF Holds
<1>2. CASE l # m /\ l \in alive
  <2>2. l \in ringed /\ IsRing(links, ringed, l, s)
    BY <1>2 DEF Holds
  <2>3. /\ Len(s) \in Nat /\ Nth(l, s, 0) = l
        /\ \A i \in 1..Len(s) : Nth(l, s, i) = s[i] /\ s[i] \in Items /\ s[i] # l
        /\ \A i, j \in 0..Len(s) : Nth(l, s, i) = Nth(l, s, j) => i = j
    BY <2>2, NthIs
  <2>4. ASSUME NEW i \in 0..Len(s)
        PROVE  Nth(l, s, i) # x /\ Nth(l, s, i) # m /\ Nth(l, s, i) \in Nodes
    <3>1. Nth(l, s, i) # m /\ Nth(l, s, i) \in Nodes
      <4>1. CASE i = 0
        BY <1>2, <2>3, <4>1 DEF Nodes
      <4>2. CASE i # 0
        <5>1. i \in 1..Len(s)
          BY <2>3, <4>2
        <5> QED BY <2>3, <5>1, ListAssumption DEF Nodes
      <4> QED BY <4>1, <4>2
    <3>2. Nth(l, s, i) # x
      <4> SUFFICES ASSUME Nth(l, s, i) = x PROVE FALSE
        OBVIOUS
      <4>1. Nth(l, s, i + 1) = x
        BY <1>b, <2>2 DEF IsRing
      <4>2. x # l
        BY ListAssumption
      <4>3. i + 1 \in 0..Len(s)
        BY <2>3, <4>1, <4>2 DEF Nth
      <4>4. i + 1 = i
        BY <2>3, <4>1, <4>3
      <4> QED BY <2>3, <4>4
    <3> QED BY <3>1, <3>2
  <2>5. IsRing(Link(links, x, m), ringed, l, s)
    <3>1. \A i \in 0..Len(s) :
            Link(links, x, m).next[Nth(l, s, i)] = links.next[Nth(l, s, i)]
      BY <1>c, <2>4
    <3>2. \A i \in 1..Len(s) : s[i] \in ringed
      BY <2>2 DEF IsRing
    <3> HIDE DEF Link
    <3> QED BY <2>2, <3>1, <3>2, SameRing
  <2>6. Abstract!Without(s, x) = s
    <3>1. s \in Seq(Items) /\ \A i \in 1..Len(s) : s[i] # x
      BY <2>2, <2>3, <2>4 DEF IsRing
    <3> QED BY <3>1, NotThereIs
  <2> QED BY <1>b, <1>2, <2>2, <2>5, <2>6 DEF Holds
<1>3. CASE l # m /\ l \notin alive
  BY <1>b, <1>3, NoneWithout DEF Holds
<1> QED BY <1>1, <1>2, <1>3

LEMMA NextRings ==
  ASSUME Corners = {}, Inv, AllRings, [Next]_vars
  PROVE  AllRings'
<1> SUFFICES ASSUME NEW l \in Lists PROVE \E s : Holds(l, s)'
  BY DEF AllRings
<1>s. PICK s : Holds(l, s)
  BY DEF AllRings
<1>1. ASSUME NEW x \in Nodes, Construct(x) PROVE \E u : Holds(l, u)'
  BY <1>s, <1>1, ConstructHolds
<1>2. ASSUME NEW x \in Nodes, Destroy(x) PROVE \E u : Holds(l, u)'
  BY <1>s, <1>2, DestroyHolds
<1>3. ASSUME NEW t \in Nodes, NEW x \in Items, AppendTo(t, x) PROVE \E u : Holds(l, u)'
  BY <1>s, <1>3, AppendHolds
<1>4. ASSUME NEW m \in Lists, NEW x \in Items, PrependTo(m, x) PROVE \E u : Holds(l, u)'
  BY <1>s, <1>4, PrependHolds
<1>5. ASSUME NEW m \in Lists, NEW x \in Items, Remove(m, x) PROVE \E u : Holds(l, u)'
  BY <1>s, <1>5, RemoveHolds
<1>6. CASE UNCHANGED vars
  BY <1>s, <1>6 DEF vars, Holds
<1> QED BY <1>1, <1>2, <1>3, <1>4, <1>5, <1>6 DEF Next

LEMMA SpecRings ==
  ASSUME Corners = {}
  PROVE  Spec => [](Inv /\ AllRings)
<1>1. Init => AllRings
  BY DEF Init, AllRings, Holds
<1>2. Inv /\ AllRings /\ [Next]_vars => AllRings'
  BY NextRings
<1>3. Spec => []Inv
  BY SpecInv
<1> QED BY <1>1, <1>2, <1>3, PTL DEF Spec

\* What the walks make of the rings.
LEMMA WalksAre ==
  ASSUME Corners = {}, Inv, NEW l \in Lists \cap alive, NEW s, Holds(l, s)
  PROVE  /\ IsRing(links, ringed, l, s)
         /\ Forward(l) = [seen |-> s, at |-> NULL]
         /\ Backward(l) = [seen |-> s, at |-> NULL]
         /\ Length(l) = Len(s)
<1>1. IsRinged(links, ringed) /\ l \in Lists \cap ringed /\ IsRing(links, ringed, l, s)
  BY InvIsRinged DEF Holds
<1> QED BY <1>1, ForwardIs, BackwardIs, LengthIs

LEMMA RingsAgree ==
  ASSUME Corners = {}, Inv, AllRings
  PROVE  WalksAgree
<1> SUFFICES ASSUME NEW l \in Lists \cap alive
             PROVE  /\ Forward(l).at = NULL /\ Backward(l).at = NULL
                    /\ Forward(l).seen = Backward(l).seen
                    /\ Length(l) = Len(Forward(l).seen)
                    /\ \A i, j \in 1..Length(l) :
                         Forward(l).seen[i] = Forward(l).seen[j] => i = j
  BY DEF WalksAgree
<1>1. PICK s : Holds(l, s)
  BY DEF AllRings
<1> QED BY <1>1, WalksAre DEF IsRing

\* The contents of a list are the items its ring has.
ContentsHeld == Inv => \A l \in Lists : \A s : Holds(l, s) => Contents(l) = s

LEMMA ContentsAre ==
  ASSUME Corners = {}
  PROVE  ContentsHeld
<1> SUFFICES ASSUME Inv, NEW l \in Lists, NEW s, Holds(l, s)
             PROVE  Contents(l) = s
  BY DEF ContentsHeld
<1>1. CASE l \in alive
  BY <1>1, WalksAre DEF Contents
<1>2. CASE l \notin alive
  BY <1>2 DEF Contents, Holds
<1> QED BY <1>1, <1>2

\* Every step is one of the abstract lists, or changes nothing of them.
LEMMA StepsRefine ==
  ASSUME Corners = {}, Inv, Inv', AllRings, ContentsHeld, ContentsHeld', [Next]_vars
  PROVE  [Abstract!Next]_(Abstract!vars)
<1> DEFINE lists == [l \in Lists |-> Contents(l)]
<1>a. \A l \in Lists : Holds(l, Contents(l))
  BY DEF AllRings, ContentsHeld
<1>b. \A l \in Lists : \A s : Holds(l, s)' => Contents(l)' = s
  BY DEF ContentsHeld
<1>1. ASSUME NEW x \in Nodes, Construct(x)
      PROVE  Abstract!Construct(x)
  <2>1. \A l \in Lists : Contents(l)' = Contents(l)
    BY <1>a, <1>b, <1>1, ConstructHolds
  <2>2. lists' = lists
    BY <2>1
  <2> QED BY <1>1, <2>2 DEF Construct, Calls, Invocation,
          Abstract!Construct, Abstract!Calls, Abstract!Invocation
<1>2. ASSUME NEW x \in Nodes, Destroy(x)
      PROVE  Abstract!Destroy(x)
  <2>1. \A l \in Lists : Contents(l)' =
          IF l = x THEN <<>> ELSE Abstract!Without(Contents(l), x)
    BY <1>a, <1>b, <1>2, DestroyHolds
  <2>2. lists' = [l \in Lists |->
          IF l = x THEN <<>> ELSE Abstract!Without(lists[l], x)]
    BY <2>1
  <2> QED BY <1>2, <2>2 DEF Destroy, Calls, Invocation,
          Abstract!Destroy, Abstract!Calls, Abstract!Invocation
<1>3. ASSUME NEW t \in Nodes, NEW x \in Items, AppendTo(t, x)
      PROVE  Abstract!AppendTo(t, x)
  <2>1. \A l \in Lists : Contents(l)' =
          Gained(Abstract!Without(Contents(l), x), l, t, x)
    BY <1>a, <1>b, <1>3, AppendHolds
  <2>2. lists' = [l \in Lists |-> Gained(Abstract!Without(lists[l], x), l, t, x)]
    BY <2>1
  <2> QED BY <1>3, <2>2 DEF AppendTo, Calls, Invocation, Gained,
          Abstract!AppendTo, Abstract!Calls, Abstract!Invocation
<1>4. ASSUME NEW m \in Lists, NEW x \in Items, PrependTo(m, x)
      PROVE  Abstract!PrependTo(m, x)
  <2>1. \A l \in Lists : Contents(l)' =
          LET others == Abstract!Without(Contents(l), x)
          IN  IF l = m THEN <<x>> \o others ELSE others
    BY <1>a, <1>b, <1>4, PrependHolds
  <2>2. lists' = [l \in Lists |-> LET others == Abstract!Without(lists[l], x)
                                  IN  IF l = m THEN <<x>> \o others ELSE others]
    BY <2>1
  <2> QED BY <1>4, <2>2 DEF PrependTo, Calls, Invocation,
          Abstract!PrependTo, Abstract!Calls, Abstract!Invocation
<1>5. ASSUME NEW m \in Lists, NEW x \in Items, Remove(m, x)
      PROVE  Abstract!Remove(m, x)
  <2>1. \A l \in Lists : Contents(l)' = Abstract!Without(Contents(l), x)
    BY <1>a, <1>b, <1>5, RemoveHolds
  <2>2. lists' = [l \in Lists |-> Abstract!Without(lists[l], x)]
    BY <2>1
  <2> QED BY <1>5, <2>2 DEF Remove, Calls, Invocation,
          Abstract!Remove, Abstract!Calls, Abstract!Invocation
<1>6. CASE UNCHANGED vars
  <2>1. ASSUME NEW l \in Lists
        PROVE  Contents(l)' = Contents(l)
    <3>1. \A s : Holds(l, s) => Holds(l, s)'
      BY <1>6 DEF vars, Holds
    <3> QED BY <1>a, <1>b, <3>1
  <2>2. lists' = lists /\ call' = call
    BY <1>6, <2>1 DEF vars
  <2> QED BY <2>2 DEF Abstract!vars
<1> QED BY <1>1, <1>2, <1>3, <1>4, <1>5, <1>6
    DEF Next, Abstract!Next, Abstract!Nodes, Nodes

-----------------------------------------------------------------------------
(* The theorems.                                                           *)

\* Whatever clients do outside the corners, the two directions of every ring
\* agree (Linkable::append, Linkable::detach, the constructor and destructor).
THEOREM DirectionsAgree ==
  ASSUME Regular
  PROVE  Spec => []DoublyLinked
<1>1. Inv => DoublyLinked
  BY DEF Inv
<1> QED BY SpecInv, <1>1, PTL

\* No pointer of a ring leads to a destroyed or a removed node: what the
\* destructor and remove() promise by calling detach().
THEOREM NothingDangles ==
  ASSUME Regular
  PROVE  Spec => []NoDangling
<1>1. Inv => NoDangling
  BY DEF Inv
<1> QED BY SpecInv, <1>1, PTL

\* Types.
THEOREM TypeCorrect ==
  ASSUME Regular
  PROVE  Spec => []TypeOK
<1>1. Inv => TypeOK
  BY DEF Inv
<1> QED BY SpecInv, <1>1, PTL

\* Walks through a list with next_of() and with prev_of() end, meet the same
\* items, as many as length() says, and each of them once.
THEOREM WalksCorrect ==
  ASSUME Corners = {}
  PROVE  Spec => []WalksAgree
<1>1. Inv /\ AllRings => WalksAgree
  BY RingsAgree
<1> QED BY SpecRings, <1>1, PTL

\* Every operation on linked nodes is the one on lists of items that it
\* stands for: it moves the item it is about, and leaves the order of the
\* others, in every list.
THEOREM RefinesLists ==
  ASSUME Corners = {}
  PROVE  Spec => ImplementsLists
<1>1. Init => Abstract!Init
  BY DEF Init, Contents, Invocation, Abstract!Init, Abstract!Invocation
<1>2. Inv /\ Inv' /\ AllRings /\ ContentsHeld /\ ContentsHeld' /\ [Next]_vars
        => [Abstract!Next]_(Abstract!vars)
  BY StepsRefine
<1> QED BY SpecRings, ContentsAre, <1>1, <1>2, PTL
        DEF Spec, ImplementsLists, Abstract!Spec
=============================================================================
