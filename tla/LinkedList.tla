------------------------------ MODULE LinkedList ------------------------------
(***************************************************************************)
(* gcl::Linkable and gcl::List (include/glist.h, src/glist.cpp), used by   *)
(* one thread.                                                             *)
(*                                                                         *)
(* A list is a ring of nodes linked both ways, of which one is the List    *)
(* itself.  detach() links the neighbours of a node to each other and      *)
(* leaves the pointers of the node as they were; nothing tells such a node *)
(* from one in a ring, so that the next append(), remove() or destructor   *)
(* of it writes into the nodes that used to be its neighbours.             *)
(***************************************************************************)
EXTENDS Integers, Sequences, FiniteSets

CONSTANTS
  Lists,    \* the List objects
  Items,    \* the objects clients put in lists
  Corners,  \* what clients may do: "stale", "prepend", "offset"
  NULL

Nodes == Lists \cup Items

ASSUME ListAssumption ==
  /\ Corners \subseteq {"stale", "prepend", "offset"}
  /\ NULL \notin Nodes /\ Lists \cap Items = {} /\ IsFiniteSet(Items)

VARIABLES
  links,   \* m_next and m_prev of every node
  alive,   \* the nodes constructed and not destroyed
  ringed,  \* those of them not detached since they were last put in a ring
  call     \* the last call: the object, the operation, the other object

vars == <<links, alive, ringed, call>>

Invocation(op, this, node, odd) ==
  [op |-> op, this |-> this, node |-> node, odd |-> odd]
Calls(op, this, node) == call' = Invocation(op, this, node, ~call.odd)

-----------------------------------------------------------------------------
(* Pointers.                                                               *)

\* MUTANT: the node forgets its neighbours.
DetachNull(r, x) ==
  [next |-> [r.next EXCEPT ![r.prev[x]] = r.next[x], ![x] = NULL],
   prev |-> [r.prev EXCEPT ![r.next[x]] = r.prev[x], ![x] = NULL]]

\* MUTANT: the pointer of the next node is left.
DetachHalf(r, x) == [r EXCEPT !.next[r.prev[x]] = r.next[x]]

Detach(r, x) == [next |-> [r.next EXCEPT ![r.prev[x]] = r.next[x]],
                 prev |-> [r.prev EXCEPT ![r.next[x]] = r.prev[x]]]

IsAlone(x) == links.next[x] = x

\* MUTANT: node goes after this, not before.
LinkAfter(r, this, node) ==
  [next |-> [r.next EXCEPT ![node] = r.next[this], ![this] = node],
   prev |-> [r.prev EXCEPT ![node] = this, ![r.next[this]] = node]]

\* node goes between this and what was before it.
Link(r, this, node) ==
  [next |-> [r.next EXCEPT ![node] = this, ![r.prev[this]] = node],
   prev |-> [r.prev EXCEPT ![node] = r.prev[this], ![this] = node]]

Appended(this, node) ==
  Link(IF IsAlone(node) THEN links ELSE Detach(links, node), this, node)

\* detach() changes nothing: the old neighbours are next to each other still.
Harmless(x) ==
  /\ links.next[x] \in alive /\ links.prev[x] \in alive
  /\ links.next[links.prev[x]] = links.next[x]
  /\ links.prev[links.next[x]] = links.prev[x]

\* Clients that avoid the corner detach a node that was detached before only
\* while that is harmless; the others do, as long as its memory is theirs.
MayDetach(x) ==
  \/ x \in ringed \/ Harmless(x)
  \/ "stale" \in Corners /\ {links.next[x], links.prev[x]} \subseteq alive

-----------------------------------------------------------------------------
(* The operations.                                                         *)

SelfLinked(r, x) == [next |-> [r.next EXCEPT ![x] = x],
                     prev |-> [r.prev EXCEPT ![x] = x]]

Init == /\ links = [next |-> [x \in Nodes |-> x], prev |-> [x \in Nodes |-> x]]
        /\ alive = {} /\ ringed = {}
        /\ call = Invocation("none", NULL, NULL, FALSE)

Construct(x) ==
  /\ x \notin alive
  /\ Calls("ctor", x, NULL)
  /\ links' = SelfLinked(links, x)
  /\ alive' = alive \cup {x} /\ ringed' = ringed \cup {x}

\* MUTANT: the destructor does not detach.
DestroyLinked(x) ==
  /\ x \in alive /\ MayDetach(x)
  /\ Calls("dtor", x, NULL)
  /\ alive' = alive \ {x} /\ ringed' = ringed \ {x}
  /\ UNCHANGED links

\* Of an item or of a list: the items of a list stay, in a ring without it.
Destroy(x) ==
  /\ x \in alive /\ MayDetach(x)
  /\ Calls("dtor", x, NULL)
  /\ links' = Detach(links, x)
  /\ alive' = alive \ {x} /\ ringed' = ringed \ {x}

\* append() and add() of a list or of an item, t, that is in a ring; for an
\* item also append_to(), and prepend() with the two exchanged.  An item is not
\* appended to itself.
AppendTo(t, x) ==
  /\ t \in ringed /\ x \in alive /\ t # x /\ MayDetach(x)
  /\ Calls("append", t, x)
  /\ links' = Appended(t, x)
  /\ ringed' = ringed \cup {x}
  /\ UNCHANGED alive

\* prepend() of a list is append() of the item, with the list as its
\* argument: the list leaves its items and goes to the ring of the new one.
PrependTo(l, x) ==
  /\ l \in ringed /\ x \in ringed
  /\ "prepend" \in Corners \/ (IsAlone(l) /\ IsAlone(x))
  /\ Calls("prepend", l, x)
  /\ links' = Appended(x, l)
  /\ UNCHANGED <<alive, ringed>>

\* remove() detaches the item, whichever list it is in.
Remove(l, x) ==
  /\ l \in alive /\ x \in alive /\ MayDetach(x)
  /\ Calls("remove", l, x)
  /\ links' = Detach(links, x)
  /\ ringed' = ringed \ {x}
  /\ UNCHANGED alive

Next == \/ \E x \in Nodes : Construct(x) \/ Destroy(x)
        \/ \E t \in Nodes, x \in Items : AppendTo(t, x)
        \/ \E l \in Lists, x \in Items : PrependTo(l, x) \/ Remove(l, x)

Spec == Init /\ [][Next]_vars

-----------------------------------------------------------------------------
(* The accessors of a list.                                                *)

First(l) == IF IsAlone(l) THEN NULL ELSE links.next[l]
Last(l) == IF IsAlone(l) THEN NULL ELSE links.prev[l]

\* MUTANT: the end of the list is not recognised.
NextOfEndless(l, x) == IF x = NULL THEN First(l) ELSE links.next[x]

\* Whether the list l, met on a walk, is told from an item.  It is compared as
\* (T *)this, which keeps the address of l, while (T *)node->next() goes back
\* from the Linkable to the start of its T: the two are the same when T begins
\* with its Linkable.  In the corner "offset" it does not, as when it has other
\* bases before it or a virtual method, and the list passes for an item.
IsEnd(l, item) == item = l /\ "offset" \notin Corners

\* The item after x, the first one for a null x; null after the last one.
NextOf(l, x) ==
  LET item == IF x = NULL THEN First(l) ELSE links.next[x]
  IN  IF IsEnd(l, item) THEN NULL ELSE item
PrevOf(l, x) ==
  LET item == IF x = NULL THEN Last(l) ELSE links.prev[x]
  IN  IF IsEnd(l, item) THEN NULL ELSE item

\* The items that calls of next_of(), or of prev_of(), go through, at most as
\* many as there are: a walk that meets no end stops there.
Forward(l) ==
  LET walk[n \in 0..Cardinality(Items)] ==
        IF n = 0 THEN [seen |-> <<>>, at |-> NextOf(l, NULL)]
        ELSE LET w == walk[n - 1]
             IN  IF w.at = NULL THEN w
                 ELSE [seen |-> w.seen \o <<w.at>>, at |-> NextOf(l, w.at)]
  IN  walk[Cardinality(Items)]

Backward(l) ==
  LET walk[n \in 0..Cardinality(Items)] ==
        IF n = 0 THEN [seen |-> <<>>, at |-> PrevOf(l, NULL)]
        ELSE LET w == walk[n - 1]
             IN  IF w.at = NULL THEN w
                 ELSE [seen |-> <<w.at>> \o w.seen, at |-> PrevOf(l, w.at)]
  IN  walk[Cardinality(Items)]

\* length(): the steps from the list round to itself; one more than there
\* are items if the walk does not come back.
Length(l) ==
  LET at[n \in 0..Cardinality(Items)] ==
        IF n = 0 THEN links.next[l] ELSE links.next[at[n - 1]]
      ends == {n \in 0..Cardinality(Items) : at[n] = l}
  IN  IF ends = {} THEN Cardinality(Items) + 1
      ELSE CHOOSE n \in ends : \A m \in ends : n <= m

-----------------------------------------------------------------------------
(* Correctness.                                                            *)

\* Types.
TypeOK ==
  /\ links \in [next : [Nodes -> Nodes], prev : [Nodes -> Nodes]]
  /\ alive \subseteq Nodes /\ ringed \subseteq alive

\* A node in a ring is the next of its previous node and the previous of its
\* next one: whatever was moved, removed and destroyed, the two directions
\* agree.
DoublyLinked ==
  \A x \in ringed : /\ links.next[links.prev[x]] = x
                    /\ links.prev[links.next[x]] = x

\* No pointer of a ring leads out of it: not to a destroyed node, and not to
\* one that was removed.
NoDangling ==
  \A x \in ringed : links.next[x] \in ringed /\ links.prev[x] \in ringed

\* Going through a list either way ends, meets the same items, as many as
\* length() says, and each of them once; so samples/ex-list.cpp:33 takes it
\* that next_of() returns null at the end.
WalksAgree ==
  \A l \in Lists \cap alive :
    /\ Forward(l).at = NULL /\ Backward(l).at = NULL
    /\ Forward(l).seen = Backward(l).seen
    /\ Length(l) = Len(Forward(l).seen)
    /\ \A i, j \in 1..Length(l) :
         Forward(l).seen[i] = Forward(l).seen[j] => i = j

Contents(l) == IF l \in alive THEN Forward(l).seen ELSE <<>>

\* The lists are lists of items: every operation moves just the item it is
\* about, between any lists, and leaves the order of the others.
Abstract == INSTANCE ItemLists WITH lists <- [l \in Lists |-> Contents(l)]

ImplementsLists == Abstract!Spec
=============================================================================
