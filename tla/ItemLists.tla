------------------------------- MODULE ItemLists -------------------------------
(***************************************************************************)
(* What gcl::List promises: lists of items, each item in one list at most. *)
(* Putting an item somewhere takes it out of the list it was in.           *)
(***************************************************************************)
EXTENDS Integers, Sequences

CONSTANTS Lists, Items, NULL

VARIABLES
  lists,  \* the items of each list, first to last
  call    \* the last call: the object, the operation, the other object

vars == <<lists, call>>

Nodes == Lists \cup Items

\* Calls are numbered odd and even: two equal calls in a row are two steps.
Invocation(op, this, node, odd) ==
  [op |-> op, this |-> this, node |-> node, odd |-> odd]
Calls(op, this, node) == call' = Invocation(op, this, node, ~call.odd)

Has(s, x) == \E i \in DOMAIN s : s[i] = x
Place(s, x) == CHOOSE i \in DOMAIN s : s[i] = x

Without(s, x) ==
  IF Has(s, x)
  THEN SubSeq(s, 1, Place(s, x) - 1) \o SubSeq(s, Place(s, x) + 1, Len(s))
  ELSE s
Before(s, t, x) ==
  SubSeq(s, 1, Place(s, t) - 1) \o <<x>> \o SubSeq(s, Place(s, t), Len(s))

Init == /\ lists = [l \in Lists |-> <<>>]
        /\ call = Invocation("none", NULL, NULL, FALSE)

Construct(x) == Calls("ctor", x, NULL) /\ UNCHANGED lists

\* The end of a list sets its items free; an item that ends leaves its list.
Destroy(x) ==
  /\ Calls("dtor", x, NULL)
  /\ lists' = [l \in Lists |-> IF l = x THEN <<>> ELSE Without(lists[l], x)]

\* To the end of a list, or before an item of one.
AppendTo(t, x) ==
  /\ Calls("append", t, x)
  /\ lists' = [l \in Lists |->
       LET others == Without(lists[l], x)
       IN  IF l = t THEN others \o <<x>>
           ELSE IF Has(others, t) THEN Before(others, t, x)
           ELSE others]

PrependTo(t, x) ==
  /\ Calls("prepend", t, x)
  /\ lists' = [l \in Lists |-> LET others == Without(lists[l], x)
                               IN  IF l = t THEN <<x>> \o others ELSE others]

Remove(t, x) ==
  /\ Calls("remove", t, x)
  /\ lists' = [l \in Lists |-> Without(lists[l], x)]

Next == \/ \E x \in Nodes : Construct(x) \/ Destroy(x)
        \/ \E t \in Nodes, x \in Items : AppendTo(t, x)
        \/ \E t \in Lists, x \in Items : PrependTo(t, x) \/ Remove(t, x)

Spec == Init /\ [][Next]_vars
=============================================================================
