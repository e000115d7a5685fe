----------------------------- MODULE BoundedDeque -----------------------------
(***************************************************************************)
(* What a queue of gque.h promises, without control block or offsets: a    *)
(* sequence of at most cap items.  put appends and get removes the first   *)
(* item, push prepends and pop removes the last item; a call that finds    *)
(* the queue full (put, push) or empty (get, pop) returns false and leaves *)
(* it alone.  out is the last call: its argument and what it returned.     *)
(***************************************************************************)
EXTENDS Integers, Sequences

CONSTANTS
  Items,        \* the values clients store
  Capacities,   \* the capacities clients ask for
  NULL,         \* a null item pointer: store "nothing", return "nothing"
  Garbage       \* an item nobody stored

VARIABLES items, cap, out

vars == <<items, cap, out>>

Value == Items \cup {Garbage}

Result(op, arg, ret, x) ==
  [op |-> op, arg |-> arg, ret |-> ret, item |-> x]

Init == /\ items = <<>>
        /\ cap = 0
        /\ out = Result("ctor", NULL, TRUE, NULL)

\* A null item appends a slot whose content the caller has not chosen.
Stored(x) == IF x = NULL THEN Value ELSE {x}

Put(x) ==
  /\ IF Len(items) < cap
     THEN /\ \E v \in Stored(x) : items' = Append(items, v)
          /\ out' = Result("put", x, TRUE, NULL)
     ELSE /\ out' = Result("put", x, FALSE, NULL)
          /\ UNCHANGED items
  /\ UNCHANGED cap

Push(x) ==
  /\ IF Len(items) < cap
     THEN /\ \E v \in Stored(x) : items' = <<v>> \o items
          /\ out' = Result("push", x, TRUE, NULL)
     ELSE /\ out' = Result("push", x, FALSE, NULL)
          /\ UNCHANGED items
  /\ UNCHANGED cap

Get ==
  /\ IF items # <<>>
     THEN /\ items' = Tail(items)
          /\ out' = Result("get", NULL, TRUE, Head(items))
     ELSE /\ out' = Result("get", NULL, FALSE, NULL)
          /\ UNCHANGED items
  /\ UNCHANGED cap

Pop ==
  /\ IF items # <<>>
     THEN /\ items' = SubSeq(items, 1, Len(items) - 1)
          /\ out' = Result("pop", NULL, TRUE, items[Len(items)])
     ELSE /\ out' = Result("pop", NULL, FALSE, NULL)
          /\ UNCHANGED items
  /\ UNCHANGED cap

Clear == /\ items' = <<>>
         /\ out' = Result("clear", NULL, TRUE, NULL)
         /\ UNCHANGED cap

Initialise(c) == /\ items' = <<>>
                 /\ cap' = c
                 /\ out' = Result("init", c, TRUE, NULL)

Destroy == /\ items' = <<>>
           /\ cap' = 0
           /\ out' = Result("dtor", NULL, TRUE, NULL)

Next == \/ \E x \in Items \cup {NULL} : Put(x) \/ Push(x)
        \/ Get \/ Pop \/ Clear \/ Destroy
        \/ \E c \in Capacities : Initialise(c)

Spec == Init /\ [][Next]_vars
=============================================================================
