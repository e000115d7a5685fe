----------------------------- MODULE EventRegistry -----------------------------
(***************************************************************************)
(* What an EventEmitter promises: a list of registrations, served in the   *)
(* order they were made, and a bounded set of known event names.           *)
(*                                                                         *)
(* A name becomes known with the first on() or once() for it, even when    *)
(* that call then finds no room for its listener, and stays known until an *)
(* off() leaves it without registrations; emitting does not forget a name. *)
(***************************************************************************)
EXTENDS Integers, Sequences, FiniteSets, Subsequences

CONSTANTS
  EventNames,   \* the names clients use
  Empty,        \* the empty name
  TooLong,      \* those longer than EVENT_NAME_LENGTH_MAX
  Uses,         \* what clients register: name, listener, once or not
  MaxNames, MaxListeners,
  NULL          \* a null listener: registered, never called

VARIABLES
  regs,         \* the registrations, oldest first
  known,        \* the known names
  called,       \* the listeners the last call called, in order
  call,         \* the last call: operation and arguments
  ret           \* what it returned

vars == <<regs, known, called, call, ret>>

Registration(n, l, once) == [name |-> n, listener |-> l, once |-> once]

\* A call op of name n and listener l, and its result.  Calls are numbered
\* odd and even, so that two equal calls in a row are two steps.
Invocation(op, n, l, odd) ==
  [op |-> op, name |-> n, listener |-> l, odd |-> odd]
Calls(op, n, l) == call' = Invocation(op, n, l, ~call.odd)
OnOrOnce(once) == IF once THEN "once" ELSE "on"

Init == /\ regs = <<>> /\ known = {}
        /\ called = <<>>
        /\ call = Invocation("ctor", NULL, NULL, FALSE) /\ ret = TRUE

Quietly == called' = <<>>

\* Whether the name is known; of the empty name nothing is said.
Answers(n) == IF n = Empty THEN ret' \in BOOLEAN ELSE ret' = (n \in known)

\* on() and once(): no room for the name, no room for the listener, done.
On(n, l, once) ==
  /\ Calls(OnOrOnce(once), n, l) /\ Quietly
  /\ \/ /\ n \in TooLong \/ (n \notin known /\ Cardinality(known) >= MaxNames)
        /\ ret' = FALSE
        /\ UNCHANGED <<regs, known>>
     \/ /\ n \notin TooLong
        /\ n \in known \/ Cardinality(known) < MaxNames
        /\ known' = known \cup {n}
        /\ regs' = IF Len(regs) < MaxListeners
                   THEN Append(regs, Registration(n, l, once)) ELSE regs
        /\ ret' = (Len(regs) < MaxListeners)

Off(n, l) ==
  LET others == Without(regs, {r \in ItemsOf(regs) : r.name = n /\ r.listener = l})
      left == \E i \in 1..Len(others) : others[i].name = n
  IN  /\ Calls("off", n, l) /\ Quietly
      /\ Answers(n)
      /\ regs' = IF n \in known THEN others ELSE regs
      /\ known' = IF left THEN known ELSE known \ {n}

Emit(n) ==
  LET served == Without(regs, {r \in ItemsOf(regs) : r.name # n \/ r.listener = NULL})
  IN  /\ Calls("emit", n, NULL)
      /\ called' = [i \in 1..Len(served) |-> served[i].listener]
      /\ Answers(n)
      /\ regs' = Without(regs, {r \in ItemsOf(regs) : r.name = n /\ r.once})
      /\ UNCHANGED known

Next == \/ \E u \in Uses : On(u[1], u[2], u[3]) \/ Off(u[1], u[2])
        \/ \E n \in EventNames : Emit(n)

Spec == Init /\ [][Next]_vars
=============================================================================
