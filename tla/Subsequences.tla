----------------------------- MODULE Subsequences -----------------------------
(***************************************************************************)
(* Leaving items out of a sequence.  SelectSeq with a set in the place of  *)
(* its test, which is what the proofs can reason about.                    *)
(***************************************************************************)
EXTENDS Integers, Sequences

\* The items of s that are not in S, in order.
Without(s, S) ==
  LET kept[i \in 0..Len(s)] ==
        IF i = 0 THEN <<>>
        ELSE IF s[i] \in S THEN kept[i - 1] ELSE Append(kept[i - 1], s[i])
  IN  kept[Len(s)]

\* The items of s.
ItemsOf(s) == {s[i] : i \in DOMAIN s}
=============================================================================
