------------------------------ MODULE Tockenizer ------------------------------
(***************************************************************************)
(* gcl::Tockenizer (include/gtockenizer.h, src/gtockenizer.cpp).           *)
(*                                                                         *)
(* Strings lie in a memory of characters and pointers are addresses in it, *)
(* 0 for null.  A separator string is the set of its characters; strchr()  *)
(* finds the terminating null character too, so that is a separator also.  *)
(***************************************************************************)
EXTENDS Integers, Sequences, FiniteSets

CONSTANTS
  Chars,      \* the characters
  NUL,        \* the null character
  Memories,   \* what memory may hold
  Addresses,  \* where clients' strings begin
  Last,       \* the last address
  Separators, \* the sets of separators clients use
  MaxSeparators, \* MAX_SEPSARATORS
  NULL,       \* no separators, no buffer
  Buffers,    \* the sizes of clients' buffers
  WORD        \* UINT_MAX + 1

ASSUME TockenizerAssumption ==
  /\ NUL \in Chars /\ Last \in Nat /\ Addresses \subseteq 1..Last
  /\ Memories \subseteq {s \in [1..Last -> Chars] : s[Last] = NUL}
  /\ Separators \subseteq SUBSET Chars /\ MaxSeparators \in Nat
  /\ \A sep \in Separators : IsFiniteSet(sep)
  /\ NULL \notin Separators /\ NULL \notin Nat
  /\ Buffers \subseteq Nat /\ WORD \in Nat /\ WORD > Last + 1

VARIABLES
  mem,     \* the memory, which does not change
  m_head, m_tail, m_pos, m_end,
  m_sep,
  unset,   \* history: nothing was written to m_sep
  stale,   \* m_end is not of the string the object is bound to
  mixed,   \* the separators were changed since m_pos was at the start
  got,     \* first and last position of the tokens since then
  fault    \* get_next() has read outside the string

vars == <<mem, m_head, m_tail, m_pos, m_end, m_sep, unset, stale, mixed, got, fault>>

Init == /\ mem \in Memories
        /\ m_head = 0 /\ m_tail = 0 /\ m_pos = 0 /\ m_end = 0 /\ m_sep = {}
        /\ unset = FALSE /\ stale = FALSE /\ mixed = FALSE /\ got = <<>> /\ fault = FALSE

-----------------------------------------------------------------------------
(* The end of a token.                                                     *)

Separates(c, sep) == c \in sep \cup {NUL}

\* MUTANT: the terminating null character is not found.
FindsNextInString(e, p, tail, sep) ==
  IF p >= tail THEN e = p
  ELSE /\ e \in p..tail
       /\ \A q \in p..e - 1 : mem[q] \notin sep
       /\ e < tail => mem[e] \in sep

\* _find_next_token() from p stops at e: the first separator, or the tail.
FindsNext(e, p, tail, sep) ==
  IF p >= tail THEN e = p
  ELSE /\ e \in p..tail
       /\ \A q \in p..e - 1 : ~Separates(mem[q], sep)
       /\ e < tail => Separates(mem[e], sep)

\* tokLen, get_next_token_length().
TokenLength(p, e) == (e - p) % WORD

HasMoreTokens == m_pos < m_tail

-----------------------------------------------------------------------------
(* The operations.                                                         *)

\* strlen().
Strlen(a) == CHOOSE n \in 0..Last - a :
               mem[a + n] = NUL /\ \A k \in 0..n - 1 : mem[a + k] # NUL

TooLong(sep) == Cardinality(sep) > MaxSeparators

\* MUTANT: no limit.
SetSeparatorsUnchecked(sep) == sep

\* m_sep after set_separators(sep): too many are refused, and leave none.
SetSeparators(sep) == IF TooLong(sep) THEN {} ELSE sep

\* What may be in m_sep: it is not initialised, and where it has no terminating
\* null character strchr() goes on behind it, in memory that may change.
Anything == SUBSET (Chars \ {NUL})

\* The separators that the next call finds there.
Found == IF unset THEN Anything ELSE {m_sep}

\* MUTANT: bind() finds no token, as set_separators() does not.
BindFindsNot(a, n, sep, there, e, fresh) ==
  /\ m_head' = a /\ m_tail' = (IF a = 0 THEN 0 ELSE a + n) /\ m_pos' = a
  /\ m_sep' \in (IF sep = NULL THEN there ELSE {SetSeparators(sep)})
  /\ unset' = (fresh /\ sep = NULL)
  /\ stale' = (sep # NULL /\ TooLong(sep))
  /\ m_end' = e
  /\ mixed' = FALSE /\ got' = <<>>
  /\ UNCHANGED <<mem, fault>>

\* bind(str, slen, sep) of an object that has one of the separators there, which
\* nobody wrote if it is fresh, and end e.  It fails when the separators given
\* are refused, and then leaves m_end as it was.
BindTo(a, n, sep, there, e, fresh) ==
  /\ m_head' = a /\ m_tail' = (IF a = 0 THEN 0 ELSE a + n) /\ m_pos' = a
  /\ m_sep' \in (IF sep = NULL THEN there ELSE {SetSeparators(sep)})
  /\ unset' = (fresh /\ sep = NULL)
  /\ stale' = (sep # NULL /\ TooLong(sep))
  /\ IF stale' THEN m_end' = e
     ELSE m_end' \in 0..Last + 1 /\ FindsNext(m_end', a, m_tail', m_sep')
  /\ mixed' = FALSE /\ got' = <<>>
  /\ UNCHANGED <<mem, fault>>

\* The strings clients bind: with a length, or to the first null character,
\* and the null pointer.
Strings == {s \in Addresses \X (0..Last) : s[1] + s[2] <= Last + 1}
           \cup {<<a, Strlen(a)>> : a \in Addresses} \cup {<<0, 0>>}

Bind(a, n, sep) == ~fault /\ BindTo(a, n, sep, Found, m_end, unset)

\* A constructor with a string: its bind() begins with an m_end that is null and
\* with whatever is in m_sep.
Construct(a, n, sep) == ~fault /\ BindTo(a, n, sep, Anything, 0, TRUE)

ChangeSeparators(sep) ==
  /\ ~fault /\ m_sep' = SetSeparators(sep)
  /\ mixed' = TRUE /\ unset' = FALSE
  /\ UNCHANGED <<mem, m_head, m_tail, m_pos, m_end, stale, got, fault>>

Refused(size) ==
  \/ ~HasMoreTokens
  \/ size # NULL /\ size <= TokenLength(m_pos, m_end)

\* get_next() into a buffer of this size, or none.  A stale m_end that is not
\* in the string makes it read elsewhere.
GetNext(size) ==
  /\ ~fault /\ ~Refused(size)
  /\ IF m_pos <= m_end /\ m_end <= m_tail
     THEN /\ m_pos' = m_end + 1
          /\ m_end' \in 0..Last + 2
          /\ m_sep' \in Found /\ FindsNext(m_end', m_pos', m_tail, m_sep')
          /\ got' = Append(got, <<m_pos, m_end>>)
          /\ UNCHANGED <<stale, fault>>
     ELSE fault' = TRUE /\ UNCHANGED <<m_pos, m_end, m_sep, got, stale>>
  /\ UNCHANGED <<mem, m_head, m_tail, unset, mixed>>

RefuseNext(size) == ~fault /\ Refused(size) /\ UNCHANGED vars

Rewind ==
  /\ ~fault /\ m_pos' = m_head
  /\ m_sep' \in Found
  /\ m_end' \in 0..Last + 1 /\ FindsNext(m_end', m_head, m_tail, m_sep')
  /\ stale' = FALSE /\ mixed' = FALSE /\ got' = <<>>
  /\ UNCHANGED <<mem, m_head, m_tail, unset, fault>>

Next ==
  \/ \E s \in Strings, sep \in Separators \cup {NULL} :
       Bind(s[1], s[2], sep) \/ Construct(s[1], s[2], sep)
  \/ \E sep \in Separators : ChangeSeparators(sep)
  \/ \E size \in Buffers \cup {NULL} : GetNext(size) \/ RefuseNext(size)
  \/ Rewind

Spec == Init /\ [][Next]_vars

-----------------------------------------------------------------------------
(* Correctness.                                                            *)

\* Types.  The separators fit once there are any.
TypeOK ==
  /\ mem \in [1..Last -> Chars]
  /\ m_head \in 0..Last /\ m_tail \in 0..Last + 1
  /\ m_pos \in 0..Last + 2 /\ m_end \in 0..Last + 2
  /\ m_sep \subseteq Chars /\ (~unset => Cardinality(m_sep) <= MaxSeparators)
  /\ unset \in BOOLEAN /\ stale \in BOOLEAN /\ mixed \in BOOLEAN /\ fault \in BOOLEAN
  /\ \A i \in 1..Len(got) : got[i] \in (1..Last) \X (1..Last + 1)

\* Whatever mixture of calls came before, and whatever is in an m_sep nobody
\* wrote, the next token lies in the string and get_next() reads nothing but it
\* and the character after it, unless the last bind() failed, which clients of
\* the constructors cannot see.  Hence a buffer one byte larger than the string
\* takes every token: get_next() returns false only when there are no more of
\* them or the buffer is smaller.
InBounds ==
  ~stale => /\ m_head <= m_pos /\ m_pos <= m_tail + 1 /\ ~fault
            /\ HasMoreTokens => /\ m_pos <= m_end /\ m_end <= m_tail
                                /\ TokenLength(m_pos, m_end) <= m_tail - m_pos

\* The tokens of the string: they begin at its head and after each separator,
\* and end at the next separator or at the tail.
Tokens ==
  LET seps == {p \in m_head..m_tail - 1 : Separates(mem[p], m_sep)}
      starts == {m_head} \cup {p + 1 : p \in seps}
  IN  {t \in starts \X (seps \cup {m_tail}) :
         t[1] < m_tail /\ t[1] <= t[2] /\ \A p \in seps : p < t[1] \/ t[2] <= p}

\* The walk by get_next() gives the tokens of the string, each once, in order,
\* whatever calls with small buffers fail meanwhile: those before m_pos at any
\* time, and all of them at the end, but for an empty one at the tail.  This is
\* claimed of separators somebody gave.
YieldsSplit ==
  ~stale /\ ~mixed /\ ~unset =>
    /\ {got[i] : i \in 1..Len(got)} = {t \in Tokens : t[1] < m_pos}
    /\ \A i, j \in 1..Len(got) : i < j => got[i][2] < got[j][1]
=============================================================================
