--------------------------- MODULE Tockenizer_proofs ---------------------------
(***************************************************************************)
(* Proofs about Tockenizer for any memory, any strings in it and any sets  *)
(* of separators and buffers.                                              *)
(*                                                                         *)
(* InRange is about pointers only: it holds between any calls, whichever   *)
(* separators m_end was found with, and so also for separators nobody gave *)
(* (Found).  Walked adds what the walk by one set of separators has done:  *)
(* the tokens before m_pos were given, one begins at m_pos, and m_end is   *)
(* where that one ends.                                                    *)
(***************************************************************************)
EXTENDS Tockenizer, FiniteSetTheorems, WellFoundedInduction, TLAPS

\* The conjuncts of TypeOK, with got as a sequence.
Typed ==
  /\ mem \in [1..Last -> Chars] /\ mem[Last] = NUL
  /\ m_head \in 0..Last /\ m_tail \in 0..Last + 1
  /\ m_pos \in 0..Last + 2 /\ m_end \in 0..Last + 2
  /\ m_sep \subseteq Chars /\ (~unset => Cardinality(m_sep) <= MaxSeparators)
  /\ unset \in BOOLEAN /\ stale \in BOOLEAN /\ mixed \in BOOLEAN /\ fault \in BOOLEAN
  /\ got \in Seq((1..Last) \X (1..Last + 1))
  /\ m_head = 0 => m_tail = 0
  /\ m_head <= m_tail /\ m_head <= m_pos

InRange ==
  ~stale => /\ ~fault /\ m_pos <= m_tail + 1
            /\ HasMoreTokens => m_pos <= m_end /\ m_end <= m_tail

\* A token may begin at p.
Begins(p) == \/ p = m_head
             \/ p - 1 \in m_head..m_tail - 1 /\ Separates(mem[p - 1], m_sep)

Walked ==
  ~stale /\ ~mixed /\ ~unset =>
    /\ YieldsSplit
    /\ \A i \in 1..Len(got) : got[i][2] < m_pos
    /\ FindsNext(m_end, m_pos, m_tail, m_sep)
    /\ HasMoreTokens => Begins(m_pos)

\* The inductive invariant.
Inv == Typed /\ InRange /\ Walked

-----------------------------------------------------------------------------
(* Strings and separators.                                                 *)

LEMMA LeastNat ==
  ASSUME NEW T, T \subseteq Nat, T # {}
  PROVE  \E n \in T : \A k \in T : n <= k
<1> DEFINE R == OpToRel(<, Nat)
<1>1. \A x, y \in Nat : <<x, y>> \in R <=> x < y
  BY DEF OpToRel
<1>2. IsWellFoundedOn(R, Nat)
  BY NatLessThanWellFounded
<1> HIDE DEF R
<1>3. PICK n \in T : \A k \in T : ~(<<k, n>> \in R)
  BY <1>2, WFMin
<1>4. \A k \in T : ~(k < n)
  BY <1>1, <1>3, Zenon
<1> QED BY <1>4

\* strlen() stops at the last address at the latest.
LEMMA StrlenType ==
  ASSUME Typed, NEW a \in Addresses
  PROVE  Strlen(a) \in 0..Last - a
<1> DEFINE T == {n \in 0..Last - a : mem[a + n] = NUL}
<1>1. Last \in Nat /\ a \in 1..Last
  BY TockenizerAssumption
<1>2. Last - a \in T /\ T \subseteq Nat
  BY <1>1 DEF Typed
<1>3. PICK n \in T : \A k \in T : n <= k
  BY <1>2, LeastNat
<1>4. \A k \in 0..n - 1 : mem[a + k] # NUL
  BY <1>1, <1>3
<1>5. \E x \in 0..Last - a : mem[a + x] = NUL /\ \A k \in 0..x - 1 : mem[a + k] # NUL
  BY <1>3, <1>4
<1> QED BY <1>5 DEF Strlen

LEMMA StringFacts ==
  ASSUME Typed, NEW s \in Strings
  PROVE  LET a == s[1]
             tail == IF a = 0 THEN 0 ELSE a + s[2]
         IN  /\ a \in 0..Last /\ tail \in 0..Last + 1 /\ a <= tail
             /\ a = 0 => tail = 0
<1>1. Last \in Nat /\ Addresses \subseteq 1..Last
  BY TockenizerAssumption
<1>2. CASE s \in Addresses \X (0..Last) /\ s[1] + s[2] <= Last + 1
  <2>1. PICK a \in Addresses, n \in 0..Last : a = s[1] /\ n = s[2] /\ a + n <= Last + 1
    BY <1>2
  <2>2. a \in 1..Last /\ a \in Nat /\ n \in Nat
    BY <1>1
  <2>3. a # 0 /\ a \in 0..Last /\ a + n \in 0..Last + 1 /\ a <= a + n
    BY <1>1, <2>1, <2>2
  <2> QED BY <2>1, <2>3
<1>3. CASE \E a \in Addresses : s = <<a, Strlen(a)>>
  BY <1>1, <1>3, StrlenType
<1>4. CASE s = <<0, 0>>
  BY <1>1, <1>4
<1> QED BY <1>2, <1>3, <1>4 DEF Strings

LEMMA SeparatorFacts ==
  /\ Cardinality({}) <= MaxSeparators
  /\ \A sep \in Separators :
       /\ SetSeparators(sep) \subseteq Chars
       /\ Cardinality(SetSeparators(sep)) <= MaxSeparators
<1>1. IsFiniteSet({}) /\ Cardinality({}) = 0
  BY FS_EmptySet
<1>2. MaxSeparators \in Nat
  BY TockenizerAssumption
<1>3. ASSUME NEW sep \in Separators
      PROVE  sep \subseteq Chars /\ IsFiniteSet(sep) /\ Cardinality(sep) \in Nat
  BY TockenizerAssumption, FS_CardinalityType
<1> QED BY <1>1, <1>2, <1>3 DEF SetSeparators, TooLong

LEMMA FoundFacts ==
  ASSUME Typed, NEW sep \in Found
  PROVE  sep \subseteq Chars /\ (~unset => sep = m_sep)
BY DEF Typed, Found, Anything

\* _find_next_token() stays in the string.
LEMMA FindsInRange ==
  ASSUME NEW e, NEW p \in Nat, NEW tail \in Nat, NEW sep, FindsNext(e, p, tail, sep)
  PROVE  /\ p < tail => e \in Nat /\ p <= e /\ e <= tail
         /\ p >= tail => e = p
BY DEF FindsNext

-----------------------------------------------------------------------------
(* The operations.                                                         *)

\* A walk begins: no token was given, and none is before the head.
LEMMA WalkBegins ==
  ASSUME Typed', got' = <<>>, m_pos' = m_head',
         ~stale' => FindsNext(m_end, m_pos, m_tail, m_sep)'
  PROVE  Walked'
<1>1. Len(got') = 0 /\ 1..Len(got') = {}
  OBVIOUS
<1>2. \A t \in Tokens' : ~(t[1] < m_pos')
  <2>1. \A t \in Tokens' :
          t[1] = m_head' \/ \E p \in m_head'..m_tail' - 1 : t[1] = p + 1
    BY DEF Tokens
  <2>2. m_head' \in Nat /\ m_tail' \in Nat
    BY TockenizerAssumption DEF Typed
  <2> SUFFICES ASSUME NEW t \in Tokens' PROVE ~(t[1] < m_pos')
    OBVIOUS
  <2>3. CASE t[1] = m_head'
    BY <2>2, <2>3
  <2>4. ASSUME NEW p \in m_head'..m_tail' - 1, t[1] = p + 1 PROVE ~(t[1] < m_pos')
    BY <2>2, <2>4
  <2> QED BY <2>1, <2>3, <2>4
<1>3. YieldsSplit'
  BY <1>1, <1>2 DEF YieldsSplit
<1> QED BY <1>1, <1>3 DEF Walked, Begins, HasMoreTokens

LEMMA AtHeadInRange ==
  ASSUME Typed', ~fault', m_pos' = m_head', m_head' <= m_tail',
         ~stale' => FindsNext(m_end, m_pos, m_tail, m_sep)'
  PROVE  InRange'
<1>1. m_pos' \in Nat /\ m_tail' \in Nat
  BY TockenizerAssumption DEF Typed
<1>2. ~stale' /\ m_pos' < m_tail' => m_pos' <= m_end' /\ m_end' <= m_tail'
  BY <1>1 DEF FindsNext
<1>3. \A a, b \in Nat : a <= b => a <= b + 1
  OBVIOUS
<1>4. m_pos' <= m_tail' + 1
  BY <1>1, <1>3, Zenon
<1> QED BY <1>2, <1>4, Zenon DEF InRange, HasMoreTokens

LEMMA BindInv ==
  ASSUME Typed, ~fault, NEW s \in Strings, NEW sep \in Separators \cup {NULL},
         NEW there, there \subseteq SUBSET Chars, NEW fresh \in BOOLEAN,
         ~fresh => \A old \in there : Cardinality(old) <= MaxSeparators,
         NEW e \in 0..Last + 2,
         BindTo(s[1], s[2], sep, there, e, fresh)
  PROVE  Inv'
<1> DEFINE a == s[1]
           tail == IF a = 0 THEN 0 ELSE a + s[2]
<1>1. a \in 0..Last /\ tail \in 0..Last + 1 /\ a <= tail /\ (a = 0 => tail = 0)
  BY StringFacts
<1>2. /\ m_head' = a /\ m_tail' = tail /\ m_pos' = a
      /\ m_sep' \in (IF sep = NULL THEN there ELSE {SetSeparators(sep)})
      /\ unset' = (fresh /\ sep = NULL)
      /\ stale' = (sep # NULL /\ TooLong(sep))
      /\ stale' => m_end' = e
      /\ ~stale' => m_end' \in 0..Last + 1 /\ FindsNext(m_end, m_pos, m_tail, m_sep)'
      /\ mixed' = FALSE /\ got' = <<>> /\ mem' = mem /\ fault' = FALSE
  BY DEF BindTo, FindsNext
<1>3. /\ m_sep' \subseteq Chars /\ (~unset' => Cardinality(m_sep') <= MaxSeparators)
      /\ unset' \in BOOLEAN
  <2>1. CASE sep = NULL
    BY <1>2, <2>1
  <2>2. CASE sep # NULL
    BY <1>2, <2>2, SeparatorFacts
  <2> QED BY <2>1, <2>2
<1>4. stale' \in BOOLEAN /\ m_end' \in 0..Last + 2
  BY <1>2, TockenizerAssumption
<1>5. Typed'
  <2>1. m_pos' \in 0..Last + 2
    BY <1>1, <1>2, TockenizerAssumption
  <2>2. mem' \in [1..Last -> Chars] /\ mem'[Last] = NUL
    BY <1>2 DEF Typed
  <2>3. got' \in Seq((1..Last) \X (1..Last + 1))
    BY <1>2
  <2>4. /\ m_head' \in 0..Last /\ m_tail' \in 0..Last + 1
        /\ m_head' = 0 => m_tail' = 0
        /\ m_head' <= m_tail'
    BY <1>1, <1>2, Zenon
  <2>5. m_head' <= m_pos'
    BY <1>1, <1>2, TockenizerAssumption
  <2>6. mixed' \in BOOLEAN /\ fault' \in BOOLEAN
    BY <1>2
  <2> QED BY <1>3, <1>4, <2>1, <2>2, <2>3, <2>4, <2>5, <2>6 DEF Typed
<1>6. m_pos' = m_head' /\ m_head' <= m_tail' /\ ~fault'
  BY <1>1, <1>2
<1>7. InRange'
  BY <1>2, <1>5, <1>6, AtHeadInRange
<1>8. Walked'
  BY <1>2, <1>5, WalkBegins
<1> QED BY <1>5, <1>7, <1>8 DEF Inv

LEMMA RewindInv ==
  ASSUME Inv, Rewind
  PROVE  Inv'
<1>1. /\ m_pos' = m_head /\ got' = <<>> /\ mixed' = FALSE /\ stale' = FALSE
      /\ m_end' \in 0..Last + 1 /\ m_sep' \in Found
      /\ ~fault /\ UNCHANGED <<mem, m_head, m_tail, unset, fault>>
  BY DEF Rewind
<1>2. Typed'
  <2>1. m_pos' \in 0..Last + 2 /\ m_end' \in 0..Last + 2 /\ m_head' <= m_pos'
    BY <1>1, TockenizerAssumption DEF Inv, Typed
  <2>2. got' \in Seq((1..Last) \X (1..Last + 1))
    BY <1>1
  <2>3. m_sep' \subseteq Chars /\ (~unset' => Cardinality(m_sep') <= MaxSeparators)
    BY <1>1, FoundFacts DEF Inv, Typed
  <2> QED BY <1>1, <2>1, <2>2, <2>3 DEF Inv, Typed
<1>3. FindsNext(m_end, m_pos, m_tail, m_sep)'
  BY <1>1 DEF Rewind, FindsNext
<1>4. InRange'
  BY <1>1, <1>2, <1>3, AtHeadInRange DEF Typed
<1> QED BY <1>1, <1>2, <1>3, <1>4, WalkBegins DEF Inv

\* set_separators() says nothing of the token that was found.
LEMMA ChangeInv ==
  ASSUME Inv, NEW sep \in Separators, ChangeSeparators(sep)
  PROVE  Inv'
<1>1. /\ m_sep' = SetSeparators(sep) /\ mixed' = TRUE /\ unset' = FALSE
      /\ UNCHANGED <<mem, m_head, m_tail, m_pos, m_end, stale, got, fault>>
  BY DEF ChangeSeparators
<1>2. m_sep' \subseteq Chars /\ Cardinality(m_sep') <= MaxSeparators
  BY <1>1, SeparatorFacts
<1> QED BY <1>1, <1>2 DEF Inv, Typed, InRange, HasMoreTokens, Walked

\* The token at m_pos is the only one of the string that begins there or
\* before the separator that follows it.
LEMMA NextToken ==
  ASSUME Typed, HasMoreTokens, m_pos <= m_end, m_end <= m_tail,
         FindsNext(m_end, m_pos, m_tail, m_sep), Begins(m_pos)
  PROVE  {t \in Tokens : t[1] < m_end + 1} =
           {t \in Tokens : t[1] < m_pos} \cup {<<m_pos, m_end>>}
<1> DEFINE seps == {p \in m_head..m_tail - 1 : Separates(mem[p], m_sep)}
           starts == {m_head} \cup {p + 1 : p \in seps}
<1>1. /\ m_head \in Nat /\ m_tail \in Nat /\ m_pos \in Nat /\ m_end \in Nat
      /\ m_pos < m_tail /\ m_head <= m_pos
  BY TockenizerAssumption DEF Typed, HasMoreTokens
<1>2. \A p \in seps : p < m_pos \/ m_end <= p
  BY <1>1 DEF FindsNext
<1>3. m_end \in seps \cup {m_tail}
  BY <1>1 DEF FindsNext
<1>4. m_pos \in starts
  BY <1>1 DEF Begins
<1>5. \A t : t \in Tokens <=>
        /\ t \in starts \X (seps \cup {m_tail})
        /\ t[1] < m_tail /\ t[1] <= t[2] /\ \A p \in seps : p < t[1] \/ t[2] <= p
  BY Zenon DEF Tokens
<1>a. seps \subseteq Nat /\ \A p \in seps : p < m_tail
  BY <1>1
<1>b. starts \subseteq Nat /\ \A q \in starts : q = m_head \/ q - 1 \in seps
  BY <1>1
<1> HIDE DEF seps, starts
<1>6. <<m_pos, m_end>> \in Tokens /\ m_pos < m_end + 1
  <2>1. <<m_pos, m_end>> \in starts \X (seps \cup {m_tail})
    BY <1>3, <1>4
  <2> QED BY <1>1, <1>2, <1>5, <2>1
<1>7. ASSUME NEW t \in Tokens, t[1] < m_end + 1, ~(t[1] < m_pos)
      PROVE  t = <<m_pos, m_end>>
  <2> DEFINE a == t[1]
             b == t[2]
  <2>1. t = <<a, b>> /\ a \in starts /\ b \in seps \cup {m_tail}
        /\ a <= b /\ a < m_tail /\ \A p \in seps : p < a \/ b <= p
    BY <1>5
  <2> HIDE DEF a, b
  <2>2. a \in Nat /\ b \in Nat /\ m_pos <= a /\ a <= m_end
    BY <1>1, <1>7, <1>a, <1>b, <2>1 DEF a
  <2>3. a = m_pos
    <3>1. CASE a = m_head
      BY <1>1, <2>2, <3>1
    <3>2. CASE a - 1 \in seps
      BY <1>1, <1>2, <2>2, <3>2
    <3> QED BY <1>b, <2>1, <3>1, <3>2
  <2>4. b = m_end
    <3>1. m_end <= b
      BY <1>1, <1>2, <2>1, <2>2, <2>3
    <3>2. b <= m_end
      <4>1. CASE m_end \in seps
        BY <1>1, <2>1, <2>2, <2>3, <4>1
      <4>2. CASE m_end = m_tail
        BY <1>1, <1>a, <2>1, <2>2, <4>2
      <4> QED BY <1>3, <4>1, <4>2
    <3> QED BY <1>1, <2>2, <3>1, <3>2
  <2> QED BY <2>1, <2>3, <2>4
<1>8. \A t \in Tokens : t[1] < m_pos => t[1] < m_end + 1
  <2> SUFFICES ASSUME NEW t \in Tokens, t[1] < m_pos PROVE t[1] < m_end + 1
    OBVIOUS
  <2>1. t[1] \in starts
    BY <1>5
  <2>2. t[1] \in Nat
    BY <1>b, <2>1
  <2> QED BY <1>1, <2>2
<1> QED BY <1>6, <1>7, <1>8

LEMMA GetNextInv ==
  ASSUME Inv, NEW size \in Buffers \cup {NULL}, GetNext(size)
  PROVE  Inv'
<1>1. /\ Typed /\ HasMoreTokens /\ ~fault
      /\ UNCHANGED <<mem, m_head, m_tail, unset, mixed>>
  BY DEF Inv, GetNext, Refused
<1>2. CASE ~(m_pos <= m_end /\ m_end <= m_tail)
  <2>1. /\ fault' = TRUE /\ UNCHANGED <<m_pos, m_end, m_sep, got, stale>>
    BY <1>2 DEF GetNext
  <2>2. stale
    BY <1>1, <1>2 DEF Inv, InRange
  <2> QED BY <1>1, <2>1, <2>2 DEF Inv, Typed, InRange, Walked
<1>3. CASE m_pos <= m_end /\ m_end <= m_tail
  <2>1. /\ m_pos' = m_end + 1 /\ m_end' \in 0..Last + 2
        /\ m_sep' \in Found /\ FindsNext(m_end', m_pos', m_tail, m_sep')
        /\ got' = Append(got, <<m_pos, m_end>>)
        /\ UNCHANGED <<stale, fault>>
    BY <1>3 DEF GetNext
  <2>2. /\ Last \in Nat /\ m_head \in Nat /\ m_tail \in Nat /\ m_pos \in Nat /\ m_end \in Nat
        /\ m_head <= m_pos /\ m_pos < m_tail /\ m_tail <= Last + 1
        /\ m_pos' \in Nat /\ m_end' \in Nat
    <3>1. /\ Last \in Nat /\ m_head \in Nat /\ m_tail \in Nat /\ m_pos \in Nat
          /\ m_end \in Nat /\ m_head <= m_pos /\ m_tail <= Last + 1
      BY <1>1, TockenizerAssumption DEF Typed
    <3>2. m_pos < m_tail
      BY <1>1 DEF HasMoreTokens
    <3>3. m_pos' \in Nat /\ m_end' \in Nat
      BY <2>1, <3>1
    <3> QED BY <3>1, <3>2, <3>3
  <2>3. <<m_pos, m_end>> \in (1..Last) \X (1..Last + 1)
    <3>1. m_head # 0
      BY <1>1, <2>2 DEF Typed
    <3>2. m_pos \in 1..Last /\ m_end \in 1..Last + 1
      BY <1>3, <2>2, <3>1
    <3> QED BY <3>2
  <2>4. Typed'
    <3>1. got' \in Seq((1..Last) \X (1..Last + 1))
      BY <1>1, <2>1, <2>3 DEF Typed
    <3>2. m_pos' \in 0..Last + 2 /\ m_head <= m_pos'
      BY <1>3, <2>1, <2>2
    <3>3. m_sep' \subseteq Chars /\ (~unset' => Cardinality(m_sep') <= MaxSeparators)
      BY <1>1, <2>1, FoundFacts DEF Typed
    <3> QED BY <1>1, <2>1, <3>1, <3>2, <3>3 DEF Typed
  <2>5. InRange'
    <3>1. m_pos' <= m_tail + 1
      BY <1>3, <2>1, <2>2
    <3>2. m_pos' < m_tail => m_pos' <= m_end' /\ m_end' <= m_tail
      BY <2>1, <2>2, FindsInRange
    <3> QED BY <1>1, <2>1, <3>1, <3>2 DEF InRange, HasMoreTokens
  <2>6. ASSUME ~stale, ~mixed, ~unset
        PROVE  /\ YieldsSplit'
               /\ \A i \in 1..Len(got') : got'[i][2] < m_pos'
               /\ FindsNext(m_end, m_pos, m_tail, m_sep)'
               /\ HasMoreTokens' => Begins(m_pos)'
    <3>1. /\ {got[i] : i \in 1..Len(got)} = {t \in Tokens : t[1] < m_pos}
          /\ \A i, j \in 1..Len(got) : i < j => got[i][2] < got[j][1]
          /\ \A i \in 1..Len(got) : got[i][2] < m_pos
          /\ FindsNext(m_end, m_pos, m_tail, m_sep) /\ Begins(m_pos)
      BY <1>1, <2>6 DEF Inv, Walked, YieldsSplit
    <3>2. /\ Len(got') = Len(got) + 1 /\ Len(got) \in Nat
          /\ \A i \in 1..Len(got) : got'[i] = got[i]
          /\ got'[Len(got) + 1] = <<m_pos, m_end>>
          /\ \A i \in 1..Len(got) : got[i][1] \in Nat /\ got[i][2] \in Nat
      BY <1>1, <2>1, <2>3 DEF Typed
    <3>3. {got'[i] : i \in 1..Len(got')} = {got[i] : i \in 1..Len(got)} \cup {<<m_pos, m_end>>}
      <4>1. 1..Len(got') = 1..Len(got) \cup {Len(got) + 1}
        BY <3>2
      <4>2. \A i \in 1..Len(got') : got'[i] = IF i = Len(got) + 1 THEN <<m_pos, m_end>> ELSE got[i]
        BY <3>2, <4>1
      <4>3. ~(Len(got) + 1 \in 1..Len(got))
        BY <3>2
      <4> DEFINE new == <<m_pos, m_end>>
      <4>4. {got'[i] : i \in 1..Len(got')} \subseteq {got[i] : i \in 1..Len(got)} \cup {new}
        BY <4>1, <4>2
      <4>5. \A i \in 1..Len(got) : got[i] \in {got'[j] : j \in 1..Len(got')}
        BY <3>2, <4>1
      <4>6. new \in {got'[j] : j \in 1..Len(got')}
        BY <3>2, <4>1
      <4> HIDE DEF new
      <4>7. {got[i] : i \in 1..Len(got)} \subseteq {got'[i] : i \in 1..Len(got')}
        BY <4>5
      <4>8. {got'[i] : i \in 1..Len(got')} = {got[i] : i \in 1..Len(got)} \cup {new}
        BY <4>4, <4>6, <4>7
      <4> QED BY <4>8 DEF new
    <3>0. m_sep' = m_sep
      BY <1>1, <2>1, <2>6, FoundFacts
    <3>4. Tokens' = Tokens
      BY <1>1, <3>0 DEF Tokens
    <3>5. {got'[i] : i \in 1..Len(got')} = {t \in Tokens : t[1] < m_end + 1}
      BY <1>1, <1>3, <3>1, <3>3, NextToken
    <3>6. \A i, j \in 1..Len(got') : i < j => got'[i][2] < got'[j][1]
      <4> SUFFICES ASSUME NEW i \in 1..Len(got'), NEW j \in 1..Len(got'), i < j
                   PROVE  got'[i][2] < got'[j][1]
        OBVIOUS
      <4>1. i \in 1..Len(got) /\ (j \in 1..Len(got) \/ j = Len(got) + 1)
        BY <3>2
      <4>2. CASE j \in 1..Len(got)
        BY <3>1, <3>2, <4>1, <4>2
      <4>3. CASE j = Len(got) + 1
        <5>1. got'[i][2] < m_pos /\ got'[j][1] = m_pos
          BY <3>1, <3>2, <4>1, <4>3
        <5> QED BY <5>1
      <4> QED BY <4>1, <4>2, <4>3
    <3>7. YieldsSplit'
      BY <2>1, <3>4, <3>5, <3>6 DEF YieldsSplit
    <3>8. \A i \in 1..Len(got') : got'[i][2] < m_pos'
      BY <1>3, <2>1, <2>2, <3>1, <3>2
    <3>9. FindsNext(m_end, m_pos, m_tail, m_sep)'
      BY <1>1, <2>1, <3>0 DEF FindsNext
    <3>10. HasMoreTokens' => Begins(m_pos)'
      BY <1>1, <1>3, <2>1, <2>2, <3>0, <3>1 DEF HasMoreTokens, Begins, FindsNext
    <3> QED BY <3>7, <3>8, <3>9, <3>10
  <2>7. Walked'
    BY <1>1, <2>1, <2>6 DEF Walked
  <2> QED BY <2>4, <2>5, <2>7 DEF Inv
<1> QED BY <1>2, <1>3

-----------------------------------------------------------------------------
(* The invariant.                                                          *)

LEMMA InitInv == Init => Inv
<1> SUFFICES ASSUME Init PROVE Inv
  OBVIOUS
<1>1. mem \in [1..Last -> Chars] /\ mem[Last] = NUL /\ Last \in Nat
  BY TockenizerAssumption DEF Init
<1>2. Typed
  <2>1. got \in Seq((1..Last) \X (1..Last + 1))
    BY DEF Init
  <2>2. /\ m_head = 0 /\ m_tail = 0 /\ m_pos = 0 /\ m_end = 0 /\ m_sep = {}
        /\ unset \in BOOLEAN /\ stale \in BOOLEAN /\ mixed \in BOOLEAN /\ fault \in BOOLEAN
    BY DEF Init
  <2>3. 0 \in 0..Last /\ 0 \in 0..Last + 1 /\ 0 \in 0..Last + 2 /\ 0 <= 0
    BY <1>1
  <2> QED BY <1>1, <2>1, <2>2, <2>3, SeparatorFacts DEF Typed
<1>3. InRange
  BY DEF Init, InRange, HasMoreTokens
<1>4. Tokens = {} /\ Len(got) = 0
  BY DEF Init, Tokens
<1>5. YieldsSplit
  BY <1>4 DEF YieldsSplit
<1>6. Walked
  BY <1>4, <1>5 DEF Init, Walked, FindsNext, HasMoreTokens
<1> QED BY <1>2, <1>3, <1>6 DEF Inv

LEMMA NextInv ==
  ASSUME Inv, [Next]_vars
  PROVE  Inv'
<1>1. ASSUME NEW s \in Strings, NEW sep \in Separators \cup {NULL},
             Bind(s[1], s[2], sep) \/ Construct(s[1], s[2], sep)
      PROVE  Inv'
  <2>1. m_end \in 0..Last + 2 /\ 0 \in 0..Last + 2 /\ Typed /\ unset \in BOOLEAN
    BY TockenizerAssumption DEF Inv, Typed
  <2>2. CASE Bind(s[1], s[2], sep)
    <3>1. Found \subseteq SUBSET Chars
          /\ (~unset => \A old \in Found : Cardinality(old) <= MaxSeparators)
      BY <2>1, FoundFacts DEF Typed
    <3> QED BY <2>1, <2>2, <3>1, BindInv DEF Bind
  <2>3. CASE Construct(s[1], s[2], sep)
    <3>1. Anything \subseteq SUBSET Chars
      BY DEF Anything
    <3> QED BY <2>1, <2>3, <3>1, BindInv DEF Construct
  <2> QED BY <1>1, <2>2, <2>3
<1>2. ASSUME UNCHANGED vars PROVE Inv'
  <2>1. UNCHANGED <<mem, m_head, m_tail, m_pos, m_end, m_sep, unset, stale, mixed, got, fault>>
    BY <1>2 DEF vars
  <2>2. Typed' /\ InRange'
    BY <2>1 DEF Inv, Typed, InRange, HasMoreTokens
  <2>3. YieldsSplit' <=> YieldsSplit
    BY <2>1 DEF YieldsSplit, Tokens
  <2>4. FindsNext(m_end, m_pos, m_tail, m_sep)' <=> FindsNext(m_end, m_pos, m_tail, m_sep)
    BY <2>1 DEF FindsNext
  <2>5. (HasMoreTokens => Begins(m_pos))' <=> (HasMoreTokens => Begins(m_pos))
    BY <2>1 DEF HasMoreTokens, Begins
  <2>6. Walked'
    BY <2>1, <2>3, <2>4, <2>5 DEF Inv, Walked
  <2> QED BY <2>2, <2>6 DEF Inv
<1>3. ASSUME NEW size \in Buffers \cup {NULL}, RefuseNext(size) PROVE Inv'
  BY <1>2, <1>3 DEF RefuseNext
<1> QED BY <1>1, <1>2, <1>3, ChangeInv, GetNextInv, RewindInv DEF Next

LEMMA SpecInv == Spec => []Inv
<1>1. Inv /\ [Next]_vars => Inv'
  BY NextInv
<1> QED BY InitInv, <1>1, PTL DEF Spec

-----------------------------------------------------------------------------
(* The theorems.                                                           *)

\* For any strings and any mixture of calls: what get_next() copies lies in the
\* string that is bound, unless the last bind() failed.
THEOREM PointersInBounds == Spec => []InBounds
<1>1. Inv => InBounds
  <2> SUFFICES ASSUME Inv, ~stale PROVE
        /\ m_head <= m_pos /\ m_pos <= m_tail + 1 /\ ~fault
        /\ HasMoreTokens => /\ m_pos <= m_end /\ m_end <= m_tail
                            /\ TokenLength(m_pos, m_end) <= m_tail - m_pos
    BY DEF InBounds
  <2>1. m_head <= m_pos /\ m_pos <= m_tail + 1 /\ ~fault
        /\ (HasMoreTokens => m_pos <= m_end /\ m_end <= m_tail)
    BY DEF Inv, Typed, InRange
  <2>2. ASSUME HasMoreTokens PROVE TokenLength(m_pos, m_end) <= m_tail - m_pos
    <3>1. /\ m_pos \in Nat /\ m_end \in Nat /\ m_tail \in Nat
          /\ m_tail <= Last + 1 /\ Last \in Nat /\ WORD \in Nat /\ WORD > Last + 1
      BY TockenizerAssumption DEF Inv, Typed
    <3>2. m_end - m_pos \in 0..WORD - 1
      BY <2>1, <2>2, <3>1
    <3>3. (m_end - m_pos) % WORD = m_end - m_pos
      BY <3>1, <3>2
    <3> QED BY <2>1, <2>2, <3>1, <3>3 DEF TokenLength
  <2> QED BY <2>1, <2>2
<1> QED BY SpecInv, <1>1, PTL

\* For any string and any separators that were given: the calls of get_next() between two rewinds
\* give the split of the string, in order and nothing twice.
THEOREM WalkIsSplit == Spec => []YieldsSplit
<1>1. Inv => YieldsSplit
  BY DEF Inv, Walked, YieldsSplit
<1> QED BY SpecInv, <1>1, PTL

\* Types: pointers stay in the memory or one past it, and separators that were
\* given in m_sep.
THEOREM TypeCorrect == Spec => []TypeOK
<1>1. Inv => TypeOK
  BY DEF Inv, Typed, TypeOK
<1> QED BY SpecInv, <1>1, PTL
=============================================================================
