----------------------------- MODULE MMap_proofs -----------------------------
(***************************************************************************)
(* Proofs about MMap for any objects, files, offsets and sizes, any page   *)
(* size, and any widths of int and size_t.                                 *)
(*                                                                         *)
(* Sound(o, ...) says of one object what the invariants say of all, and    *)
(* what they need: what close() computes from m_size are the pages of      *)
(* m_hMap, a descriptor in m_fd is open, and a destroyed object keeps      *)
(* nothing.  Paid says of an object that is not valid that its failures    *)
(* outnumber its descriptors; inside _mmap(), between close() and mmap(),  *)
(* it does not hold.  The arithmetic of pages comes first, so that the     *)
(* steps do not see it.                                                    *)
(***************************************************************************)
EXTENDS MMap, TLAPS

Members == [hMap : Handles, ptr : 1 - PAGE..PAGE - 1 \cup {NULL},
            size : 0..WORD - 1, fd : Files]

\* close() will unmap what the handle says.
ClosesAll(m) == IsValid(m) => Unmaps(m) = PagesOf(m.hMap)

Window(m, off) ==
  LET inside == PosOffs(off) # 0
  IN  IsValid(m) =>
        \/ m.hMap = FAILED /\ inside
        \/ /\ m.hMap \notin {NULL, FAILED}
           /\ off \in -INTMAX..INTMAX - 1 => m.hMap.base + m.ptr = off
           /\ off >= 0 => m.ptr >= 0
           /\ m.ptr + m.size <= m.hMap.pages * PAGE
                                + (IF inside THEN PAGE - 1 ELSE 0)

\* Object o with members m, so many pages mapped and descriptors open, so many
\* failures of mmap(), mapped last at offset off.
Sound(o, m, pages, fds, fails, off) ==
  /\ m \in Members /\ pages \in Nat /\ fds \in Nat /\ fails \in Nat /\ off \in Int
  /\ ClosesAll(m)
  /\ pages = (IF IsValid(m) THEN PagesOf(m.hMap) ELSE 0)
  /\ HasFd(m) => o \in FileObjects /\ fds >= 1
  /\ fds <= fails + (IF HasFd(m) THEN 1 ELSE 0)
  /\ Window(m, off)

Paid(m, fds, fails) == ~IsValid(m) => fds <= fails

SoundNow(o) == /\ Sound(o, obj[o], mapped[o], open[o], failures[o], asked[o])
               /\ Paid(obj[o], open[o], failures[o])

\* The failures after a mapping that left the members n.
After(fails, n) == fails + (IF n.hMap \in {NULL, FAILED} THEN 1 ELSE 0)

\* The inductive invariant.
Inv ==
  /\ alive \subseteq Objects
  /\ DOMAIN obj = Objects /\ DOMAIN mapped = Objects /\ DOMAIN open = Objects
  /\ DOMAIN asked = Objects /\ DOMAIN failures = Objects
  /\ obj = [o \in Objects |-> obj[o]] /\ mapped = [o \in Objects |-> mapped[o]]
  /\ open = [o \in Objects |-> open[o]] /\ asked = [o \in Objects |-> asked[o]]
  /\ failures = [o \in Objects |-> failures[o]]
  /\ \A o \in Objects : SoundNow(o)
  /\ \A o \in Objects \ alive : ~IsValid(obj[o]) /\ ~HasFd(obj[o])

-----------------------------------------------------------------------------
(* Arithmetic.                                                             *)

LEMMA PagesHold ==
  ASSUME NEW n \in Nat
  PROVE  Pages(n) \in Nat /\ n <= Pages(n) * PAGE
<1> DEFINE q == (n + PAGE - 1) \div PAGE
           r == (n + PAGE - 1) % PAGE
<1>1. PAGE \in Nat \ {0}
  BY MMapAssumption
<1>2. q \in Int /\ r \in 0..PAGE - 1 /\ n + PAGE - 1 = q * PAGE + r
  BY <1>1
<1>3. n <= q * PAGE
  BY <1>1, <1>2
<1>4. q >= 0
  BY <1>1, <1>2, <1>3
<1> QED BY <1>2, <1>3, <1>4 DEF Pages

LEMMA IntOf ==
  ASSUME NEW x \in Int
  PROVE  ToInt(x) \in Int /\ (x \in -INTMAX..INTMAX - 1 => ToInt(x) = x)
BY MMapAssumption DEF ToInt

LEMMA PositionOf ==
  ASSUME NEW off \in Int
  PROVE  /\ PosOffs(off) \in 1 - PAGE..PAGE - 1
         /\ off >= 0 => PosOffs(off) >= 0
         /\ PosBase(off) \in Int
         /\ off \in -INTMAX..INTMAX - 1 => PosBase(off) + PosOffs(off) = off
<1> DEFINE q == Quotient(off)
<1>1. PAGE \in Nat \ {0} /\ INTMAX \in Nat \ {0}
  BY MMapAssumption
<1>2. /\ q \in Int /\ q * PAGE \in Int
      /\ off - q * PAGE \in 1 - PAGE..PAGE - 1
      /\ off >= 0 => q * PAGE \in 0..off
      /\ off < 0 => q * PAGE \in off..0
  <2>1. ASSUME NEW n \in Nat
        PROVE  /\ n \div PAGE \in Nat /\ (n \div PAGE) * PAGE \in 0..n
               /\ n - (n \div PAGE) * PAGE \in 0..PAGE - 1
    <3> DEFINE d == n \div PAGE
               r == n % PAGE
    <3>1. d \in Int /\ r \in 0..PAGE - 1 /\ n = d * PAGE + r
      BY <1>1
    <3>2. d >= 0 /\ d * PAGE \in Nat
      BY <1>1, <3>1
    <3> HIDE DEF d, r
    <3>3. d \in Nat /\ d * PAGE \in 0..n /\ n - d * PAGE \in 0..PAGE - 1
      BY <1>1, <3>1, <3>2
    <3> QED BY <3>3 DEF d
  <2>2. CASE off >= 0
    BY <1>1, <2>1, <2>2 DEF Quotient
  <2>3. CASE off < 0
    <3> DEFINE d == (-off) \div PAGE
    <3>1. d \in Nat /\ d * PAGE \in 0..(-off) /\ (-off) - d * PAGE \in 0..PAGE - 1
      BY <2>1, <2>3
    <3>2. q = -d
      BY <2>3 DEF Quotient
    <3> HIDE DEF d, q
    <3>3. q * PAGE = -(d * PAGE)
      BY <1>1, <3>1, <3>2
    <3>4. q \in Int
      BY <3>1, <3>2
    <3> QED BY <1>1, <2>3, <3>1, <3>3, <3>4
  <2> QED BY <2>2, <2>3
<1>4. PosBase(off) = ToInt(q * PAGE) /\ PosOffs(off) = off - q * PAGE
  BY DEF PosBase, PosOffs
<1>5. off \in -INTMAX..INTMAX - 1 => q * PAGE \in -INTMAX..INTMAX - 1
  <2> HIDE DEF q
  <2> QED BY <1>1, <1>2
<1> HIDE DEF q
<1>6. PICK p \in Int : p = q * PAGE
  BY <1>2
<1> QED BY <1>1, <1>2, <1>4, <1>5, <1>6, IntOf

LEMMA SizeFits ==
  ASSUME NEW f \in Files, NEW off \in Int, NEW sz \in Sizes
  PROVE  SizeOf(f, off, sz) \in 0..WORD - 1
<1>1. WORD \in Nat \ {0} /\ Sizes \subseteq 0..WORD - 1 /\ f \in Int
  BY MMapAssumption DEF Files, NoFile
<1>2. FileLength(f) \in Int
  BY <1>1 DEF FileLength
<1>3. (FileLength(f) - off) % WORD \in 0..WORD - 1
  BY <1>1, <1>2
<1> QED BY <1>1, <1>3 DEF SizeOf

-----------------------------------------------------------------------------
(* What the functions on members do to a sound object.                     *)

LEMMA HandleFacts ==
  /\ NULL \notin Int /\ NULL # FAILED /\ NULL \in Handles /\ FAILED \in Handles
  /\ \A h \in Handles \ {NULL, FAILED} : h.base \in Int /\ h.pages \in Nat
  /\ \A h \in Handles : PagesOf(h) \in Nat
  /\ NoFile \in Files
BY MMapAssumption DEF Handles, PagesOf, Files

LEMMA ClosedSound ==
  ASSUME NEW o \in Objects, NEW m, NEW p, NEW d, NEW g, NEW a,
         Sound(o, m, p, d, g, a)
  PROVE  /\ Sound(o, Closed(m), p - Unmaps(m), d, g, a)
         /\ ~IsValid(Closed(m)) /\ Closed(m).fd = m.fd
         /\ p - Unmaps(m) = 0
<1>1. m \in Members /\ m = [hMap |-> m.hMap, ptr |-> m.ptr, size |-> m.size, fd |-> m.fd]
  BY DEF Sound, Members
<1>2. 0 \in 0..WORD - 1
  BY MMapAssumption
<1>3. Closed(m) \in Members /\ ~IsValid(Closed(m)) /\ Closed(m).fd = m.fd
  BY <1>1, <1>2 DEF Closed, IsValid, Members
<1>4. p - Unmaps(m) = 0
  <2>1. CASE IsValid(m)
    BY <2>1, HandleFacts DEF Sound, ClosesAll
  <2>2. CASE ~IsValid(m)
    BY <2>2 DEF Sound, Unmaps
  <2> QED BY <2>1, <2>2
<1>5. HasFd(Closed(m)) <=> HasFd(m)
  BY <1>3 DEF HasFd
<1> QED BY <1>3, <1>4, <1>5 DEF Sound, ClosesAll, Window

LEMMA FileClosedSound ==
  ASSUME NEW o \in FileObjects, NEW m, NEW p, NEW d, NEW g, NEW a,
         Sound(o, m, p, d, g, a)
  PROVE  /\ Sound(o, FileClosed(m), p - Unmaps(m), d - Closes(o, m), g, a)
         /\ Paid(FileClosed(m), d - Closes(o, m), g)
         /\ ~IsValid(FileClosed(m)) /\ FileClosed(m).fd = NoFile
<1>1. /\ Sound(o, Closed(m), p - Unmaps(m), d, g, a)
      /\ ~IsValid(Closed(m)) /\ Closed(m).fd = m.fd
  BY ClosedSound, MMapAssumption
<1>2. Closed(m) \in Members
  BY <1>1 DEF Sound
<1>3. FileClosed(m) \in Members /\ ~IsValid(FileClosed(m)) /\ FileClosed(m).fd = NoFile
  BY <1>1, <1>2, HandleFacts DEF FileClosed, Members, IsValid
<1>4. d - Closes(o, m) \in Nat /\ d - Closes(o, m) <= g
  <2>1. HasFd(Closed(m)) <=> HasFd(m)
    BY <1>1 DEF HasFd
  <2> QED BY <1>1, <2>1 DEF Sound, Closes
<1>5. ~HasFd(FileClosed(m))
  BY <1>3 DEF HasFd
<1> QED BY <1>1, <1>3, <1>4, <1>5 DEF Sound, Paid, ClosesAll, Window

\* A mapping, in an object that is not valid, succeeds or fails.
LEMMA MapsSound ==
  ASSUME NEW o \in Objects, NEW m, NEW d, NEW g, NEW a, Sound(o, m, 0, d, g, a),
         ~IsValid(m),
         NEW f \in Files, NEW off \in Int, NEW sz \in Sizes,
         NEW n \in Maps(m, f, off, sz)
  PROVE  /\ Sound(o, n, PagesOf(n.hMap), d, After(g, n), off)
         /\ Paid(n, d, After(g, n))
<1> DEFINE size == SizeOf(f, off, sz)
           base == PosBase(off)
           offs == PosOffs(off)
<1>1. m \in Members
  BY DEF Sound
<1>2. size \in 0..WORD - 1 /\ base \in Int /\ offs \in 1 - PAGE..PAGE - 1
  BY SizeFits, PositionOf
<1>3. PICK h \in Mmap(f, size, base) :
        n = IF h = FAILED /\ offs = 0
            THEN [m EXCEPT !.hMap = NULL, !.ptr = NULL, !.size = 0]
            ELSE [m EXCEPT !.hMap = h, !.ptr = Pointer(h, offs), !.size = size]
  BY DEF Maps
<1>4. \/ h = FAILED
      \/ h = [base |-> base, pages |-> Pages(size)] /\ size \in Nat
  BY <1>2, <1>3 DEF Mmap
<1>5. /\ d \in Nat /\ g \in Nat
      /\ HasFd(m) => o \in FileObjects /\ d >= 1
      /\ d <= g + (IF HasFd(m) THEN 1 ELSE 0)
  BY DEF Sound
\* A failure pays for the descriptor.
<1>6. ASSUME n \in Members, n.fd = m.fd, n.hMap \in {NULL, FAILED} \/ IsValid(n),
             ClosesAll(n), Window(n, off),
             PagesOf(n.hMap) = (IF IsValid(n) THEN PagesOf(n.hMap) ELSE 0)
      PROVE  /\ Sound(o, n, PagesOf(n.hMap), d, After(g, n), off)
             /\ Paid(n, d, After(g, n))
  <2>1. HasFd(n) <=> HasFd(m)
    BY <1>6 DEF HasFd
  <2>2. /\ After(g, n) \in Nat
        /\ d <= After(g, n) + (IF HasFd(n) THEN 1 ELSE 0)
        /\ n.hMap \in {NULL, FAILED} => d <= After(g, n)
    BY <1>5, <2>1 DEF After
  <2>3. PagesOf(n.hMap) \in Nat
    BY <1>6, HandleFacts DEF Members
  <2> QED BY <1>5, <1>6, <2>1, <2>2, <2>3 DEF Sound, Paid
<1>7. CASE h = FAILED /\ offs = 0
  <2>1. n = [m EXCEPT !.hMap = NULL, !.ptr = NULL, !.size = 0]
    BY <1>3, <1>7
  <2>2. 0 \in 0..WORD - 1
    BY MMapAssumption
  <2>3. n \in Members /\ n.hMap = NULL /\ n.ptr = NULL /\ n.fd = m.fd
    BY <1>1, <2>1, <2>2, HandleFacts DEF Members
  <2> QED BY <1>6, <2>3 DEF ClosesAll, Window, IsValid, PagesOf
<1>8. CASE ~(h = FAILED /\ offs = 0)
  <2>1. n = [m EXCEPT !.hMap = h, !.ptr = Pointer(h, offs), !.size = size]
    BY <1>3, <1>8
  <2>2. h \in Handles
    BY <1>2, <1>4, HandleFacts, PagesHold DEF Handles
  <2>3. Pointer(h, offs) \in 1 - PAGE..PAGE - 1 \cup {NULL}
    BY <1>2 DEF Pointer
  <2>4. n \in Members /\ n.fd = m.fd
    BY <1>1, <1>2, <2>1, <2>2, <2>3 DEF Members
  <2>5. n.hMap = h /\ n.ptr = Pointer(h, offs) /\ n.size = size
    BY <1>1, <2>1 DEF Members
  <2>6. h # FAILED => /\ h \notin {NULL, FAILED} /\ h.base = base /\ h.pages = Pages(size)
                      /\ n.ptr = offs /\ IsValid(n)
    BY <1>2, <1>4, <2>5, PagesHold, MMapAssumption DEF Pointer, IsValid
  <2>7. ClosesAll(n)
    BY <2>5, <2>6 DEF ClosesAll, Unmaps, PagesOf
  <2>8. Window(n, off)
    <3>1. CASE h = FAILED
      BY <1>8, <2>5, <3>1 DEF Window
    <3>2. CASE h # FAILED
      <4>1. /\ off \in -INTMAX..INTMAX - 1 => h.base + offs = off
            /\ off >= 0 => offs >= 0
        BY <2>6, <3>2, PositionOf
      <4>2. size <= h.pages * PAGE
        BY <1>2, <2>6, <3>2, PagesHold
      <4>3. offs + size <= h.pages * PAGE + (IF offs # 0 THEN PAGE - 1 ELSE 0)
        <5>1. h.pages * PAGE \in Int
          BY <1>2, <2>6, <3>2, PagesHold, MMapAssumption
        <5> QED BY <1>2, <4>2, <5>1, MMapAssumption
      <4> QED BY <2>5, <2>6, <3>2, <4>1, <4>3 DEF Window
    <3> QED BY <3>1, <3>2
  <2>9. PagesOf(n.hMap) = (IF IsValid(n) THEN PagesOf(n.hMap) ELSE 0)
    BY <2>5, <2>6 DEF PagesOf
  <2> QED BY <1>6, <2>4, <2>5, <2>6, <2>7, <2>8, <2>9
<1> QED BY <1>7, <1>8

-----------------------------------------------------------------------------
(* The invariant.                                                          *)

\* A step of one object leaves the others as they are.
LEMMA OneObject ==
  ASSUME Inv, NEW o \in Objects, NEW m, NEW p, NEW d, NEW g, NEW a,
         Sound(o, m, p, d, g, a), Paid(m, d, g),
         alive' \subseteq Objects, alive \ {o} = alive' \ {o},
         o \notin alive' => ~IsValid(m) /\ ~HasFd(m),
         obj' = [obj EXCEPT ![o] = m], mapped' = [mapped EXCEPT ![o] = p],
         open' = [open EXCEPT ![o] = d], failures' = [failures EXCEPT ![o] = g],
         asked' = [asked EXCEPT ![o] = a]
  PROVE  Inv'
<1>1. /\ obj' = [x \in Objects |-> obj'[x]] /\ mapped' = [x \in Objects |-> mapped'[x]]
      /\ open' = [x \in Objects |-> open'[x]] /\ asked' = [x \in Objects |-> asked'[x]]
      /\ failures' = [x \in Objects |-> failures'[x]]
  BY DEF Inv
<1>2. ASSUME NEW x \in Objects
      PROVE  /\ Sound(x, obj'[x], mapped'[x], open'[x], failures'[x], asked'[x])
             /\ Paid(obj'[x], open'[x], failures'[x])
  <2>1. CASE x = o
    BY <2>1 DEF Inv
  <2>2. CASE x # o
    BY <2>2 DEF Inv, SoundNow
  <2> QED BY <2>1, <2>2
<1>3. ASSUME NEW x \in Objects \ alive'
      PROVE  ~IsValid(obj'[x]) /\ ~HasFd(obj'[x])
  BY DEF Inv
<1>4. \A x \in Objects : SoundNow(x)'
  BY <1>2 DEF SoundNow
<1>5. \A x \in (Objects \ alive)' : ~IsValid(obj'[x]) /\ ~HasFd(obj'[x])
  BY <1>3
<1> QED BY <1>1, <1>4, <1>5 DEF Inv

LEMMA InitInv == Init => Inv
<1> SUFFICES ASSUME Init PROVE Inv
  OBVIOUS
<1>1. 0 \in 0..WORD - 1
  BY MMapAssumption
<1>2. NewMap \in Members /\ ~IsValid(NewMap) /\ NewMap.fd = NoFile
  BY <1>1, HandleFacts DEF NewMap, Members, IsValid
<1>3. ASSUME NEW o \in Objects PROVE Sound(o, NewMap, 0, 0, 0, 0) /\ Paid(NewMap, 0, 0)
  BY <1>2 DEF Sound, Paid, ClosesAll, Window, HasFd
<1>4. ASSUME NEW o \in Objects PROVE SoundNow(o) /\ obj[o] = NewMap
  BY <1>3 DEF Init, SoundNow
<1> QED BY <1>2, <1>4 DEF Init, Inv, HasFd

LEMMA NextInv ==
  ASSUME Inv, [Next]_vars
  PROVE  Inv'
<1> DEFINE S(o) == Sound(o, obj[o], mapped[o], open[o], failures[o], asked[o])
<1>a. \A o \in Objects : S(o) /\ Paid(obj[o], open[o], failures[o])
  BY DEF Inv, SoundNow
<1>b. FileObjects \subseteq Objects /\ Lengths \subseteq Nat /\ Offsets \subseteq Int
      /\ Lengths \subseteq Files
  BY MMapAssumption DEF Files
<1>1. ASSUME NEW o \in Objects, Construct(o) PROVE Inv'
  <2>1. 0 \in 0..WORD - 1
    BY MMapAssumption
  <2>2. NewMap \in Members /\ ~IsValid(NewMap) /\ NewMap.fd = NoFile
    BY <2>1, HandleFacts DEF NewMap, Members, IsValid
  <2>3. ~IsValid(obj[o]) /\ ~HasFd(obj[o])
    BY <1>1 DEF Inv, Construct
  <2>4. /\ Sound(o, NewMap, mapped[o], open[o], failures[o], asked[o])
        /\ Paid(NewMap, open[o], failures[o])
    BY <1>a, <2>2, <2>3 DEF Sound, Paid, ClosesAll, Window, HasFd
  <2>5. /\ mapped' = [mapped EXCEPT ![o] = mapped[o]]
        /\ open' = [open EXCEPT ![o] = open[o]]
        /\ failures' = [failures EXCEPT ![o] = failures[o]]
        /\ asked' = [asked EXCEPT ![o] = asked[o]]
    BY <1>1 DEF Construct, Inv
  <2>6. obj' = [obj EXCEPT ![o] = NewMap] /\ alive' = alive \cup {o}
    BY <1>1 DEF Construct
  <2>7. alive' \subseteq Objects /\ alive \ {o} = alive' \ {o} /\ o \in alive'
    BY <2>6 DEF Inv
  <2> QED BY <2>4, <2>5, <2>6, <2>7, OneObject
<1>2. ASSUME NEW o \in Objects, Close(o) \/ Destroy(o) PROVE Inv'
  <2> DEFINE m == IF o \in FileObjects THEN FileClosed(obj[o]) ELSE Closed(obj[o])
             p == mapped[o] - Unmaps(obj[o])
             d == open[o] - Closes(o, obj[o])
  <2>1. /\ Sound(o, m, p, d, failures[o], asked[o]) /\ Paid(m, d, failures[o])
        /\ ~IsValid(m) /\ ~HasFd(m)
    <3>1. CASE o \in FileObjects
      BY <1>a, <3>1, FileClosedSound DEF HasFd
    <3>2. CASE o \notin FileObjects
      <4>1. d = open[o]
        BY <1>a, <3>2 DEF Closes, Sound
      <4>2. /\ Sound(o, m, p, d, failures[o], asked[o])
            /\ ~IsValid(m) /\ m.fd = obj[o].fd
        BY <1>a, <3>2, <4>1, ClosedSound
      <4>3. ~HasFd(m)
        BY <3>2, <4>2 DEF Sound
      <4> QED BY <4>2, <4>3 DEF Sound, Paid
    <3> QED BY <3>1, <3>2
  <2>2. /\ obj' = [obj EXCEPT ![o] = m] /\ mapped' = [mapped EXCEPT ![o] = p]
        /\ open' = [open EXCEPT ![o] = d]
        /\ failures' = [failures EXCEPT ![o] = failures[o]]
        /\ asked' = [asked EXCEPT ![o] = asked[o]]
    BY <1>2 DEF Close, Destroy, CloseMembers, Inv
  <2>3. alive' \subseteq Objects /\ alive \ {o} = alive' \ {o}
    BY <1>2 DEF Close, Destroy, Inv
  <2> HIDE DEF m, p, d
  <2> QED BY <2>1, <2>2, <2>3, OneObject
<1>3. ASSUME NEW o \in Objects, NEW f \in Files, NEW off \in Offsets, NEW sz \in Sizes,
             Map(o, f, off, sz)
      PROVE  Inv'
  <2>1. /\ Sound(o, Closed(obj[o]), 0, open[o], failures[o], asked[o])
        /\ ~IsValid(Closed(obj[o])) /\ Closed(obj[o]).fd = obj[o].fd
        /\ mapped[o] - Unmaps(obj[o]) = 0
    BY <1>a, ClosedSound
  <2>2. PICK n \in Maps(Closed(obj[o]), f, off, sz) :
          /\ obj' = [obj EXCEPT ![o] = n]
          /\ mapped' = [mapped EXCEPT ![o] = @ - Unmaps(obj[o]) + PagesOf(n.hMap)]
          /\ failures' = [failures EXCEPT ![o] = After(@, n)]
    BY <1>3 DEF Map, Counts, After
  <2>3. /\ Sound(o, n, PagesOf(n.hMap), open[o], After(failures[o], n), off)
        /\ Paid(n, open[o], After(failures[o], n))
    BY <1>b, <2>1, MapsSound
  <2>4. mapped[o] - Unmaps(obj[o]) + PagesOf(n.hMap) = PagesOf(n.hMap)
    BY <2>1, <2>3 DEF Sound
  <2>5. /\ mapped' = [mapped EXCEPT ![o] = PagesOf(n.hMap)]
        /\ open' = [open EXCEPT ![o] = open[o]]
        /\ asked' = [asked EXCEPT ![o] = off]
        /\ alive' = alive /\ o \in alive
    BY <1>3, <2>2, <2>4 DEF Map, Inv
  <2> QED BY <2>2, <2>3, <2>5, OneObject DEF Inv
<1>4. ASSUME NEW o \in Objects, NEW f \in Lengths, NEW off \in Offsets, NEW sz \in Sizes,
             MapFile(o, f, off, sz)
      PROVE  Inv'
  <2> DEFINE m == obj[o]
             b == BeforeOpen(m)
             left == open[o] - (IF HasFd(m) /\ ~HasFd(b) THEN 1 ELSE 0)
  <2>a. o \in FileObjects /\ o \in alive /\ alive' = alive
    BY <1>4 DEF MapFile
  \* The object before the file is opened: what it has open was paid for.
  <2>1. /\ b \in Members /\ ~IsValid(b) /\ ClosesAll(b)
        /\ left \in Nat /\ left <= failures[o] /\ failures[o] \in Nat
        /\ mapped[o] - Unmaps(m) = 0
    <3>1. CASE IsValid(m)
      <4>1. b = FileClosed(m)
        BY <3>1 DEF BeforeOpen
      <4>2. /\ Sound(o, b, mapped[o] - Unmaps(m), open[o] - Closes(o, m),
                     failures[o], asked[o])
            /\ Paid(b, open[o] - Closes(o, m), failures[o])
            /\ ~IsValid(b) /\ b.fd = NoFile
        BY <1>a, <2>a, <4>1, FileClosedSound
      <4>3. ~HasFd(b) /\ Closes(o, m) = (IF HasFd(m) THEN 1 ELSE 0)
        BY <2>a, <4>2 DEF HasFd, Closes
      <4>4. mapped[o] - Unmaps(m) = 0
        BY <1>a, ClosedSound
      <4>5. left = open[o] - Closes(o, m)
        BY <4>3
      <4> HIDE DEF m, b, left
      <4> QED BY <4>2, <4>4, <4>5 DEF Sound, Paid
    <3>2. CASE ~IsValid(m)
      <4>1. b = m
        BY <3>2 DEF BeforeOpen
      <4> QED BY <1>a, <2>a, <3>2, <4>1 DEF Sound, Unmaps, Paid
    <3> QED BY <3>1, <3>2
  <2>2. asked' = [asked EXCEPT ![o] = off] /\ off \in Int
    BY <1>4, <1>b DEF MapFile
  \* The file is not opened.
  <2>3. ASSUME obj' = [obj EXCEPT ![o] = [b EXCEPT !.fd = NoFile]],
               open' = [open EXCEPT ![o] = left],
               mapped' = [mapped EXCEPT ![o] = @ - Unmaps(m)],
               failures' = failures
        PROVE  Inv'
    <3> DEFINE n == [b EXCEPT !.fd = NoFile]
    <3> HIDE DEF b, left
    <3>1. n \in Members /\ ~IsValid(n) /\ n.fd = NoFile
      BY <2>1, HandleFacts DEF Members, IsValid
    <3>2. Sound(o, n, 0, left, failures[o], off) /\ Paid(n, left, failures[o])
      BY <2>1, <2>2, <3>1 DEF Sound, Paid, ClosesAll, Window, HasFd
    <3>3. /\ mapped' = [mapped EXCEPT ![o] = 0]
          /\ failures' = [failures EXCEPT ![o] = failures[o]]
      BY <2>1, <2>3 DEF Inv
    <3> HIDE DEF n
    <3>4. obj' = [obj EXCEPT ![o] = n]
      BY <2>3 DEF n
    <3> QED BY <2>a, <2>2, <2>3, <3>2, <3>3, <3>4, OneObject DEF Inv
  \* The file is opened, and mmap() succeeds or fails.
  <2>4. ASSUME open' = [open EXCEPT ![o] = left + 1],
               NEW n \in Maps([b EXCEPT !.fd = f], f, off, sz),
               obj' = [obj EXCEPT ![o] = n],
               mapped' = [mapped EXCEPT ![o] = @ - Unmaps(m) + PagesOf(n.hMap)],
               Counts(o, n)
        PROVE  Inv'
    <3> DEFINE k == [b EXCEPT !.fd = f]
    <3> HIDE DEF b, left
    <3>1. k \in Members /\ ~IsValid(k) /\ k.fd = f
      BY <1>b, <2>1 DEF Members, IsValid
    <3>2. HasFd(k)
      BY <1>b, <3>1 DEF HasFd, NoFile
    <3> HIDE DEF k
    <3>3. Sound(o, k, 0, left + 1, failures[o], off)
      BY <2>a, <2>1, <2>2, <3>1, <3>2 DEF Sound, ClosesAll, Window
    <3>4. n \in Maps(k, f, off, sz)
      BY <2>4 DEF k
    <3>5. /\ Sound(o, n, PagesOf(n.hMap), left + 1, After(failures[o], n), off)
          /\ Paid(n, left + 1, After(failures[o], n))
      BY <1>b, <2>2, <3>1, <3>3, <3>4, MapsSound
    <3>6. mapped' = [mapped EXCEPT ![o] = PagesOf(n.hMap)]
      <4>1. mapped[o] - Unmaps(m) + PagesOf(n.hMap) = PagesOf(n.hMap)
        BY <2>1, <3>5 DEF Sound
      <4> QED BY <2>4, <4>1
    <3>7. failures' = [failures EXCEPT ![o] = After(failures[o], n)]
      BY <2>4 DEF Counts, After
    <3> QED BY <2>a, <2>2, <2>4, <3>5, <3>6, <3>7, OneObject DEF Inv
  <2> QED BY <1>4, <2>3, <2>4 DEF MapFile
<1>5. CASE UNCHANGED vars
  BY <1>5 DEF vars, Inv, SoundNow
<1> QED BY <1>1, <1>2, <1>3, <1>4, <1>5 DEF Next

LEMMA SpecInv == Spec => []Inv
<1>1. Inv /\ [Next]_vars => Inv'
  BY NextInv
<1> QED BY InitInv, <1>1, PTL DEF Spec

-----------------------------------------------------------------------------
(* The theorems.                                                           *)

\* Whatever was mapped, replaced, refused or closed before, m_hMap and m_size
\* tell of all the pages an object has mapped: MMap::close() unmaps them.
THEOREM PagesKept == Spec => []NothingMappedIsLost
<1>1. Inv => NothingMappedIsLost
  BY DEF Inv, SoundNow, Sound, NothingMappedIsLost
<1> QED BY SpecInv, <1>1, PTL

\* For any number of tries: every descriptor MMapFile has lost was paid for by
\* a mapping that failed, and a valid object has at most one more, in m_fd.
THEOREM DescriptorsKept == Spec => []DescriptorsAccounted
<1>1. ASSUME Inv, NEW o \in Objects
      PROVE  open[o] <= failures[o] + (IF HasFd(obj[o]) /\ IsValid(obj[o]) THEN 1 ELSE 0)
  <2>1. /\ Sound(o, obj[o], mapped[o], open[o], failures[o], asked[o])
        /\ Paid(obj[o], open[o], failures[o])
    BY <1>1 DEF Inv, SoundNow
  <2> QED BY <2>1 DEF Sound, Paid
<1>2. Inv => DescriptorsAccounted
  BY <1>1 DEF DescriptorsAccounted
<1> QED BY SpecInv, <1>2, PTL

\* For any page size, the window of a valid object begins at the byte asked for,
\* if an int holds the offset, and not before the mapping, if the offset is not
\* negative; it ends in the mapped pages or, for an offset inside a page, less
\* than a page after them.  Inside a page the object may be valid although
\* mmap() failed.  The arithmetic of MMap::_mmap().
THEOREM WindowCorrect == Spec => []WindowRight
<1>1. Inv => WindowRight
  BY DEF Inv, SoundNow, Sound, Window, WindowRight
<1> QED BY SpecInv, <1>1, PTL

\* Types: no size or pointer leaves its range.
THEOREM TypeCorrect == Spec => []TypeOK
<1>1. Inv => TypeOK
  BY DEF Inv, SoundNow, Sound, Members, TypeOK
<1> QED BY SpecInv, <1>1, PTL
=============================================================================
