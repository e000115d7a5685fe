--------------------------------- MODULE MMap ---------------------------------
(***************************************************************************)
(* gcl::MMap and gcl::MMapFile (include/gmmap.h, src/gmmap.cpp, unix).     *)
(*                                                                         *)
(* The state of an object is that of its members, and what the operating   *)
(* system keeps for it: pages that are mapped, descriptors that are open.  *)
(* A file is its length.  m_ptr is counted from what mmap() returned, to   *)
(* which the code adds the part of the offset inside a page, also when     *)
(* what it returned is MAP_FAILED; the word after that is null.  Objects   *)
(* are not copied.                                                         *)
(***************************************************************************)
EXTENDS Integers

CONSTANTS
  Objects,      \* MMap objects
  FileObjects,  \* those that are MMapFile
  Lengths,      \* the lengths of files
  Offsets,      \* the offsets clients give
  Sizes,        \* the sizes clients give, 0 for the rest of the file
  PAGE,         \* getpagesize()
  INTMAX,       \* INT_MAX + 1
  WORD,         \* SIZE_MAX + 1
  Room,         \* the bytes that can be mapped at once
  MaxFailures,  \* bound: how often mmap() fails for an object
  NULL, FAILED  \* null and MAP_FAILED

ASSUME MMapAssumption ==
  /\ FileObjects \subseteq Objects
  /\ PAGE \in Nat \ {0} /\ INTMAX \in Nat \ {0} /\ WORD \in Nat \ {0}
  /\ Room \in Nat /\ Room < WORD /\ MaxFailures \in Nat
  /\ Lengths \subseteq Nat /\ Offsets \subseteq Int /\ Sizes \subseteq 0..WORD - 1
  /\ NULL \notin Int /\ NULL # FAILED
  /\ FAILED \notin [base : Int, pages : Nat] /\ NULL \notin [base : Int, pages : Nat]

VARIABLES
  obj,      \* the members: hMap, ptr, size, fd
  alive,    \* the objects between constructor and destructor
  mapped,   \* pages mapped by an object and not unmapped
  open,     \* descriptors opened by an object and not closed
  asked,    \* the offset of the last mapping
  failures  \* history: how often mmap() failed for an object

vars == <<obj, alive, mapped, open, asked, failures>>

NoFile == -1

\* A file descriptor is what it describes: the length of a file, or nothing.
Files == Lengths \cup {NoFile}

NewMap == [hMap |-> NULL, ptr |-> NULL, size |-> 0, fd |-> NoFile]

Init == /\ obj = [o \in Objects |-> NewMap] /\ alive = {}
        /\ mapped = [o \in Objects |-> 0] /\ open = [o \in Objects |-> 0]
        /\ asked = [o \in Objects |-> 0] /\ failures = [o \in Objects |-> 0]

-----------------------------------------------------------------------------
(* Arithmetic.                                                             *)

\* Pages that hold n bytes.
Pages(n) == (n + PAGE - 1) \div PAGE

\* The value of x in an int.
ToInt(x) == ((x + INTMAX) % (2 * INTMAX)) - INTMAX

\* _filelength(), -1 as a size_t when the descriptor is none.
FileLength(f) == f % WORD

\* MUTANT: an offset past the end of the file gives a negative size.
SizeOfSigned(f, off, sz) == IF sz = 0 THEN FileLength(f) - off ELSE sz

\* The size that is mapped: the one given, or the rest of the file.
SizeOf(f, off, sz) == IF sz = 0 THEN (FileLength(f) - off) % WORD ELSE sz

\* The quotient offset / page_size, which is cut off towards zero.
Quotient(off) == IF off >= 0 THEN off \div PAGE ELSE -((-off) \div PAGE)

\* MUTANT: the number of the page, not of its first byte.
PosBasePage(off) == ToInt(Quotient(off))

\* pos_base and pos_offs.
PosBase(off) == ToInt(Quotient(off) * PAGE)
PosOffs(off) == off - Quotient(off) * PAGE

\* What mmap() may return.  The offset means nothing when there is no file.
Mmap(f, n, base) ==
  {FAILED} \cup IF n \in 1..Room /\ (base >= 0 \/ f = NoFile)
                THEN {[base |-> base, pages |-> Pages(n)]} ELSE {}

-----------------------------------------------------------------------------
(* Members.                                                                *)

IsValid(m) == m.ptr # NULL
PagesOf(h) == IF h \in {NULL, FAILED} THEN 0 ELSE h.pages

\* MUTANT: m_ptr is not reset.
ClosedKeepsPtr(m) == IF IsValid(m) THEN [m EXCEPT !.size = 0] ELSE m

\* MMap::close(), and the pages it unmaps.
Closed(m) == IF IsValid(m) THEN [m EXCEPT !.size = 0, !.ptr = NULL] ELSE m
Unmaps(m) == IF IsValid(m) /\ m.hMap \notin {NULL, FAILED} THEN Pages(m.size) ELSE 0

\* m_ptr = h and m_ptr += offs.
Pointer(h, offs) == IF h = FAILED /\ offs = 1 THEN NULL ELSE offs

\* MMap::_mmap() after close(): the members it may leave.  Inside a page the
\* test for MAP_FAILED comes too late.
Maps(m, f, off, sz) ==
  {IF h = FAILED /\ PosOffs(off) = 0
   THEN [m EXCEPT !.hMap = NULL, !.ptr = NULL, !.size = 0]
   ELSE [m EXCEPT !.hMap = h, !.ptr = Pointer(h, PosOffs(off)),
                  !.size = SizeOf(f, off, sz)]
     : h \in Mmap(f, SizeOf(f, off, sz), PosBase(off))}

\* The failures of o after such a mapping.
Counts(o, m) ==
  LET failed == m.hMap \in {NULL, FAILED}
  IN  /\ failed => failures[o] < MaxFailures
      /\ failures' = [failures EXCEPT ![o] = @ + (IF failed THEN 1 ELSE 0)]

-----------------------------------------------------------------------------
(* Operations.                                                             *)

HasFd(m) == m.fd # NoFile

\* MUTANT: m_fd is not reset.
FileClosedKeepsFd(m) == Closed(m)

\* MMapFile::close() closes the descriptor too.
FileClosed(m) == [Closed(m) EXCEPT !.fd = NoFile]
Closes(o, m) == IF o \in FileObjects /\ HasFd(m) THEN 1 ELSE 0

Construct(o) ==
  /\ o \notin alive /\ alive' = alive \cup {o}
  /\ obj' = [obj EXCEPT ![o] = NewMap]
  /\ UNCHANGED <<mapped, open, asked, failures>>

\* MMap::_mmap(), called with a descriptor of the client's, or with none by
\* mmap_vro() and mmap_vrw(), which objects of both classes have, or by a client
\* whose open() failed.  It calls MMap::close(), which leaves the descriptor of
\* an MMapFile.
Map(o, f, off, sz) ==
  LET m == obj[o]
  IN  /\ o \in alive
      /\ o \in FileObjects => f = NoFile /\ off = 0
      /\ \E n \in Maps(Closed(m), f, off, sz) :
           /\ obj' = [obj EXCEPT ![o] = n]
           /\ mapped' = [mapped EXCEPT ![o] = @ - Unmaps(m) + PagesOf(n.hMap)]
           /\ Counts(o, n)
      /\ asked' = [asked EXCEPT ![o] = off]
      /\ UNCHANGED <<alive, open>>

\* What MMapFile::_mmap() leaves of the members before it opens the file.
BeforeOpen(m) == IF IsValid(m) THEN FileClosed(m) ELSE m

\* MMapFile::_mmap().  A descriptor that is still there, as a mapping failed
\* since its file was opened, is overwritten.
MapFile(o, f, off, sz) ==
  LET m == obj[o]
      b == BeforeOpen(m)
      left == open[o] - (IF HasFd(m) /\ ~HasFd(b) THEN 1 ELSE 0)
  IN  /\ o \in alive \cap FileObjects
      /\ asked' = [asked EXCEPT ![o] = off]
      /\ UNCHANGED alive
      /\ \/ /\ obj' = [obj EXCEPT ![o] = [b EXCEPT !.fd = NoFile]]
            /\ open' = [open EXCEPT ![o] = left]
            /\ mapped' = [mapped EXCEPT ![o] = @ - Unmaps(m)]
            /\ UNCHANGED failures
         \/ /\ open' = [open EXCEPT ![o] = left + 1]
            /\ \E n \in Maps([b EXCEPT !.fd = f], f, off, sz) :
                 /\ obj' = [obj EXCEPT ![o] = n]
                 /\ mapped' = [mapped EXCEPT ![o] =
                                  @ - Unmaps(m) + PagesOf(n.hMap)]
                 /\ Counts(o, n)

\* close() of the class of the object.
CloseMembers(o) ==
  /\ obj' = [obj EXCEPT ![o] = IF o \in FileObjects THEN FileClosed(@) ELSE Closed(@)]
  /\ mapped' = [mapped EXCEPT ![o] = @ - Unmaps(obj[o])]
  /\ open' = [open EXCEPT ![o] = @ - Closes(o, obj[o])]
  /\ UNCHANGED <<asked, failures>>

Close(o) == o \in alive /\ CloseMembers(o) /\ UNCHANGED alive
Destroy(o) == o \in alive /\ CloseMembers(o) /\ alive' = alive \ {o}

Next ==
  \E o \in Objects :
    \/ Construct(o) \/ Close(o) \/ Destroy(o)
    \/ \E f \in Files, off \in Offsets, sz \in Sizes : Map(o, f, off, sz)
    \/ \E f \in Lengths, off \in Offsets, sz \in Sizes : MapFile(o, f, off, sz)

Spec == Init /\ [][Next]_vars

-----------------------------------------------------------------------------
(* Correctness.                                                            *)

Handles == [base : Int, pages : Nat] \cup {NULL, FAILED}

\* Types.
TypeOK ==
  /\ alive \subseteq Objects
  /\ obj \in [Objects -> [hMap : Handles, ptr : 1 - PAGE..PAGE - 1 \cup {NULL},
                           size : 0..WORD - 1, fd : Files]]
  /\ mapped \in [Objects -> Nat] /\ open \in [Objects -> Nat]
  /\ asked \in [Objects -> Int] /\ failures \in [Objects -> Nat]

\* close() unmaps by m_hMap and m_size and only a valid object, so these have
\* to tell of every page the object has mapped, whatever mixture of mappings
\* that replace one another, fail, or are of the other kind came before.
NothingMappedIsLost ==
  \A o \in Objects :
    mapped[o] = IF IsValid(obj[o]) THEN PagesOf(obj[o].hMap) ELSE 0

\* A descriptor is lost only after a mapping failed, and every failure costs at
\* most one: while its object is valid all but those are closed or in m_fd.
\* close(), destruction, failures of open(), and mappings of the other kind,
\* which leave m_fd alone, cost none.
DescriptorsAccounted ==
  \A o \in Objects :
    open[o] <= failures[o] + (IF HasFd(obj[o]) /\ IsValid(obj[o]) THEN 1 ELSE 0)

\* An object that says it is valid has mapped what was asked for: it starts at
\* that byte of the file and ends in the mapped pages.  Of offsets an int does
\* not hold, the start is not claimed.  For an offset inside a page, the object
\* may be valid although mmap() failed; its last bytes, less than a page, may be
\* past the mapping, whose size leaves pos_offs out; and if it is negative, its
\* first ones are before the mapping.
WindowRight ==
  \A o \in alive :
    LET m == obj[o]
        inside == PosOffs(asked[o]) # 0
    IN  IsValid(m) =>
          \/ m.hMap = FAILED /\ inside
          \/ /\ m.hMap \notin {NULL, FAILED}
             /\ asked[o] \in -INTMAX..INTMAX - 1 => m.hMap.base + m.ptr = asked[o]
             /\ asked[o] >= 0 => m.ptr >= 0
             /\ m.ptr + m.size <= m.hMap.pages * PAGE
                                  + (IF inside THEN PAGE - 1 ELSE 0)
=============================================================================
