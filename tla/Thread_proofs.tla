----------------------------- MODULE Thread_proofs -----------------------------
(***************************************************************************)
(* Proofs about Thread for any number of objects, pthreads and keys.       *)
(*                                                                         *)
(* A pthread is active from its creation until it has cleared m_tid.  The  *)
(* inductive invariant ties the three views of an active pthread together: *)
(* what the object says (m_t and m_tid), where the pthread is, and what    *)
(* the main thread waits for.  m_t is the handle of the one active pthread *)
(* of the object, m_tid is set exactly while that pthread is past its      *)
(* increment, and main is in start() until it has posted.  Of an object    *)
(* that ++ gave the number (unsigned)(-1) only the last of these is kept.  *)
(***************************************************************************)
EXTENDS Thread, WellFoundedInduction, TLAPS

Entered == {"post", "run", "deleted", "cleanup"}
Active == Before \cup Entered

Places == Active \cup {"unused", "cleanup load", "decrement", "delete key",
                       "reset key", "dead"}

Calls == [at : {"create key", "set main", "sem_wait", "cancel", "join"},
          op : {"ctor", "start", "join", "stop", "dtor"}, obj : Objects]

GlobalsTyped ==
  /\ count \in 0..COUNTMAX-1 /\ key \in Keys /\ liveKeys \in SUBSET Keys
  /\ tls \in [Contexts -> [Keys -> Objects \cup {MAIN, NULL}]]
  /\ misnumbered \subseteq Objects

ObjectsTyped ==
  /\ life \in [Objects -> {"none", "alive", "freed"}]
  /\ tid \in [Objects -> 0..COUNTMAX-1]
  /\ handle \in [Objects -> Contexts]

MainTyped == main \in Calls \cup {Idle} /\ sem \in {0, 1}

ThreadsTyped ==
  /\ pc \in [Pthreads -> Places]
  /\ obj \in [Pthreads -> Objects \cup {NULL}]
  /\ tmp \in [Pthreads -> 0..COUNTMAX-1]
  /\ cancelled \in [Pthreads -> BOOLEAN]
  /\ \A p \in Pthreads : (pc[p] = "unused") <=> (obj[p] = NULL)

Typed == GlobalsTyped /\ ObjectsTyped /\ MainTyped /\ ThreadsTyped

\* The main thread is never taken for a Thread of the program.
MainIsMain == \A k \in Keys : tls[0][k] \in {MAIN, NULL}

\* The semaphore is posted only after its pthread is done with the frame.
SemPosted == /\ main.at # "sem_wait" => sem = 0
             /\ \A p \in Pthreads : pc[p] \in Before => sem = 0

\* m_t is the handle of the active pthread of an object.
HandleOfActive ==
  \A p \in Pthreads : obj[p] \in Numbered /\ pc[p] \in Active => handle[obj[p]] = p

\* m_tid is set exactly while the pthread of m_t has entered user code, or is
\* just before or behind it.
TidOfEntered ==
  /\ \A p \in Pthreads :
       obj[p] \in Numbered /\ pc[p] \in Entered => tid[obj[p]] # NoTid
  /\ \A o \in Numbered : tid[o] # NoTid =>
       /\ handle[o] \in Pthreads
       /\ pc[handle[o]] \in Entered /\ obj[handle[o]] = o

\* The object of an active pthread is there, unless its user code deletes it.
AliveWhileActive ==
  \A p \in Pthreads :
    obj[p] \in Numbered \ SelfDeleting /\ pc[p] \in Active \ {"deleted"} =>
      life[obj[p]] = "alive"

\* Only the user code that deletes its object is in the place after that.
DeletedIsSelf ==
  \A p \in Pthreads : pc[p] = "deleted" => obj[p] \in SelfDeleting

\* How main, the objects and the pthreads hang together.
Linked == /\ FrameAlive /\ SemPosted
          /\ HandleOfActive /\ TidOfEntered
          /\ AliveWhileActive /\ DeletedIsSelf

USE DEF Numbered

Inv == Typed /\ MainIsMain /\ Linked

-----------------------------------------------------------------------------
(* What the invariant implies, and that it holds at first.                 *)

LEMMA InvImplies == Inv => TypeOK /\ FrameAlive /\ OneRunner /\ NoUseAfterFree
<1> SUFFICES ASSUME Inv PROVE TypeOK /\ OneRunner /\ NoUseAfterFree
  BY DEF Inv, Linked
<1>1. TypeOK
  <2>1. /\ main.at \in {"idle", "create key", "set main", "sem_wait", "cancel", "join"}
        /\ main = Idle \/ main.obj \in Objects
    <3>1. CASE main = Idle  BY <3>1 DEF Idle
    <3>2. CASE main \in Calls  BY <3>2 DEF Calls
    <3> QED BY <3>1, <3>2 DEF Inv, Typed, MainTyped
  <2> QED BY <2>1 DEF Inv, Typed, GlobalsTyped, ObjectsTyped, MainTyped, ThreadsTyped, TypeOK
<1>2. OneRunner
  BY DEF Inv, Typed, ThreadsTyped, Linked, OneRunner, HandleOfActive, TidOfEntered, Active, Entered, Before
<1>3. NoUseAfterFree
  BY DEF Inv, Linked, AliveWhileActive, NoUseAfterFree, Active, Entered, Before
<1> QED BY <1>1, <1>2, <1>3

LEMMA InitInv == Init => Inv
<1> SUFFICES ASSUME Init PROVE Inv
  OBVIOUS
<1> USE ThreadAssumption
<1>1. Typed
  <2>1. 0 \in Contexts /\ 0 \in 0..COUNTMAX-1 /\ NoTid \in 0..COUNTMAX-1
    BY DEF Contexts, NoTid
  <2>2. tls \in [Contexts -> [Keys -> Objects \cup {MAIN, NULL}]]
    BY DEF Init
  <2>3. /\ pc \in [Pthreads -> Places] /\ obj \in [Pthreads -> Objects \cup {NULL}]
        /\ \A p \in Pthreads : pc[p] = "unused" /\ obj[p] = NULL
    BY DEF Init, Places
  <2> QED BY <2>1, <2>2, <2>3 DEF Init, Typed, GlobalsTyped, ObjectsTyped, MainTyped, ThreadsTyped
<1>2. MainIsMain
  BY DEF Init, MainIsMain, Contexts
<1>3. FrameAlive /\ SemPosted /\ HandleOfActive /\ AliveWhileActive /\ DeletedIsSelf
  BY DEF Init, FrameAlive, SemPosted, HandleOfActive, AliveWhileActive,
         DeletedIsSelf, Idle, Active, Entered, Before
<1>4. TidOfEntered
  BY DEF Init, TidOfEntered, Entered, NoTid
<1> QED BY <1>1, <1>2, <1>3, <1>4 DEF Inv, Linked

\* A set of numbers that is not empty has a least one.
LEMMA LeastOf ==
  ASSUME NEW T, T \subseteq Nat, T # {}
  PROVE  \E x \in T : \A y \in T : x <= y
<1> DEFINE R == OpToRel(<, Nat)
<1>1. IsWellFoundedOn(R, Nat)
  BY NatLessThanWellFounded
<1>2. \A x, y \in Nat : x < y => <<x, y>> \in R
  BY DEF OpToRel
<1> HIDE DEF R
<1>3. PICK x \in T : \A y \in T : ~(<<y, x>> \in R)
  BY <1>1, WFMin
<1>4. ASSUME NEW y \in T PROVE x <= y
  <2>1. x \in Nat /\ y \in Nat
    OBVIOUS
  <2>2. ~(<<y, x>> \in R)
    BY <1>3
  <2>3. ~(y < x)
    BY <1>2, <2>1, <2>2, Zenon
  <2> QED BY <2>1, <2>3
<1> QED BY <1>4

\* The pthread start() takes is one that was not used.
LEMMA UnusedChosen ==
  ASSUME {p \in Pthreads : pc[p] = "unused"} # {}
  PROVE  LET unused == {p \in Pthreads : pc[p] = "unused"}
             p == CHOOSE q \in unused : \A r \in unused : q <= r
         IN  p \in Pthreads /\ pc[p] = "unused"
<1> DEFINE unused == {p \in Pthreads : pc[p] = "unused"}
           p == CHOOSE q \in unused : \A r \in unused : q <= r
<1>1. unused \subseteq Nat
  BY ThreadAssumption DEF Pthreads
<1>2. unused # {}
  OBVIOUS
<1>3. \E q \in unused : \A r \in unused : q <= r
  <2> HIDE DEF unused
  <2> QED BY <1>1, <1>2, LeastOf
<1>4. p \in unused
  <2> HIDE DEF unused
  <2> QED BY <1>3, Zenon
<1> QED BY <1>4

-----------------------------------------------------------------------------
(* Steps that change little of what main, objects and pthreads share.      *)

\* A pthread goes on, and stays before its post, in the reach of user code,
\* or behind its hold of the object.
LEMMA MoveKeepsLinked ==
  ASSUME Inv, NEW p \in Pthreads, NEW from, NEW to, Move(p, from, to),
         UNCHANGED <<misnumbered, life, tid, handle, main, sem, obj>>,
         \/ from \in Before \ {"post"} /\ to \in Before \ {"post"}
         \/ from \in Entered \ {"post"} /\ to \in Entered \ {"post", "deleted"}
         \/ from \notin Active /\ to \notin Active
  PROVE  Linked'
<1>1. /\ pc \in [Pthreads -> Places] /\ pc[p] = from
      /\ \A q \in Pthreads : pc'[q] = IF q = p THEN to ELSE pc[q]
  BY DEF Inv, Typed, ThreadsTyped, Move
<1>2. \A q \in Pthreads : /\ pc'[q] \in Before <=> pc[q] \in Before
                          /\ pc'[q] \in Entered <=> pc[q] \in Entered
                          /\ pc'[q] \in Active <=> pc[q] \in Active
                          /\ pc'[q] = "deleted" => pc[q] = "deleted"
  BY <1>1 DEF Active, Entered, Before
<1>3. FrameAlive' /\ SemPosted' /\ HandleOfActive' /\ DeletedIsSelf'
  BY <1>2 DEF Inv, Linked, FrameAlive, SemPosted, HandleOfActive, DeletedIsSelf
<1>4. TidOfEntered'
  BY <1>2 DEF Inv, Linked, TidOfEntered
<1>5. AliveWhileActive'
  BY <1>1, <1>2 DEF Inv, Linked, AliveWhileActive, DeletedIsSelf
<1> QED BY <1>3, <1>4, <1>5 DEF Linked

\* The main thread does something outside start() that ends no object but one
\* without active pthread.
LEMMA MainKeepsLinked ==
  ASSUME Inv, UNCHANGED <<misnumbered, pc, obj, tid, handle, sem>>,
         main.at # "sem_wait", main'.at # "sem_wait",
         \A p \in Pthreads : obj[p] \in Numbered /\ pc[p] \in Active =>
           life'[obj[p]] = life[obj[p]]
  PROVE  Linked'
<1>1. FrameAlive' /\ SemPosted' /\ HandleOfActive' /\ DeletedIsSelf'
  BY DEF Inv, Linked, FrameAlive, SemPosted, HandleOfActive, DeletedIsSelf
<1>2. TidOfEntered'
  BY DEF Inv, Linked, TidOfEntered
<1>3. AliveWhileActive'
  BY DEF Inv, Linked, AliveWhileActive
<1> QED BY <1>1, <1>2, <1>3 DEF Linked

\* An object whose m_tid is clear has no active pthread, unless main starts it.
LEMMA NoneActive ==
  ASSUME Inv, NEW o \in Numbered, tid[o] = NoTid, main.at # "sem_wait"
  PROVE  \A p \in Pthreads : obj[p] = o => pc[p] \notin Active
BY DEF Inv, Linked, FrameAlive, TidOfEntered, Active

\* Nor has one whose m_t is a pthread that has ended.
LEMMA DeadHandle ==
  ASSUME Inv, NEW o \in Numbered, pc[handle[o]] = "dead"
  PROVE  /\ tid[o] = NoTid
         /\ \A p \in Pthreads : obj[p] = o => pc[p] \notin Active
BY DEF Inv, Linked, HandleOfActive, TidOfEntered, Active, Entered, Before

\* The end of a call of stop(), join() or the destructor.
LEMMA ReturnInv ==
  ASSUME Inv, NEW o \in Objects, NEW op, Return(o, op),
         UNCHANGED <<globals, tid, handle, sem, threads>>,
         main.at # "sem_wait",
         o \in Numbered => \A p \in Pthreads : obj[p] = o => pc[p] \notin Active
  PROVE  Inv'
<1>1. life' \in [Objects -> {"none", "alive", "freed"}]
      /\ \A p \in Pthreads : obj[p] \in Numbered /\ pc[p] \in Active =>
           life'[obj[p]] = life[obj[p]]
  BY DEF Inv, Typed, ObjectsTyped, Return
<1>2. main' = Idle /\ main'.at # "sem_wait"
  BY DEF Return, Idle
<1>3. Linked'
  BY <1>1, <1>2, MainKeepsLinked DEF threads, globals
<1>4. Typed'
  BY <1>1, <1>2 DEF Inv, Typed, GlobalsTyped, ObjectsTyped, MainTyped, ThreadsTyped, globals, threads
<1>5. MainIsMain'
  BY DEF Inv, MainIsMain, globals
<1> QED BY <1>3, <1>4, <1>5 DEF Inv

LEMMA CallTyped ==
  ASSUME NEW at \in {"create key", "set main", "sem_wait", "cancel", "join"},
         NEW op \in {"ctor", "start", "join", "stop", "dtor"},
         NEW o \in Objects, Calling(at, op, o)
  PROVE  main' \in Calls /\ main'.at = at /\ main'.obj = o /\ main' # Idle
BY DEF Calling, Calls, Idle

LEMMA GotoTyped ==
  ASSUME NEW at \in {"create key", "set main", "sem_wait", "cancel", "join"},
         main \in Calls, Goto(at)
  PROVE  main' \in Calls /\ main'.at = at /\ main'.obj = main.obj /\ main' # Idle
BY DEF Goto, Calls, Idle

LEMMA MainBusy ==
  ASSUME Inv, main.at # "idle"
  PROVE  main \in Calls /\ main.obj \in Objects
<1>1. main # Idle
  BY DEF Idle
<1>2. main \in Calls
  BY <1>1 DEF Inv, Typed, MainTyped
<1> QED BY <1>2 DEF Calls

-----------------------------------------------------------------------------
(* The main thread preserves the invariant.                                *)

LEMMA ConstructInv ==
  ASSUME Inv, NEW o \in Objects, Construct(o)
  PROVE  Inv'
<1>1. main = Idle /\ main.at # "sem_wait" /\ main' \in Calls \cup {Idle}
      /\ main'.at # "sem_wait"
  <2>1. main = Idle  BY DEF Construct
  <2>2. Calling("create key", "ctor", o) \/ main' = main
    BY DEF Construct
  <2>3. main' = main \/ (main' \in Calls /\ main'.at = "create key")
    BY <2>2, CallTyped
  <2>4. Idle.at = "idle"  BY DEF Idle
  <2> QED BY <2>1, <2>3, <2>4
<1>2. /\ life' \in [Objects -> {"none", "alive", "freed"}]
      /\ life[o] = "none" /\ \A x \in Objects : x # o => life'[x] = life[x]
  BY DEF Inv, Typed, ObjectsTyped, Construct
<1>3. life'[o] = "alive"
  BY DEF Inv, Typed, ObjectsTyped, Construct
<1>4. FrameAlive' /\ SemPosted' /\ HandleOfActive' /\ DeletedIsSelf'
  BY <1>1 DEF Inv, Linked, FrameAlive, SemPosted, HandleOfActive, DeletedIsSelf, Construct, threads, globals
<1>5. TidOfEntered'
  BY DEF Inv, Linked, TidOfEntered, Construct, threads, globals
<1>6. AliveWhileActive'
  <2>1. \A p \in Pthreads : pc[p] \in Active => obj[p] \in Objects
    BY DEF Inv, Typed, ThreadsTyped, Active, Entered, Before
  <2> QED BY <1>2, <1>3, <2>1 DEF Inv, Linked, AliveWhileActive, Construct, threads, globals
<1>7. Typed'
  BY <1>1, <1>2 DEF Inv, Typed, GlobalsTyped, ObjectsTyped, MainTyped, ThreadsTyped, Construct, globals, threads
<1>8. MainIsMain'
  BY DEF Inv, MainIsMain, Construct, globals
<1> QED BY <1>4, <1>5, <1>6, <1>7, <1>8 DEF Inv, Linked

LEMMA ConstructKeyInv ==
  ASSUME Inv, ConstructKey
  PROVE  Inv'
<1>1. /\ main.at = "create key" /\ main' \in Calls
      /\ main.at # "sem_wait" /\ main'.at # "sem_wait"
  BY MainBusy, GotoTyped DEF ConstructKey, MainAt
<1>2. Linked'
  BY <1>1, MainKeepsLinked DEF ConstructKey, object, threads
<1>3. key' \in Keys /\ liveKeys' \in SUBSET Keys
  BY DEF Inv, Typed, GlobalsTyped, ConstructKey, CreateKey
<1>4. Typed'
  BY <1>1, <1>3 DEF Inv, Typed, GlobalsTyped, ObjectsTyped, MainTyped, ThreadsTyped, ConstructKey, object, threads
<1>5. MainIsMain'
  BY DEF Inv, MainIsMain, ConstructKey
<1> QED BY <1>2, <1>4, <1>5 DEF Inv

LEMMA ConstructSetInv ==
  ASSUME Inv, ConstructSet
  PROVE  Inv'
<1>1. main.at # "sem_wait" /\ main' = Idle /\ main'.at # "sem_wait"
  BY DEF ConstructSet, MainAt, Idle
<1>2. Linked'
  BY <1>1, MainKeepsLinked DEF ConstructSet, object, threads
<1>3. /\ tls' \in [Contexts -> [Keys -> Objects \cup {MAIN, NULL}]]
      /\ \A k \in Keys : tls'[0][k] \in {tls[0][k], MAIN}
  <2>1. 0 \in Contexts  BY ThreadAssumption DEF Contexts
  <2>2. tls' = tls \/ tls' = [tls EXCEPT ![0][key] = MAIN]
    BY DEF ConstructSet, SetSpecific
  <2> QED BY <2>1, <2>2 DEF Inv, Typed, GlobalsTyped
<1>4. Typed'
  BY <1>1, <1>3 DEF Inv, Typed, GlobalsTyped, ObjectsTyped, MainTyped, ThreadsTyped, ConstructSet, object, threads
<1>5. MainIsMain'
  BY <1>3 DEF Inv, MainIsMain
<1> QED BY <1>2, <1>4, <1>5 DEF Inv

\* start() makes the pthread it waits for the only active one of the object.
LEMMA StartInv ==
  ASSUME Inv, NEW o \in Objects, Start(o)
  PROVE  Inv'
<1>1. PICK p \in Pthreads :
        /\ pc[p] = "unused"
        /\ handle' = [handle EXCEPT ![o] = p]
        /\ pc' = [pc EXCEPT ![p] = "copy"]
        /\ obj' = [obj EXCEPT ![p] = o]
  BY UnusedChosen DEF Start
<1>2. /\ main = Idle /\ main.at # "sem_wait" /\ sem' = 0
      /\ main' \in Calls /\ main'.at = "sem_wait" /\ main'.obj = o
  BY CallTyped DEF Start, Idle
<1>3. tid[o] = NoTid /\ life[o] = "alive" /\ life' = life /\ tid' = tid
  BY DEF Start, IsRunning
<1>4. p \in Contexts /\ p # 0
  BY ThreadAssumption DEF Pthreads, Contexts
<1>5. /\ handle'[o] = p /\ \A x \in Objects : x # o => handle'[x] = handle[x]
      /\ pc'[p] = "copy" /\ obj'[p] = o
      /\ \A q \in Pthreads : q # p => pc'[q] = pc[q] /\ obj'[q] = obj[q]
  BY <1>1 DEF Inv, Typed, ObjectsTyped, ThreadsTyped
<1>6. \A q \in Pthreads : /\ pc[q] \notin Before
                          /\ pc[q] \in Active => obj[q] \in Objects
                          /\ o \in Numbered /\ pc[q] \in Active => obj[q] # o
  BY <1>2, <1>3, NoneActive DEF Inv, Linked, FrameAlive, Typed, ThreadsTyped, Active, Entered, Before
<1>7. Typed'
  <2>1. GlobalsTyped' /\ MainTyped'
    BY <1>2 DEF Inv, Typed, GlobalsTyped, MainTyped, Start, globals
  <2>2. ObjectsTyped'
    BY <1>1, <1>3, <1>4 DEF Inv, Typed, ObjectsTyped
  <2>3. pc' \in [Pthreads -> Places] /\ obj' \in [Pthreads -> Objects \cup {NULL}]
    BY <1>1 DEF Inv, Typed, ThreadsTyped, Places, Active, Before
  <2>4. \A q \in Pthreads : (pc'[q] = "unused") <=> (obj'[q] = NULL)
    BY <1>5, ThreadAssumption DEF Inv, Typed, ThreadsTyped
  <2>5. ThreadsTyped'
    BY <2>3, <2>4 DEF Inv, Typed, ThreadsTyped, Start
  <2> QED BY <2>1, <2>2, <2>5 DEF Typed
<1>8. MainIsMain'
  BY DEF Inv, MainIsMain, Start, globals
<1>9. FrameAlive' /\ SemPosted' /\ HandleOfActive'
  BY <1>2, <1>5, <1>6 DEF Inv, Linked, FrameAlive, SemPosted, HandleOfActive, Active,
     Start, globals
<1>10. TidOfEntered'
  <2>1. \A x \in Numbered : tid[x] # NoTid => x # o /\ handle[x] # p
    BY <1>1, <1>3 DEF Inv, Linked, TidOfEntered, Entered
  <2> QED BY <1>3, <1>5, <1>6, <2>1 DEF Inv, Linked, TidOfEntered, Active, Entered, Start, globals
<1>11. AliveWhileActive' /\ DeletedIsSelf'
  BY <1>3, <1>5 DEF Inv, Linked, AliveWhileActive, DeletedIsSelf, Start, globals
<1> QED BY <1>7, <1>8, <1>9, <1>10, <1>11 DEF Inv, Linked

LEMMA SemWaitInv ==
  ASSUME Inv, SemWait
  PROVE  Inv'
<1>1. sem = 1 /\ sem' = 0 /\ main' = Idle /\ main'.at # "sem_wait"
  BY DEF Inv, Typed, MainTyped, SemWait, Idle
<1>2. \A p \in Pthreads : pc[p] \notin Before
  BY <1>1 DEF Inv, Linked, SemPosted
<1>3. FrameAlive' /\ SemPosted' /\ HandleOfActive' /\ DeletedIsSelf'
  BY <1>1, <1>2 DEF Inv, Linked, FrameAlive, SemPosted, HandleOfActive, DeletedIsSelf, SemWait, object, threads, globals
<1>4. TidOfEntered' /\ AliveWhileActive'
  BY DEF Inv, Linked, TidOfEntered, AliveWhileActive, SemWait, object, threads, globals
<1>5. Typed'
  BY <1>1 DEF Inv, Typed, GlobalsTyped, ObjectsTyped, MainTyped, ThreadsTyped, SemWait, globals, object, threads
<1>6. MainIsMain'
  BY DEF Inv, MainIsMain, SemWait, globals
<1> QED BY <1>3, <1>4, <1>5, <1>6 DEF Inv, Linked

LEMMA JoinInv ==
  ASSUME Inv, NEW o \in Objects, Join(o)
  PROVE  Inv'
<1>1. main.at # "sem_wait" /\ main' \in Calls /\ main'.at # "sem_wait"
  BY CallTyped DEF Join, Idle
<1>2. Linked'
  BY <1>1, MainKeepsLinked DEF Join, object, threads, globals
<1>3. Typed'
  BY <1>1 DEF Inv, Typed, GlobalsTyped, ObjectsTyped, MainTyped, ThreadsTyped, Join, globals, object, threads
<1>4. MainIsMain'
  BY DEF Inv, MainIsMain, Join, globals
<1> QED BY <1>2, <1>3, <1>4 DEF Inv

\* What stop() asks of the main thread: its thread is not one of the objects.
LEMMA MainIsNoObject ==
  ASSUME Inv
  PROVE  GetCurrent(0) \notin Objects
<1>1. MAIN \notin Objects /\ NULL \notin Objects
  BY ThreadAssumption
<1> QED BY <1>1 DEF Inv, MainIsMain, Typed, GlobalsTyped, GetCurrent, GetSpecific

LEMMA StopInv ==
  ASSUME Inv, NEW o \in Objects, NEW op \in {"stop", "dtor"}, Stop(o, op)
  PROVE  Inv'
<1>1. main.at # "sem_wait"
  BY DEF Stop, Idle
<1>2. CASE IsRunning(o)
  <2>1. Calling("cancel", op, o) /\ life' = life
    BY <1>2, MainIsNoObject DEF Stop
  <2>2. main' \in Calls /\ main'.at # "sem_wait"
    BY <2>1, CallTyped
  <2>3. Linked'
    BY <1>1, <2>1, <2>2, MainKeepsLinked DEF Stop, threads, globals
  <2>4. Typed'
    BY <2>1, <2>2 DEF Inv, Typed, GlobalsTyped, ObjectsTyped, MainTyped, ThreadsTyped, Stop, globals, threads
  <2>5. MainIsMain'
    BY DEF Inv, MainIsMain, Stop, globals
  <2> QED BY <2>3, <2>4, <2>5 DEF Inv
<1>3. CASE ~IsRunning(o)
  <2>1. Return(o, op)
    BY <1>3 DEF Stop
  <2>2. o \in Numbered => \A p \in Pthreads : obj[p] = o => pc[p] \notin Active
    BY <1>1, <1>3, NoneActive DEF IsRunning
  <2> QED BY <1>1, <2>1, <2>2, ReturnInv DEF Stop
<1> QED BY <1>2, <1>3

LEMMA CancelInv ==
  ASSUME Inv, Cancel
  PROVE  Inv'
<1> DEFINE p == handle[main.obj]
<1>1. main \in Calls /\ main.obj \in Objects /\ main.at # "sem_wait"
  BY MainBusy DEF Cancel, MainAt
<1>2. CASE cancelled' = [cancelled EXCEPT ![p] = TRUE] /\ Goto("join") /\ life' = life
  <2>1. main' \in Calls /\ main'.at # "sem_wait"
    BY <1>1, <1>2, GotoTyped
  <2>2. Linked'
    BY <1>1, <1>2, <2>1, MainKeepsLinked DEF Cancel, globals
  <2>3. Typed'
    BY <1>2, <2>1 DEF Inv, Typed, GlobalsTyped, ObjectsTyped, MainTyped, ThreadsTyped, Cancel, globals
  <2>4. MainIsMain'
    BY DEF Inv, MainIsMain, Cancel, globals
  <2> QED BY <2>2, <2>3, <2>4 DEF Inv
<1>3. CASE pc[p] = "dead" /\ Return(main.obj, main.op) /\ cancelled' = cancelled
  BY <1>1, <1>3, DeadHandle, ReturnInv DEF Cancel, threads
<1> QED BY <1>2, <1>3 DEF Cancel

LEMMA JoinDoneInv ==
  ASSUME Inv, JoinDone
  PROVE  Inv'
<1>1. main.obj \in Objects /\ main.at # "sem_wait"
  BY MainBusy DEF JoinDone, MainAt
<1> QED BY <1>1, DeadHandle, ReturnInv DEF JoinDone

-----------------------------------------------------------------------------
(* The pthreads preserve it.                                               *)

\* The types of where a pthread is.
LEMMA MoveTyped ==
  ASSUME Inv, NEW p \in Pthreads, NEW from \in Places \ {"unused"},
         NEW to \in Places \ {"unused"}, Move(p, from, to)
  PROVE  /\ pc' \in [Pthreads -> Places]
         /\ \A q \in Pthreads : (pc'[q] = "unused") <=> (obj[q] = NULL)
         /\ obj[p] \in Objects
BY DEF Inv, Typed, ThreadsTyped, Move

\* The thread-specific data of a pthread are set, and end with it; main's are
\* its own.
LEMMA TlsKept ==
  ASSUME Inv, NEW p \in Pthreads,
         \/ tls' = tls
         \/ \E o \in Objects : SetSpecific(p, o)
         \/ Die(p)
         \/ \E k \in Keys : DropKey(k)
  PROVE  tls' \in [Contexts -> [Keys -> Objects \cup {MAIN, NULL}]] /\ MainIsMain'
<1>1. p \in Contexts /\ 0 \in Contexts /\ p # 0
  BY ThreadAssumption DEF Pthreads, Contexts
<1>2. tls \in [Contexts -> [Keys -> Objects \cup {MAIN, NULL}]] /\ key \in Keys
      /\ \A k \in Keys : tls[0][k] \in {MAIN, NULL}
  BY DEF Inv, Typed, GlobalsTyped, MainIsMain
<1>3. CASE tls' = tls
  BY <1>2, <1>3 DEF MainIsMain
<1>4. CASE \E o \in Objects : SetSpecific(p, o)
  BY <1>1, <1>2, <1>4 DEF SetSpecific, MainIsMain
<1>5. CASE Die(p)
  BY <1>1, <1>2, <1>5 DEF Die, MainIsMain
<1>6. CASE \E k \in Keys : DropKey(k)
  <2>1. PICK k \in Keys : tls' = [c \in Contexts |-> [tls[c] EXCEPT ![k] = NULL]]
    BY <1>6 DEF DropKey
  <2>2. \A c \in Contexts : [tls[c] EXCEPT ![k] = NULL] \in [Keys -> Objects \cup {MAIN, NULL}]
    BY <1>2
  <2> QED BY <1>1, <1>2, <2>1, <2>2 DEF MainIsMain
<1> QED BY <1>3, <1>4, <1>5, <1>6

LEMMA SetCurrentInv ==
  ASSUME Inv, NEW p \in Pthreads, SetCurrent(p)
  PROVE  Inv'
<1>1. "copy" \in Places \ {"unused"} /\ "load" \in Places \ {"unused"}
      /\ "copy" \in Before \ {"post"} /\ "load" \in Before \ {"post"}
  BY DEF Places, Active, Before
<1>2. Move(p, "copy", "load") /\ SetSpecific(p, obj[p])
  BY DEF SetCurrent
<1>3. Linked'
  BY <1>1, <1>2, MoveKeepsLinked DEF SetCurrent, object
<1>4. obj[p] \in Objects /\ ThreadsTyped'
  BY <1>1, <1>2, MoveTyped DEF Inv, Typed, ThreadsTyped, SetCurrent
<1>5. tls' \in [Contexts -> [Keys -> Objects \cup {MAIN, NULL}]] /\ MainIsMain'
  BY <1>2, <1>4, TlsKept
<1>6. Typed'
  BY <1>4, <1>5 DEF Inv, Typed, GlobalsTyped, ObjectsTyped, MainTyped, SetCurrent, object
<1> QED BY <1>3, <1>5, <1>6 DEF Inv

\* The two loads of the counter.
LEMMA LoadCountInv ==
  ASSUME Inv, NEW p \in Pthreads,
         \/ LoadCount(p, "load", "increment")
         \/ LoadCount(p, "cleanup load", "decrement")
  PROVE  Inv'
<1>1. PICK from, to :
        /\ \/ from = "load" /\ to = "increment"
           \/ from = "cleanup load" /\ to = "decrement"
        /\ LoadCount(p, from, to)
  OBVIOUS
<1>2. /\ from \in Places \ {"unused"} /\ to \in Places \ {"unused"}
      /\ \/ from \in Before \ {"post"} /\ to \in Before \ {"post"}
         \/ from \notin Active /\ to \notin Active
  BY <1>1 DEF Places, Active, Entered, Before
<1>3. Move(p, from, to)
  BY <1>1 DEF LoadCount
<1>4. Linked'
  BY <1>1, <1>2, <1>3, MoveKeepsLinked DEF LoadCount, object, globals
<1>5. tmp' \in [Pthreads -> 0..COUNTMAX-1]
  BY <1>1 DEF Inv, Typed, GlobalsTyped, ThreadsTyped, LoadCount
<1>6. ThreadsTyped'
  BY <1>1, <1>2, <1>3, <1>5, MoveTyped DEF Inv, Typed, ThreadsTyped, LoadCount
<1>7. Typed'
  BY <1>1, <1>6 DEF Inv, Typed, GlobalsTyped, ObjectsTyped, MainTyped, LoadCount, globals, object
<1>8. MainIsMain'
  BY <1>1 DEF Inv, MainIsMain, LoadCount, globals
<1> QED BY <1>4, <1>7, <1>8 DEF Inv

\* From here on is_running() is true: the pthread enters.
LEMMA IncrementInv ==
  ASSUME Inv, NEW p \in Pthreads, Increment(p)
  PROVE  Inv'
<1>1. Move(p, "increment", "post") /\ "increment" \in Places \ {"unused"}
      /\ "post" \in Places \ {"unused"}
  BY DEF Increment, Places, Active, Before
<1>2. tmp[p] \in 0..COUNTMAX-1 /\ obj[p] \in Objects
  BY <1>1, MoveTyped DEF Inv, Typed, ThreadsTyped
<1>3. count' \in 0..COUNTMAX-1
  BY <1>2, ThreadAssumption DEF Increment
<1>4. /\ tid' = [tid EXCEPT ![obj[p]] = count'] /\ tid'[obj[p]] = count'
      /\ misnumbered \subseteq misnumbered' /\ misnumbered' \subseteq Objects
      /\ obj[p] \in Numbered' => count' # NoTid
      /\ \A o \in Objects : o # obj[p] => tid'[o] = tid[o]
  BY <1>2, <1>3 DEF Increment, Inv, Typed, GlobalsTyped, ObjectsTyped
<1>5. /\ pc[p] = "increment" /\ pc'[p] = "post"
      /\ \A q \in Pthreads : q # p => pc'[q] = pc[q]
  BY <1>1 DEF Move, Inv, Typed, ThreadsTyped
<1>6. FrameAlive' /\ SemPosted' /\ HandleOfActive' /\ DeletedIsSelf' /\ AliveWhileActive'
  BY <1>5 DEF Inv, Linked, FrameAlive, SemPosted, HandleOfActive, DeletedIsSelf,
     AliveWhileActive, Increment, Active, Entered, Before
<1>7. handle[obj[p]] = p
  BY <1>5 DEF Inv, Linked, FrameAlive, Before
<1>8. TidOfEntered'
  <2>1. \A q \in Pthreads :
          obj[q] \in Numbered' /\ pc'[q] \in Entered => tid'[obj[q]] # NoTid
    BY <1>4, <1>5 DEF Inv, Linked, TidOfEntered, Typed, ThreadsTyped, Entered
  <2>2. \A o \in Numbered' : tid'[o] # NoTid =>
          handle[o] \in Pthreads /\ pc'[handle[o]] \in Entered /\ obj[handle[o]] = o
    BY <1>4, <1>5, <1>7 DEF Inv, Linked, TidOfEntered, Entered
  <2> QED BY <2>1, <2>2 DEF TidOfEntered, Increment
<1>9. ThreadsTyped'
  <2>1. tmp' \in [Pthreads -> 0..COUNTMAX-1]
    BY ThreadAssumption DEF Inv, Typed, ThreadsTyped, Increment
  <2> QED BY <1>1, <2>1, MoveTyped DEF Inv, Typed, ThreadsTyped, Increment
<1>10. Typed'
  BY <1>3, <1>4, <1>9 DEF Inv, Typed, GlobalsTyped, ObjectsTyped, MainTyped, Increment
<1>11. MainIsMain'
  BY DEF Inv, MainIsMain, Increment
<1> QED BY <1>6, <1>8, <1>10, <1>11 DEF Inv, Linked

\* The pthread leaves the frame of start() and wakes main.
LEMMA PostInv ==
  ASSUME Inv, NEW p \in Pthreads, Post(p)
  PROVE  Inv'
<1>1. Move(p, "post", "run") /\ "post" \in Places \ {"unused"}
      /\ "run" \in Places \ {"unused"}
  BY DEF Post, Places, Active, Entered
<1>2. /\ pc[p] = "post" /\ pc'[p] = "run"
      /\ \A q \in Pthreads : q # p => pc'[q] = pc[q]
  BY <1>1 DEF Move, Inv, Typed, ThreadsTyped
<1>3. sem = 0 /\ sem' = 1 /\ main.at = "sem_wait"
      /\ \A q \in Pthreads : pc[q] \in Before => q = p
  BY <1>2 DEF Inv, Linked, SemPosted, FrameAlive, Post, Before
<1>4. FrameAlive' /\ SemPosted'
  BY <1>2, <1>3 DEF Inv, FrameAlive, SemPosted, Post, Before
<1>5. HandleOfActive' /\ TidOfEntered' /\ AliveWhileActive' /\ DeletedIsSelf'
  BY <1>2 DEF Inv, Linked, HandleOfActive, TidOfEntered, AliveWhileActive,
     DeletedIsSelf, Post, globals, object, Active, Entered
<1>6. Typed'
  BY <1>1, <1>3, MoveTyped DEF Inv, Typed, GlobalsTyped, ObjectsTyped, MainTyped,
     ThreadsTyped, Post, globals, object
<1>7. MainIsMain'
  BY DEF Inv, MainIsMain, Post, globals
<1> QED BY <1>4, <1>5, <1>6, <1>7 DEF Inv, Linked

LEMMA SelfStopInv ==
  ASSUME Inv, NEW p \in Pthreads, SelfStop(p)
  PROVE  Inv'
<1>1. Linked'
  BY DEF Inv, Linked, FrameAlive, SemPosted, HandleOfActive, TidOfEntered,
     AliveWhileActive, DeletedIsSelf, SelfStop, globals, object
<1>2. Typed'
  BY DEF Inv, Typed, GlobalsTyped, ObjectsTyped, MainTyped, ThreadsTyped,
     SelfStop, globals, object
<1>3. MainIsMain'
  BY DEF Inv, MainIsMain, SelfStop, globals
<1> QED BY <1>1, <1>2, <1>3 DEF Inv

LEMMA DeleteThisInv ==
  ASSUME Inv, NEW p \in Pthreads, DeleteThis(p)
  PROVE  Inv'
<1>1. Move(p, "run", "deleted") /\ "run" \in Places \ {"unused"}
      /\ "deleted" \in Places \ {"unused"}
  BY DEF DeleteThis, Places, Active, Entered
<1>2. /\ pc[p] = "run" /\ pc'[p] = "deleted"
      /\ \A q \in Pthreads : q # p => pc'[q] = pc[q]
  BY <1>1 DEF Move, Inv, Typed, ThreadsTyped
<1>3. obj[p] \in SelfDeleting /\ obj[p] \in Objects
  BY <1>1, MoveTyped DEF DeleteThis
<1>4. FrameAlive' /\ SemPosted' /\ HandleOfActive' /\ TidOfEntered'
  BY <1>2 DEF Inv, Linked, FrameAlive, SemPosted, HandleOfActive, TidOfEntered,
     DeleteThis, globals, Active, Entered, Before
<1>5. DeletedIsSelf'
  BY <1>2, <1>3 DEF Inv, Linked, DeletedIsSelf, DeleteThis
<1>6. AliveWhileActive'
  <2>1. \A o \in Objects : o \notin SelfDeleting => life'[o] = life[o]
    BY <1>3 DEF DeleteThis, Inv, Typed, ObjectsTyped
  <2>2. \A q \in Pthreads : pc[q] \in Active => obj[q] \in Objects
    BY DEF Inv, Typed, ThreadsTyped, Active, Entered, Before
  <2>3. \A q \in Pthreads : pc'[q] \in Active \ {"deleted"} =>
          pc[q] \in Active \ {"deleted"}
    BY <1>2 DEF Active, Entered
  <2> QED BY <2>1, <2>2, <2>3 DEF Inv, Linked, AliveWhileActive, DeleteThis, globals
<1>7. ThreadsTyped'
  BY <1>1, MoveTyped DEF Inv, Typed, ThreadsTyped, DeleteThis
<1>8. Typed'
  BY <1>3, <1>7 DEF Inv, Typed, GlobalsTyped, ObjectsTyped, MainTyped, DeleteThis, globals
<1>9. MainIsMain'
  BY DEF Inv, MainIsMain, DeleteThis, globals
<1> QED BY <1>4, <1>5, <1>6, <1>8, <1>9 DEF Inv, Linked

LEMMA UserReturnInv ==
  ASSUME Inv, NEW p \in Pthreads, UserReturn(p)
  PROVE  Inv'
<1>1. PICK from \in {"run", "deleted"} : Move(p, from, "cleanup")
  BY DEF UserReturn
<1>2. /\ from \in Places \ {"unused"} /\ "cleanup" \in Places \ {"unused"}
      /\ from \in Entered \ {"post"} /\ "cleanup" \in Entered \ {"post", "deleted"}
  BY DEF Places, Active, Entered
<1>3. Linked'
  BY <1>1, <1>2, MoveKeepsLinked DEF UserReturn, object, globals
<1>4. ThreadsTyped'
  BY <1>1, <1>2, MoveTyped DEF Inv, Typed, ThreadsTyped, UserReturn
<1>5. Typed'
  BY <1>4 DEF Inv, Typed, GlobalsTyped, ObjectsTyped, MainTyped, UserReturn, globals, object
<1>6. MainIsMain'
  BY DEF Inv, MainIsMain, UserReturn, globals
<1> QED BY <1>3, <1>5, <1>6 DEF Inv

\* From here on is_running() is false: the pthread lets the object go.
LEMMA ClearTidInv ==
  ASSUME Inv, NEW p \in Pthreads, ClearTid(p)
  PROVE  Inv'
<1>1. Move(p, "cleanup", "cleanup load") /\ "cleanup" \in Places \ {"unused"}
      /\ "cleanup load" \in Places \ {"unused"}
  BY DEF ClearTid, Places, Active, Entered
<1>2. /\ pc[p] = "cleanup" /\ pc'[p] = "cleanup load"
      /\ \A q \in Pthreads : q # p => pc'[q] = pc[q]
  BY <1>1 DEF Move, Inv, Typed, ThreadsTyped
<1>3. obj[p] \in Objects /\ (obj[p] \in Numbered => handle[obj[p]] = p)
  BY <1>1, <1>2, MoveTyped DEF Inv, Linked, HandleOfActive, Active, Entered
<1>4. tid'[obj[p]] = NoTid /\ \A o \in Objects : o # obj[p] => tid'[o] = tid[o]
  BY <1>3 DEF ClearTid, Inv, Typed, ObjectsTyped
<1>5. \A q \in Pthreads : /\ pc'[q] \in Active => q # p /\ pc'[q] = pc[q]
                          /\ pc'[q] \in Before => pc[q] \in Before
                          /\ pc'[q] \in Entered => q # p /\ pc[q] \in Entered
  BY <1>2 DEF Active, Entered, Before
<1>6. FrameAlive' /\ SemPosted' /\ HandleOfActive'
  BY <1>5 DEF Inv, Linked, FrameAlive, SemPosted, HandleOfActive, ClearTid, globals
<1>11. AliveWhileActive' /\ DeletedIsSelf'
  BY <1>2, <1>5 DEF Inv, Linked, AliveWhileActive, DeletedIsSelf, ClearTid, globals
<1>7. TidOfEntered'
  <2>1. ASSUME NEW q \in Pthreads, obj[q] \in Numbered, pc'[q] \in Entered
        PROVE  tid'[obj[q]] # NoTid
    <3>1. q # p /\ pc[q] \in Entered /\ handle[obj[q]] = q /\ obj[q] \in Objects
      <4>1. q # p /\ pc[q] \in Entered  BY <1>5, <2>1
      <4>2. pc[q] \in Active /\ pc[q] # "unused"  BY <4>1 DEF Active, Entered
      <4>3. obj[q] \in Objects  BY <4>2 DEF Inv, Typed, ThreadsTyped
      <4> QED BY <2>1, <4>1, <4>2, <4>3 DEF Inv, Linked, HandleOfActive
    <3> QED BY <1>3, <1>4, <2>1, <3>1 DEF Inv, Linked, TidOfEntered
  <2>2. ASSUME NEW o \in Numbered, tid'[o] # NoTid
        PROVE  handle[o] \in Pthreads /\ pc'[handle[o]] \in Entered /\ obj[handle[o]] = o
    BY <1>2, <1>3, <1>4, <2>2 DEF Inv, Linked, TidOfEntered
  <2> QED BY <2>1, <2>2 DEF TidOfEntered, ClearTid, globals
<1>8. ThreadsTyped'
  BY <1>1, MoveTyped DEF Inv, Typed, ThreadsTyped, ClearTid
<1>9. Typed'
  <2>1. NoTid \in 0..COUNTMAX-1
    BY ThreadAssumption DEF NoTid
  <2> QED BY <1>8, <2>1 DEF Inv, Typed, GlobalsTyped, ObjectsTyped, MainTyped, ClearTid, globals
<1>10. MainIsMain'
  BY DEF Inv, MainIsMain, ClearTid, globals
<1> QED BY <1>6, <1>7, <1>9, <1>10, <1>11 DEF Inv, Linked

LEMMA DecrementInv ==
  ASSUME Inv, NEW p \in Pthreads, Decrement(p)
  PROVE  Inv'
<1>1. count' \in 0..COUNTMAX-1 /\ tmp' \in [Pthreads -> 0..COUNTMAX-1]
  <2>1. tmp[p] \in 0..COUNTMAX-1
    BY DEF Inv, Typed, ThreadsTyped
  <2>2. COUNTMAX \in Nat /\ COUNTMAX > 0
    BY ThreadAssumption
  <2>3. (tmp[p] - 1) % COUNTMAX \in 0..COUNTMAX-1
    BY <2>1, <2>2
  <2>4. 0 \in 0..COUNTMAX-1
    BY <2>2
  <2>5. tmp' = [tmp EXCEPT ![p] = 0] /\ count' = (tmp[p] - 1) % COUNTMAX
    BY DEF Decrement
  <2>6. tmp' \in [Pthreads -> 0..COUNTMAX-1]
    BY <2>4, <2>5 DEF Inv, Typed, ThreadsTyped
  <2> QED BY <2>3, <2>5, <2>6
<1>2. PICK to :
        /\ to = "delete key" \/ to = "dead"
        /\ Move(p, "decrement", to) /\ (tls' = tls \/ Die(p))
  BY DEF Decrement
<1>3. /\ "decrement" \in Places \ {"unused"} /\ to \in Places \ {"unused"}
      /\ "decrement" \notin Active /\ to \notin Active
  BY <1>2 DEF Places, Active, Entered, Before
<1>4. Linked'
  BY <1>2, <1>3, MoveKeepsLinked DEF Decrement, object
<1>5. ThreadsTyped'
  BY <1>1, <1>2, <1>3, MoveTyped DEF Inv, Typed, ThreadsTyped, Decrement
<1>6. tls' \in [Contexts -> [Keys -> Objects \cup {MAIN, NULL}]] /\ MainIsMain'
  BY <1>2, TlsKept
<1>7. Typed'
  BY <1>1, <1>5, <1>6 DEF Inv, Typed, GlobalsTyped, ObjectsTyped, MainTyped, Decrement, object
<1> QED BY <1>4, <1>6, <1>7 DEF Inv

LEMMA DeleteKeyInv ==
  ASSUME Inv, NEW p \in Pthreads, DeleteKey(p)
  PROVE  Inv'
<1>1. /\ Move(p, "delete key", "reset key") /\ "delete key" \in Places \ {"unused"}
      /\ "reset key" \in Places \ {"unused"}
      /\ "delete key" \notin Active /\ "reset key" \notin Active
  BY DEF DeleteKey, Places, Active, Entered, Before
<1>2. Linked'
  BY <1>1, MoveKeepsLinked DEF DeleteKey, object
<1>3. ThreadsTyped'
  BY <1>1, MoveTyped DEF Inv, Typed, ThreadsTyped, DeleteKey
<1>4. key \in Keys /\ DropKey(key)
  BY DEF Inv, Typed, GlobalsTyped, DeleteKey
<1>5. tls' \in [Contexts -> [Keys -> Objects \cup {MAIN, NULL}]] /\ MainIsMain'
  BY <1>4, TlsKept
<1>6. liveKeys' \in SUBSET Keys
  BY <1>4 DEF DropKey, Inv, Typed, GlobalsTyped
<1>7. Typed'
  BY <1>3, <1>5, <1>6 DEF Inv, Typed, GlobalsTyped, ObjectsTyped, MainTyped, DeleteKey, object
<1> QED BY <1>2, <1>5, <1>7 DEF Inv

LEMMA ResetKeyInv ==
  ASSUME Inv, NEW p \in Pthreads, ResetKey(p)
  PROVE  Inv'
<1>1. /\ Move(p, "reset key", "dead") /\ "reset key" \in Places \ {"unused"}
      /\ "dead" \in Places \ {"unused"}
      /\ "reset key" \notin Active /\ "dead" \notin Active
  BY DEF ResetKey, Places, Active, Entered, Before
<1>2. Linked'
  BY <1>1, MoveKeepsLinked DEF ResetKey, object
<1>3. ThreadsTyped'
  BY <1>1, MoveTyped DEF Inv, Typed, ThreadsTyped, ResetKey
<1>4. tls' \in [Contexts -> [Keys -> Objects \cup {MAIN, NULL}]] /\ MainIsMain'
  BY TlsKept DEF ResetKey
<1>5. Typed'
  BY <1>3, <1>4, ThreadAssumption DEF Inv, Typed, GlobalsTyped, ObjectsTyped, MainTyped, ResetKey, object
<1> QED BY <1>2, <1>4, <1>5 DEF Inv

-----------------------------------------------------------------------------
(* The theorems.                                                           *)

LEMMA NextInv == Inv /\ [Next]_vars => Inv'
<1> SUFFICES ASSUME Inv, [Next]_vars PROVE Inv'
  OBVIOUS
<1>1. CASE MainCall
  BY <1>1, ConstructInv, StartInv, JoinInv, StopInv DEF MainCall
<1>2. CASE MainStep
  BY <1>2, ConstructKeyInv, ConstructSetInv, SemWaitInv, CancelInv, JoinDoneInv DEF MainStep
<1>3. ASSUME NEW p \in Pthreads, Wrapper(p)
      PROVE  Inv'
  BY <1>3, SetCurrentInv, LoadCountInv, IncrementInv, PostInv, UserReturnInv,
     ClearTidInv, DecrementInv, DeleteKeyInv, ResetKeyInv DEF Wrapper, ActOnCancel
<1>4. ASSUME NEW p \in Pthreads, UserCode(p)
      PROVE  Inv'
  BY <1>4, SelfStopInv, DeleteThisInv, UserReturnInv DEF UserCode
<1>5. CASE UNCHANGED vars
  <2>1. Linked'
    BY <1>5 DEF Inv, Linked, FrameAlive, SemPosted, HandleOfActive, TidOfEntered,
       AliveWhileActive, DeletedIsSelf, vars, globals, object, threads
  <2>2. Typed' /\ MainIsMain'
    BY <1>5 DEF Inv, Typed, GlobalsTyped, ObjectsTyped, MainTyped, ThreadsTyped,
       MainIsMain, vars, globals, object, threads
  <2> QED BY <2>1, <2>2 DEF Inv
<1> QED BY <1>1, <1>2, <1>3, <1>4, <1>5 DEF Next

LEMMA SpecInv == Spec => []Inv
BY InitInv, NextInv, PTL DEF Spec

\* Types; among them, that main never takes itself for the Thread it stops.
THEOREM ThreadTypes == Spec => []TypeOK
BY SpecInv, InvImplies, PTL

\* The pointer into the frame of start() is not used after start() has
\* returned, for any number of threads and any schedule.
THEOREM FrameOutlives == Spec => []FrameAlive
BY SpecInv, InvImplies, PTL

\* At most one pthread runs the user code of an object, m_t is its handle and
\* m_tid says that it runs.
THEOREM OneRunnerAtATime == Spec => []OneRunner
BY SpecInv, InvImplies, PTL

\* An object that main destroys outlives the code that is run on it: the
\* destructor's look at m_tid does not miss a pthread.
THEOREM ObjectsOutlive == Spec => []NoUseAfterFree
BY SpecInv, InvImplies, PTL

\* When a call of stop(), join() or the destructor is over, however it ended,
\* nothing of the object runs and m_tid says so.
THEOREM StopIsFinal == Spec => StopEnds
<1>1. ASSUME Inv, [Next]_vars, NEW o \in Numbered,
             \/ \E op \in {"stop", "dtor"} : Stop(o, op) /\ main' = Idle
             \/ main.obj = o /\ (Cancel \/ JoinDone) /\ main' = Idle
      PROVE  /\ tid'[o] = NoTid
             /\ \A p \in Pthreads : obj[p] = o => pc'[p] \notin Before \cup {"run"}
  <2>1. CASE \E op \in {"stop", "dtor"} : Stop(o, op) /\ main' = Idle
    <3>1. PICK op \in {"stop", "dtor"} : Stop(o, op) /\ main' = Idle
      BY <2>1
    <3>2. ~IsRunning(o)
      <4> SUFFICES ASSUME IsRunning(o) PROVE FALSE
        OBVIOUS
      <4>1. Calling("cancel", op, o)
        BY <1>1, <3>1, MainIsNoObject DEF Stop
      <4> QED BY <3>1, <4>1, CallTyped
    <3>3. main.at # "sem_wait"
      BY <3>1 DEF Stop, Idle
    <3>4. tid[o] = NoTid /\ tid' = tid /\ pc' = pc
      BY <3>1, <3>2 DEF Stop, IsRunning, threads
    <3>5. \A p \in Pthreads : obj[p] = o => pc[p] \notin Active
      BY <1>1, <3>3, <3>4, NoneActive
    <3> QED BY <3>4, <3>5 DEF Active, Entered
  <2>2. CASE main.obj = o /\ (Cancel \/ JoinDone) /\ main' = Idle
    <3>1. pc[handle[o]] = "dead"
      <4>1. CASE JoinDone  BY <2>2, <4>1 DEF JoinDone
      <4>2. CASE Cancel
        <5>1. ~Goto("join")
          <6>1. main \in Calls
            BY <1>1, <4>2, MainBusy DEF Cancel, MainAt
          <6> QED BY <2>2, <6>1, GotoTyped
        <5> QED BY <2>2, <4>2, <5>1 DEF Cancel
      <4> QED BY <2>2, <4>1, <4>2
    <3>2. tid' = tid /\ pc' = pc
      BY <2>2 DEF Cancel, JoinDone, threads
    <3>3. tid[o] = NoTid /\ \A p \in Pthreads : obj[p] = o => pc[p] \notin Active
      BY <1>1, <3>1, DeadHandle
    <3> QED BY <3>2, <3>3 DEF Active, Entered
  <2> QED BY <1>1, <2>1, <2>2
<1>2. Inv /\ [Next]_vars =>
        [\A o \in Numbered :
           (\E op \in {"stop", "dtor"} : Stop(o, op) /\ main' = Idle)
             \/ (main.obj = o /\ (Cancel \/ JoinDone) /\ main' = Idle) =>
           /\ tid'[o] = NoTid
           /\ \A p \in Pthreads : obj[p] = o => pc'[p] \notin Before \cup {"run"}]_vars
  BY <1>1
<1> QED BY SpecInv, <1>2, PTL DEF Spec, StopEnds
=============================================================================
