-------------------------------- MODULE Thread --------------------------------
(***************************************************************************)
(* gcl::Thread (include/gthread.h, src/gthread.cpp): Thread objects that   *)
(* the main thread constructs, starts, joins, stops and destroys, and the  *)
(* pthreads that run them.  Each load and store of what they share is a    *)
(* step of its own: the object's m_tid, and the file-scope counter and     *)
(* key, which no lock protects.                                            *)
(*                                                                         *)
(* POSIX threads are external: a pthread is created or not, a semaphore is *)
(* posted and waited for, a deferred cancellation is acted upon when the   *)
(* user's code next reaches a cancellation point, and a key is any number  *)
(* that is not in use.                                                     *)
(***************************************************************************)
EXTENDS Integers, FiniteSets

CONSTANTS
  Objects,      \* the Thread objects of the program
  MaxPthreads,  \* bound: how many pthreads the run may create
  Keys,         \* the thread-specific data keys of the process
  COUNTMAX,     \* number of values of the unsigned counter
  SelfDeleting, \* the objects whose user code deletes the object it runs
  MAIN,         \* the object __main_thread
  NULL          \* the null pointer

ASSUME ThreadAssumption ==
  /\ MaxPthreads \in Nat /\ COUNTMAX \in Nat /\ COUNTMAX > 1
  /\ 0 \in Keys /\ Cardinality(Keys) > Cardinality(Objects)
  /\ SelfDeleting \subseteq Objects
  /\ MAIN \notin Objects /\ NULL \notin Objects \cup {MAIN}

NoTid == COUNTMAX - 1           \* (unsigned)(-1): not running
Pthreads == 1..MaxPthreads
Contexts == 0..MaxPthreads      \* 0 is the main thread

VARIABLES
  count,        \* __instance_count
  key,          \* __key_to_instance
  liveKeys,     \* the keys that are created and not deleted
  misnumbered,  \* history: the objects a pthread of which ++ numbered NoTid
  tls,          \* per context and key, the value pthread_setspecific() set
  life,         \* per object, "none", "alive" or "freed"
  tid,          \* per object, m_tid
  handle,       \* per object, m_t: the pthread made last, 0 before
  main,         \* the call the main thread is in: where it is, for which object
  sem,          \* the semaphore in the frame of start()
  pc,           \* per pthread, where it is
  obj,          \* per pthread, args.instance
  tmp,          \* per pthread, the counter's value it has loaded
  cancelled     \* per pthread, a cancellation is pending

globals == <<count, key, liveKeys, tls, misnumbered>>
object == <<life, tid, handle>>
threads == <<pc, obj, tmp, cancelled>>
vars == <<globals, object, main, sem, threads>>

Idle == [at |-> "idle", op |-> "none", obj |-> NULL]

\* __main_thread is constructed before main(): it makes the first key.
Init ==
  /\ count = 0
  /\ key \in Keys /\ liveKeys = {key}
  /\ tls = [c \in Contexts |-> [k \in Keys |->
              IF c = 0 /\ k = key THEN MAIN ELSE NULL]]
  /\ life = [o \in Objects |-> "none"]
  /\ tid = [o \in Objects |-> NoTid]
  /\ handle = [o \in Objects |-> 0]
  /\ main = Idle /\ sem = 0 /\ misnumbered = {}
  /\ pc = [p \in Pthreads |-> "unused"]
  /\ obj = [p \in Pthreads |-> NULL]
  /\ tmp = [p \in Pthreads |-> 0]
  /\ cancelled = [p \in Pthreads |-> FALSE]

-----------------------------------------------------------------------------
(* Thread-specific data.                                                   *)

\* pthread_setspecific() fails on a key that is not in use.
SetSpecific(c, v) ==
  tls' = IF key \in liveKeys THEN [tls EXCEPT ![c][key] = v] ELSE tls

GetSpecific(c) == IF key \in liveKeys THEN tls[c][key] ELSE NULL

\* get_current() in context c.
GetCurrent(c) == IF count = 0 THEN MAIN ELSE GetSpecific(c)

\* pthread_key_create(): a new key has no value in any context.
CreateKey == \E k \in Keys \ liveKeys :
               /\ key' = k /\ liveKeys' = liveKeys \cup {k}

\* pthread_key_delete(): the values are gone in every context.
DropKey(k) == /\ liveKeys' = liveKeys \ {k}
              /\ tls' = [c \in Contexts |-> [tls[c] EXCEPT ![k] = NULL]]

-----------------------------------------------------------------------------
(* The main thread: one call at a time, each ends in Idle.                 *)

Calling(at, op, o) == main' = [at |-> at, op |-> op, obj |-> o]
MainAt(at) == main.at = at
Goto(at) == main' = [main EXCEPT !.at = at]

\* MUTANT: the first thread's id passes for "not running".
IsRunningOffByOne(o) == tid[o] \notin {1, NoTid}

IsRunning(o) == tid[o] # NoTid

\* Thread(): makes a key if no thread is counted.
Construct(o) ==
  /\ main = Idle /\ life[o] = "none"
  /\ life' = [life EXCEPT ![o] = "alive"]
  /\ IF count = 0 THEN Calling("create key", "ctor", o) ELSE UNCHANGED main
  /\ UNCHANGED <<globals, tid, handle, sem, threads>>

ConstructKey ==
  /\ MainAt("create key") /\ Goto("set main")
  /\ CreateKey
  /\ UNCHANGED <<count, misnumbered, tls, object, sem, threads>>

ConstructSet ==
  /\ MainAt("set main") /\ main' = Idle
  /\ SetSpecific(0, MAIN)
  /\ UNCHANGED <<count, misnumbered, key, liveKeys, object, sem, threads>>

\* start(): EINVAL if running; a pthread is created, or there is no room for
\* one; the frame with args and sem is alive until the wait is over.
Start(o) ==
  LET unused == {p \in Pthreads : pc[p] = "unused"}
      p == CHOOSE q \in unused : \A r \in unused : q <= r
  IN  /\ main = Idle /\ life[o] = "alive" /\ unused # {}
      /\ ~IsRunning(o)
      /\ sem' = 0
      /\ handle' = [handle EXCEPT ![o] = p]
      /\ pc' = [pc EXCEPT ![p] = "copy"]
      /\ obj' = [obj EXCEPT ![p] = o]
      /\ Calling("sem_wait", "start", o)
      /\ UNCHANGED <<globals, life, tid, tmp, cancelled>>

\* MUTANT: start() does not wait for its thread.
SemWaitNot ==
  /\ MainAt("sem_wait") /\ sem' = 0
  /\ main' = Idle
  /\ UNCHANGED <<globals, object, threads>>

SemWait ==
  /\ MainAt("sem_wait") /\ sem > 0
  /\ sem' = sem - 1
  /\ main' = Idle
  /\ UNCHANGED <<globals, object, threads>>

\* A call is over; the destructor's stop() is followed by the object's end.
Return(o, op) ==
  /\ main' = Idle
  /\ life' = IF op = "dtor" THEN [life EXCEPT ![o] = "freed"] ELSE life

\* join(), stop() and the destructor begin with the same test.
Join(o) ==
  /\ main = Idle /\ life[o] = "alive"
  /\ IsRunning(o)
  /\ Calling("join", "join", o)
  /\ UNCHANGED <<globals, object, sem, threads>>

\* An object that deletes itself is only started and joined.
Stop(o, op) ==
  /\ main = Idle /\ life[o] = "alive" /\ o \notin SelfDeleting
  /\ IF IsRunning(o)
     THEN /\ Calling(IF GetCurrent(0) # o THEN "cancel" ELSE "self", op, o)
          /\ UNCHANGED life
     ELSE Return(o, op)
  /\ UNCHANGED <<globals, tid, handle, sem, threads>>

\* MUTANT: stop() cancels and does not join.
CancelOnly ==
  /\ MainAt("cancel")
  /\ cancelled' = [cancelled EXCEPT ![handle[main.obj]] = TRUE]
  /\ Return(main.obj, main.op)
  /\ UNCHANGED <<globals, tid, handle, sem, pc, obj, tmp>>

\* A pthread that has ended may be unknown to pthread_cancel(), or not yet.
Cancel ==
  LET p == handle[main.obj]
  IN  /\ MainAt("cancel")
      /\ \/ /\ cancelled' = [cancelled EXCEPT ![p] = TRUE]
            /\ Goto("join")
            /\ UNCHANGED life
         \/ /\ pc[p] = "dead"
            /\ Return(main.obj, main.op)
            /\ UNCHANGED cancelled
      /\ UNCHANGED <<globals, tid, handle, sem, pc, obj, tmp>>

\* MUTANT: join() does not wait for the end.
JoinAtOnce ==
  /\ MainAt("join")
  /\ Return(main.obj, main.op)
  /\ UNCHANGED <<globals, tid, handle, sem, threads>>

JoinDone ==
  LET p == handle[main.obj]
  IN  /\ MainAt("join") /\ pc[p] = "dead"
      /\ Return(main.obj, main.op)
      /\ UNCHANGED <<globals, tid, handle, sem, threads>>

-----------------------------------------------------------------------------
(* The pthreads: __thread_wrapper(), user code, __thread_destructor().     *)

Move(p, from, to) == pc[p] = from /\ pc' = [pc EXCEPT ![p] = to]

\* Copies args out of the frame of start(), and makes the object current.
SetCurrent(p) ==
  /\ Move(p, "copy", "load")
  /\ SetSpecific(p, obj[p])
  /\ UNCHANGED <<count, misnumbered, key, liveKeys, object, main, sem, obj, tmp, cancelled>>

LoadCount(p, from, to) ==
  /\ Move(p, from, to)
  /\ tmp' = [tmp EXCEPT ![p] = count]
  /\ UNCHANGED <<globals, object, main, sem, obj, cancelled>>

\* m_tid = ++__instance_count
Increment(p) ==
  /\ Move(p, "increment", "post")
  /\ count' = (tmp[p] + 1) % COUNTMAX
  /\ tid' = [tid EXCEPT ![obj[p]] = count']
  /\ misnumbered' = IF count' = NoTid THEN misnumbered \cup {obj[p]}
                                     ELSE misnumbered
  /\ tmp' = [tmp EXCEPT ![p] = 0]
  /\ UNCHANGED <<key, liveKeys, tls, life, handle, main, sem, obj, cancelled>>

\* MUTANT: nobody tells start() to go on.
PostNot(p) ==
  /\ Move(p, "post", "run")
  /\ UNCHANGED <<globals, object, main, sem, obj, tmp, cancelled>>

Post(p) ==
  /\ Move(p, "post", "run")
  /\ sem' = sem + 1
  /\ UNCHANGED <<globals, object, main, obj, tmp, cancelled>>

\* User code stops its own thread: whatever get_current() says, stop() ends
\* with its own cancellation pending (a join of oneself is refused).
SelfStop(p) ==
  /\ pc[p] = "run" /\ ~cancelled[p]
  /\ cancelled' = [cancelled EXCEPT ![p] = TRUE]
  /\ UNCHANGED <<globals, object, main, sem, pc, obj, tmp>>

\* "delete this" in user code, as in the sample; what follows it in the user
\* code does not use the object.
DeleteThis(p) ==
  /\ obj[p] \in SelfDeleting
  /\ Move(p, "run", "deleted")
  /\ life' = [life EXCEPT ![obj[p]] = "freed"]
  /\ cancelled' = [cancelled EXCEPT ![p] = TRUE]
  /\ UNCHANGED <<globals, tid, handle, main, sem, obj, tmp>>

\* The two ways out of user code run the same cleanup handler.
UserReturn(p) ==
  /\ \E from \in {"run", "deleted"} : Move(p, from, "cleanup")
  /\ UNCHANGED <<globals, object, main, sem, obj, tmp, cancelled>>

ActOnCancel(p) == cancelled[p] /\ UserReturn(p)

ClearTid(p) ==
  /\ Move(p, "cleanup", "cleanup load")
  /\ tid' = [tid EXCEPT ![obj[p]] = NoTid]
  /\ UNCHANGED <<globals, life, handle, main, sem, obj, tmp, cancelled>>

\* A pthread's local and thread-specific data end with it.
Die(p) == tls' = [tls EXCEPT ![p] = [k \in Keys |-> NULL]]

\* MUTANT: the counter is signed.
DecrementSigned(p) ==
  /\ IF tmp[p] = 1 THEN Move(p, "decrement", "delete key") /\ UNCHANGED tls
                    ELSE Move(p, "decrement", "dead") /\ Die(p)
  /\ count' = tmp[p] - 1
  /\ tmp' = [tmp EXCEPT ![p] = 0]
  /\ UNCHANGED <<misnumbered, key, liveKeys, object, main, sem, obj, cancelled>>

\* if (--__instance_count == 0)
Decrement(p) ==
  /\ IF tmp[p] = 1 THEN Move(p, "decrement", "delete key") /\ UNCHANGED tls
                    ELSE Move(p, "decrement", "dead") /\ Die(p)
  /\ count' = (tmp[p] - 1) % COUNTMAX
  /\ tmp' = [tmp EXCEPT ![p] = 0]
  /\ UNCHANGED <<misnumbered, key, liveKeys, object, main, sem, obj, cancelled>>

DeleteKey(p) ==
  /\ Move(p, "delete key", "reset key")
  /\ DropKey(key)
  /\ UNCHANGED <<count, misnumbered, key, object, main, sem, obj, tmp, cancelled>>

ResetKey(p) ==
  /\ Move(p, "reset key", "dead") /\ Die(p)
  /\ key' = 0
  /\ UNCHANGED <<count, misnumbered, liveKeys, object, main, sem, obj, tmp, cancelled>>

-----------------------------------------------------------------------------

\* What the main thread calls, and what it does in a call.
MainCall == \E o \in Objects : \/ Construct(o) \/ Start(o) \/ Join(o)
                               \/ \E op \in {"stop", "dtor"} : Stop(o, op)
MainStep == ConstructKey \/ ConstructSet \/ SemWait \/ Cancel \/ JoinDone

\* What a pthread does of itself: the wrapper's code before and after user
\* code, and a pending cancellation.
Wrapper(p) == \/ SetCurrent(p)
              \/ LoadCount(p, "load", "increment") \/ Increment(p) \/ Post(p)
              \/ ActOnCancel(p)
              \/ ClearTid(p) \/ LoadCount(p, "cleanup load", "decrement")
              \/ Decrement(p) \/ DeleteKey(p) \/ ResetKey(p)

UserCode(p) == SelfStop(p) \/ DeleteThis(p) \/ UserReturn(p)

Next == MainCall \/ MainStep \/ \E p \in Pthreads : Wrapper(p) \/ UserCode(p)

Spec == Init /\ [][Next]_vars

\* Every runnable thread is run, and user code whose cancellation is pending
\* reaches a cancellation point.  User code need not return, nor main call.
FairSpec == Spec /\ WF_vars(MainStep) /\ \A p \in Pthreads : WF_vars(Wrapper(p))

-----------------------------------------------------------------------------
(* Correctness.                                                            *)

\* Types.
TypeOK ==
  /\ count \in 0..COUNTMAX-1 /\ key \in Keys /\ liveKeys \subseteq Keys
  /\ tls \in [Contexts -> [Keys -> Objects \cup {MAIN, NULL}]]
  /\ life \in [Objects -> {"none", "alive", "freed"}]
  /\ tid \in [Objects -> 0..COUNTMAX-1]
  /\ handle \in [Objects -> Contexts]
  /\ main.at \in {"idle", "create key", "set main", "sem_wait", "cancel", "join"}
  /\ main = Idle \/ main.obj \in Objects
  /\ sem \in {0, 1}
  /\ \A p \in Pthreads : (pc[p] = "unused") <=> (obj[p] = NULL)

Before == {"copy", "load", "increment", "post"}

\* start() hands a pointer into its own frame to the new pthread: the pthread
\* is done with args and sem while start() of its object still waits, however
\* the two are scheduled.
FrameAlive ==
  \A p \in Pthreads : pc[p] \in Before =>
    main.at = "sem_wait" /\ main.obj = obj[p] /\ handle[obj[p]] = p

\* The counter has (unsigned)(-1) among its values: when updates that were lost
\* have brought it to two below zero, ++ numbers a pthread with it, and the
\* object passes for not running while it runs.  The next three properties are
\* of the objects this has not happened to; what it does to one stays with it.
Numbered == Objects \ misnumbered

\* No two pthreads ever run the user code of one object, and while one does,
\* is_running() says so and m_t is its handle: a stop() or join() called at
\* any moment cancels or awaits the right pthread, never an earlier one.
OneRunner ==
  \A p \in Pthreads :
    obj[p] \in Numbered /\ pc[p] \in {"post", "run", "deleted", "cleanup"} =>
      /\ tid[obj[p]] # NoTid
      /\ handle[obj[p]] = p
      /\ \A q \in Pthreads \ {p} :
           obj[q] = obj[p] => pc[q] \notin Before \cup {"run", "deleted", "cleanup"}

\* What the wrapper and the user code access through args.instance is there:
\* an object that main destroys outlives them, although the thread is joined
\* only if m_tid still said "running" when the destructor looked.
NoUseAfterFree ==
  \A p \in Pthreads :
    obj[p] \in Numbered \ SelfDeleting /\ pc[p] \in {"increment", "run", "cleanup"} =>
      life[obj[p]] = "alive"

\* When a stop() or join() of main is over, whichever way it went, no user
\* code of the object is running any more and the object can be started again.
StopEnds ==
  [][\A o \in Numbered :
       (\E op \in {"stop", "dtor"} : Stop(o, op) /\ main' = Idle)
         \/ (main.obj = o /\ (Cancel \/ JoinDone) /\ main' = Idle) =>
       /\ tid'[o] = NoTid
       /\ \A p \in Pthreads : obj[p] = o => pc'[p] \notin Before \cup {"run"}]_vars

\* start(), stop() and the destructor return: the semaphore is posted on every
\* path, and the cancellation reaches the thread that is joined, even if that
\* thread ends or cancels itself at the same time.
CallsReturn ==
  \A op \in {"ctor", "start", "stop", "dtor"} : main.op = op ~> main = Idle

-----------------------------------------------------------------------------
(* What a comment says and the code does not do.                            *)

\* gthread.cpp:119 "if __instance_count==0, __key_to_instance is invalid" (and
\* so valid otherwise): user code that asks for its Thread gets its own.
CurrentIsOwn ==
  \A p \in Pthreads : pc[p] = "run" /\ count # 0 => GetCurrent(p) = obj[p]
=============================================================================
