# OpenGCL in TLA+

This directory specifies OpenGCL, a C++ component library (queues, events,
threads, lists, sockets, memory maps), in TLA+. The specifications are
translated from the code in `src/` and `include/`; TLC checks them on small
instances, and TLAPS proves the safety properties of every component modelled for
every value of their constants.

`PROJECT.json` lists the components, the runs, the source lines each definition
stands for, the hazards of the code and which property watches each of them.

## Inventory

| component | state | operations | interacts with | hard about it |
|---|---|---|---|---|
| gque, `CircularQueue`, `Queue<T>` | control block (begin, end, head, tail, item size) and slots, as byte offsets | init, clear, put, get, push, pop, peeks, counts | base of `QueueMT`, used by `EventEmitter` | wrap-around, full against empty, calls in any mix |
| gque, `QueueMT<T>` | a queue and a read-write lock | the same under the lock | threads | interleaving of bodies, lock on every way out |
| gevent, `EventEmitter` | a queue of names, a queue of event blocks that point into it, a lock | on, once, off, emit | listeners (callbacks under the lock) | pointers between queues, lazy dropping, re-entrancy |
| gthread, `Thread` | per object m_t, m_tid; file-scope counter, key, `__main_thread` | construct, start, join, stop, cancel, destroy, get_current | pthreads, semaphore in a stack frame | start and end handshakes, unlocked globals, lifetime |
| gthread, locks | a pthread lock | lock, unlock, automatic variants | QueueMT, EventEmitter | return codes are ignored |
| glist, `Linkable`, `List<T>` | prev and next of each node | append, prepend, detach, iterate | user nodes | stale pointers of detached nodes |
| gtockenizer | head, tail, pos and end as pointers into the client's string, separators in a small array | bind, set_separators, get_next, rewind | the string | end of string, small buffers, a bind() that fails half-way |
| gsocket, functions | none | create, close, read, write, waits, packets | the sockets API | partial transfers, timeouts, the end of the stream |
| gsocket, `Socket` | a descriptor | construct, create, close, attach, detach, destroy | other users of descriptors, which the kernel gives out again | who owns a descriptor, failed close(), failed creation |
| the server of `samples/ex-socket.cpp` | a listening socket, the variable sock, a thread and a `Socket` per connection | accept, serve, end by `delete th` | Thread, Socket, clients | a stack variable handed to a thread, clients that go, SIGPIPE |
| gmmap, `MMap`, `MMapFile` | handle, pointer, size, descriptor | mmap_ro, mmap_rw, mmap_vro, mmap_vrw, close, destroy | the file system | failure of each step, pages and offsets, widths |
| gtime, gsemaphore, gutil, gdmsg, win32 | none or one handle | conversions, wrappers | the system | integer width |

What makes each correct: the queue is a bounded deque; its thread-safe version
is linearizable and its calls return; the emitter serves registrations in order
and loses none; start() hands its frame over safely, stop() leaves no user code
running and no object is used after its end; the list is a sequence; the
tokenizer yields the split of its string and reads nothing else; a transfer puts
every byte in its place and reports what it moved; a `Socket` closes its own
descriptor and no other, and a server lets a client go that has left; what a map
has mapped and opened is unmapped and closed.

## Modules

| module | models | role |
|---|---|---|
| `CircularQueue` | `gque.h`, `gque.cpp`: the operations as operators on a queue value | shared by the three modules below |
| `CircularQueueSpec` | one `Queue<T>` used by one thread | state machine, invariants, refinement of `BoundedDeque` |
| `BoundedDeque` | what a queue promises | abstract specification |
| `QueueMT` | `QueueMT<T>`, `RWLock`, `AutoLockRead`, `AutoLockWrite` | threads, lock, bodies step by step; refines `AtomicQueue` |
| `AtomicQueue` | calls that take effect at one instant | abstract specification |
| `EventQueues` | `gevent.cpp`: the two queue values; on, once, off and their helpers as operators on them | constants, variables and operators of the two emitters |
| `EventEmitter` | `gevent.h`, `gevent.cpp`, one thread | refines `EventRegistry` |
| `EventRegistry` | a list of registrations and a set of names | abstract specification |
| `Subsequences` | leaving items out of a sequence, in a form the proofs can use | operators for `EventQueues` and `EventRegistry` |
| `EventEmitterMT` | the same with threads, `m_lock`, emit() listener by listener, cancellation, re-entrant listeners | composes `EventQueues` with the lock |
| `LinkedList` | `glist.h`, `glist.cpp` | pointers of nodes; refines `ItemLists` |
| `ItemLists` | lists of items | abstract specification |
| `Tockenizer` | `gtockenizer.h`, `gtockenizer.cpp` | pointers into a memory of characters |
| `MMap` | `gmmap.h`, `gmmap.cpp` (unix), `filelength.cpp` | members, pages mapped, descriptors open |
| `SocketTransfer` | `gsock_read`, `gsock_write`, `readn`, `writen`, packet calls of `gsocket.h`, `gsocket.cpp` | two ends, a connection, time |
| `SocketHandles` | `Socket`, `gsock_create_socket`, `gsock_close_socket` | objects and descriptors, over an external kernel |
| `SocketServer` | the server of `samples/ex-socket.cpp` | composes `SocketHandles` with accepting, serving and leaving |
| `Thread` | `gthread.h`, `gthread.cpp` | main thread, pthreads, shared counter and key |
| `MC*` | instances for TLC | sizes and keys |
| `*_proofs` | of `CircularQueue`, `QueueMT`, `EventEmitter` (both), `LinkedList`, `Tockenizer`, `MMap`, `Socket` (all three), `Thread` | TLAPS proofs |

How the state corresponds to the code:

- *Queue.* `m_q` is NULL or a record of the five words of `cque_t`. Positions
  are byte offsets and arithmetic on them wraps at `UMAX`, because two of the
  tests in the code (`pos < begin`) only make sense with the width in mind. The
  bytes of a slot are one value: memcpy stores or loads it. Reading the control
  block as an item gives `Garbage`; writing outside the slots sets `fault` and
  ends the run, as nothing the code does afterwards has a meaning.
- *Corners.* Three situations leave the deque: push on a full queue, push with
  head at the first slot of items larger than the control block, pop with tail
  at the first slot. `Corners` says which ones clients may reach; the runs and the
  theorems are about clients that reach none, and the actions say what happens
  in each. The emitter can reach the last one when it trims expired blocks from
  the tail; it then has `fault` set and stops.
- *QueueMT.* A call is: invoke, acquire the lock, the steps of the body (test,
  copy, move, wrap), release and return. `init` and `clear` of `QueueMT` do not
  compile when used and are left out. `AtomicQueue` is what the code
  does and not what the header says: pop() takes the first item, as get() does,
  and push() empties a full queue.
- *Emitter.* Two queue values. A block's name is the offset of a slot in the
  queue of names, as the pointer is in the code; an expired block has a NULL
  name. Loops over the queue are recursive functions over the round number.
  `call`, `called` and `ret` record each call with its arguments, the listeners
  it called and what it returned, so that the refinement ties every call to the
  same call of the registry (in `CircularQueueSpec`, `out` does the same). on()
  accepts the empty name, whose slot then looks unused; `blank` records that it
  was given one.
- *Emitter with threads.* A call waits for `m_lock` and then is one step, but
  for emit(), which is a step per listener: a block is found, its listener runs
  (`calling`), and the walk goes on. While it runs other threads may call, and
  wait. A cancelled thread ends outside the emitter or in a listener, where it
  may sleep or print, and unwinding unlocks. `Reenter` is a listener that calls
  off(); it is part of `ReentrantSpec` only. The platform's lock refuses its owner
  (EDEADLK), as glibc's does; unlocking what one does not hold may do anything
  to the lock. `due` and `heard` are history.
- *List.* `links` holds m_next and m_prev of every node, list heads and items
  alike. `ringed` is the one variable the code does not have: the nodes that
  were not detached since they were last put in a ring. The code cannot tell
  them from the others, which is one of the two corners: "stale" lets clients
  append, remove or destroy a node that was detached before when that writes
  into other rings, "prepend" lets them prepend to a list that has items. A third
  is about the items: next_of() compares with the list cast to an item
  (`IsEnd`), which is right when items begin with their Linkable, and in the
  corner "offset" they do not. An item is not appended to itself.
- *Tockenizer.* Pointers are addresses in a memory of characters, 0 is null. A
  separator string is the set of its characters; strchr() finds the terminating
  null character of the separators as well, hence `Separates`. The end of a
  token is chosen by what `_find_next_token()` guarantees of it (`FindsNext`),
  not by its loop. `stale` marks a bind() that failed, `mixed` separators that
  were changed in the middle of a walk, `got` what was returned since it began;
  the text that get_next() copies is left out. An m_sep nobody wrote (`unset`)
  holds anything, each time it is searched anew, as it may have no null character
  and what is behind it changes; that strchr() may leave the memory of the process
  is not modelled.
- *Memory maps.* A file is its length; mmap() is external and may fail, and of
  what it returns the page-aligned start and the number of pages count. m_ptr is
  counted from there, as the code adds the part of the offset inside a page to
  it, to MAP_FAILED too, where a part of one gives null. Offsets may be negative,
  and then quotient and remainder are C's. Arithmetic has the widths of int
  (`INTMAX`) and size_t (`WORD`). `mapped` and `open` are what the system keeps for
  an object, `failures` counts the mappings that failed. Objects are not copied.
- *Transfers.* Both functions have the same loop, so one set of actions serves
  both ends: first transfer, transfer in the loop, test of the time, wait. The
  connection is external: it moves any number of bytes from one up to what is
  asked for and fits, breaks once, and gives each end its error once, either
  from recv() or send() or, which also clears it, from the SO_ERROR that the
  wait asks for. A wait may also end because select() fails or sees urgent data
  (`Disturb`), which ends the call. `Tick` lets time pass between any two steps, up to one unit
  past the timeout, after which more time makes no difference. Timeouts are ones
  that fit the long they are cast to (`gsocket.cpp:208`), and a call is over before
  elapsed_msec() wraps.
- *Socket objects.* Openings are numbered, so that a descriptor that was closed
  and given out again differs from the one a program has in mind. `file` is the
  kernel's table; the lowest free descriptor is given out, and close() frees
  one even when it reports an error, as Linux does. `meant` is the opening an
  object was given. A Socket is `astray` when its descriptor is not its own: its
  close() failed and it kept the number, or the server's thread read another
  one than it was started for. `hit` are openings closed through the number of
  another, `lost` those no variable tells of. close() and the store of m_sock
  after it (`gsocket.cpp:252-253`, `261-262`, `270-271`) are one step: the old
  number is in the object a little longer, where nobody else looks.
- *Server.* `_server()` is four places, `_serv_d()` three; `Read` is the first
  statement of the thread, which reads the variable of the accepting loop as it
  is by then. A thread that finds its client gone, or gives up, closes, deletes
  its Thread and returns. If close() fails, ~Socket() calls close() again after
  `delete th` has cancelled the thread: the cancellation acts in a destructor and
  the process ends (`Terminate`). A second thread uses one more Socket in every
  way its interface has.
- *Thread.* Context 0 is main, 1..`MaxPthreads` are pthreads. Every load and
  store of the counter, the key and `m_tid` is a separate step. Not running is
  `NoTid`, which as in the code is a value of the counter, the greatest: ++ may
  number a thread with it after enough updates were lost, and `misnumbered` has
  the objects this happened to. POSIX calls are
  external: a key is any number not in use (0 included), a deferred
  cancellation acts at a cancellation point of user code, `pthread_cancel` of
  an ended thread succeeds or not.

Definitions marked `MUTANT` are plausible mistakes in the definition after
them. They are used in no specification: `PROJECT.json` pairs each with the
property that finds it, so that every property is known to be able to fail.

## Runs

| run | checks | instance |
|---|---|---|
| `deque` | types, shape of the ring, accessors, iteration, refinement of the deque | capacities 0, 1, 3, two items |
| `queue_mt` | exclusion, linearizability with the pop() and push() of the code, every call returns | 3 threads, capacity 2, put, push, pop, length |
| `emitter` | types, name pointers, refinement of the registry | 3 names for 2 slots, one over-long name, one name with two listeners (one of them null), 3 listener slots |
| `emitter_mt` | exclusion, a running listener is registered, an emit is one instant, calls return | 2 threads, one of which is cancelled; 3 registrations of 2 names for 1 name slot, 3 listener slots |
| `list` | types, both directions agree, no pointer out of a ring, walks agree, refinement of lists | 2 lists, 3 items, constructed and destroyed at any time |
| `tokenizer` | types, reads stay in the string, get_next() yields the split | every memory of 5 characters, two addresses, all lengths, buffers of 0, 1, 6 |
| `mmap` | types, mapped pages and open descriptors are accounted for, the window is right | a map and a mapped file, pages of 4 bytes, an int of 4 bits, a word of 6, two failed mappings for each object |
| `socket` | the stream arrives intact, short transfers have a reason, calls return | packets of 3 bytes, 2 of them, a connection that holds 2 bytes, timeouts 0 and 1 |
| `sockets` | types, Sockets hold their own descriptors, no descriptor is lost, clients are let go | 3 descriptors, 4 openings, 2 serving threads, 1 Socket of another thread |
| `thread` | types, frame hand-over, one runner, no use after free, end of stop, calls return | 2 objects (one deletes itself), 2 pthreads, 3 keys |
| `emitter_reentrant` | finds exclusion broken by a listener that calls off() | as `emitter_mt`, 2 listener slots |
| `thread_current` | finds a thread without a current Thread | as `thread` |

Why the bounds are enough. A ring of capacity 3 has four slots: head and tail
take every relative position and wrap at each of put, get, push; capacity 1 is
the smallest ring, 0 the null queue. Two items show swaps and losses. In
`queue_mt` three threads give two readers against a writer, and capacity 2
makes full, empty and wrapped rings occur. The emitter needs more names than
slots (to use slots again), more registrations than blocks (to squeeze) and a
name it refuses; `Uses` lists what its clients register. Its calls do not depend
on what the calls before them returned, so the run identifies states by the two
queues alone (`VIEW Queues`); TLC checks the refinement on every step it
generates, before it identifies the states. Three items give a
list a first, an inner and a last one; the second list is where an item comes
from or goes to. A connection
smaller than a packet makes both ends wait for each other within a packet;
timeout 0 skips the loop and 1 has a time before, at and after the limit. Two
pthreads suffice for the races of
`Thread`, which are between one pthread that ends and one that begins; the
third key is what two constructions can leave behind. The counter comes to the id of
"not running" only after more lost updates than two pthreads can make, or after as
many threads at once as it has values: the run has neither, and what is claimed
of that case is proved. In `emitter_mt` one
thread walks the queue while the other waits for, gets or loses the lock; one
slot for two names makes names leave and come back, and three blocks hold a once
block, a block to call after it and one of neither. Five characters hold two
tokens, an empty one between separators, an inner null character and a string
that begins inside another; the buffers are smaller than any token, as large as
some, and larger than all. Offsets of `mmap` lie at 0, before it, inside and at the start of
a page, past the end of every file but one and past an int; sizes are the rest
of the file, one that fits, and one no system maps. Three
descriptors are fewer than the sockets the program wants at once, so that they
are given out again while an older number is still in use, and four openings
are a listener, two connections and one more.

`emitter`, `emitter_mt`, `tokenizer`, `thread`, `socket`, `sockets` and the
violation runs do not report deadlock: a fault ends the program of the emitter
and of the tokenizer, and a program whose objects are all destroyed, whose
threads have ended or whose sockets are all closed has nothing left to do. The
runs of the queues, the list and the maps check deadlock.

Fairness. `QueueMT!FairSpec` has weak fairness of each thread's own steps: the
scheduler runs every thread, and a lock that stays free is given to a waiting
thread. That is weak enough to be true of pthreads without assuming any order
among waiters, and it proves return only once no new calls are made
(`CallsReturn` starts with that), since a stream of readers may hold off a
writer for ever. `Thread!FairSpec` has weak fairness of main's steps inside a
call and of each pthread's own steps, among them acting on a pending
cancellation: user code must reach a cancellation point, as the samples'
sleeps do, but it need not return by itself, and main need not call anything.
Hence nothing is claimed of join(), which may wait for ever.
`SocketTransfer!TransferFairSpec` has weak fairness of each end's steps inside a call
and of the clock, and none of the connection, of signals or of the clients.
`EventEmitterMT!SharedFairSpec` has weak fairness of each thread's steps inside a call:
listeners return and a lock that stays free is given to a waiter; like that of
the queue it claims returns once nobody makes new calls, and a cancelled thread
need not notice. `SocketServer!FairSpec` has weak fairness of starting a thread
for an accepted connection, of the thread's first read, and of finding out that a
client is gone, as the loop of `_serv_d()` writes all the time; nobody has to
connect or leave.

## What the runs show to be wrong

Two runs find a disagreement with what the code or its documentation says:

1. `emitter_reentrant`: a listener that calls the emitter back is refused the
   lock, goes on without it and then unlocks the lock of the emit() that called
   it (`gthread.h:205`), so that the emitter is not thread-safe any more.
2. `thread_current`: a thread started after the counter was zero has no current
   Thread (`gthread.cpp:33`): the key was deleted and only a constructor makes
   one.

The models contain these too; the properties are stated up to them, or for
clients that avoid them:

3. `QueueMT::pop()` takes the first item, as get() does (`gque.h:146`), where the
   header says "pop from tail" (`gque.h:41`), `Queue` does that, and `QueueMT` is
   called its "thread-safe version" (`gque.h:130`). `Linearizable` is of the code.
4. `push()` on a full queue succeeds and empties it (`gque.cpp:78`), in the test
   its comment calls "full".
5. `pop()` does not wrap (`gque.cpp:89`): at the first slot it returns part of
   the control block and leaves tail outside the slots. `on()` can follow it out
   of the queue of blocks (`gevent.cpp:136`). A run stops there, and for the
   registry the call that ends in it is a stutter: no property sees it.
6. on() accepts the empty name, and the next on() takes the slot of it for a free
   one (`gevent.cpp:95`): the first listener then gets another name's events. The
   properties of the emitter hold until then (`blank`).
7. A node that was removed from a list and is removed, appended or destroyed
   later rewires its old neighbours (`glist.h:29`); `prepend()` empties a list
   that has items (`glist.h:48`).
8. next_of() and prev_of() do not see the end of a list of items that do not
   begin with their Linkable, as with a virtual method (`glist.h:57`, `62`); the
   iterators compare with the same cast (`86-88`).
9. A Thread that deletes itself is written to after its end (`gthread.cpp:30`).
10. Updates of the counter of threads are lost (`gthread.cpp:41`), so that
   get_thread_counts() is not the number of running threads (`gthread.h:85`); and a
   thread that ++ numbers (unsigned)(-1) passes for not running (`gthread.h:77`).
11. A failed `bind()` leaves m_end of the string before (`gtockenizer.cpp:36`),
   and a constructor does not tell; get_next() may then read outside the string.
12. A constructor that gets a string and no separators leaves m_sep as it finds
   it (`gtockenizer.h:25`).
13. With an offset inside a page a mapping that failed is valid to `is_valid()`
   (`gmmap.cpp:110`), and the last bytes of one that succeeded may not be mapped
   (`gmmap.cpp:107`). An offset an int does not hold maps another place
   (`gmmap.cpp:104`), and a negative one gives a pointer before the mapping.
14. After a mapping that failed, the descriptor is forgotten by the next one
   (`gmmap.cpp:150`), also one whose own mapping had succeeded, when it was
   replaced by an mmap_vro() that failed (`gmmap.cpp:59`).
15. A Socket whose close() failed keeps a number that is another socket's later
   (`gsocket.cpp:261`); a socket whose ioctl() failed is left open
   (`gsocket.cpp:38`).
16. The sample server hands the address of its variable to the new thread
   (`ex-socket.cpp:89`): the next accept() may overtake it, which leaves one
   connection without a thread and another with two. A client that goes between
   the test and send() ends the server (`gsocket.cpp:132`).
17. A signal or urgent data during a wait ends a transfer early
   (`gsocket.cpp:215`), as if its time were over.

## Proofs

Each theorem is `Spec => []P` for a property P of a run, but for the refinements
(`Spec => P`) and the action property `EmitUndisturbed`, which no run checks.

| module | theorem | states |
|---|---|---|
| `CircularQueue_proofs` | `TypeCorrect`, `ShapeCorrect` | `TypeOK`, `RingShape` |
| | `AccessorsCorrect`, `IterationCorrect` | `AccessorsAgree`, `IterationAgrees` |
| | `QueueImplementsDeque` | `ImplementsDeque` |
| `QueueMT_proofs` | `QueueExclusion`, `QueueLinearizable` | `Exclusion`, `Linearizable` |
| `EventEmitter_proofs` | `EmitterTypes`, `NamesStayLinked` | `TypeOK`, `NamesLinked` of `EventEmitter` |
| | `EmitterImplementsRegistry` | `ImplementsRegistry` |
| | `EmitterExclusion`, `EmitUndisturbed` | `Exclusion` of `EventEmitterMT`; nothing moves under a walk |
| | `OffIsFinal`, `EmitOneInstant` | `RunningIsRegistered`, `EmitsAtOneInstant` |
| `LinkedList_proofs` | `TypeCorrect`, `DirectionsAgree`, `NothingDangles` | `TypeOK`, `DoublyLinked`, `NoDangling` |
| | `WalksCorrect`, `RefinesLists` | `WalksAgree`, `ImplementsLists` |
| `Tockenizer_proofs` | `TypeCorrect`, `PointersInBounds`, `WalkIsSplit` | `TypeOK`, `InBounds`, `YieldsSplit` |
| `MMap_proofs` | `TypeCorrect`, `PagesKept`, `DescriptorsKept`, `WindowCorrect` | `TypeOK`, `NothingMappedIsLost`, `DescriptorsAccounted`, `WindowRight` |
| `Socket_proofs` | `StreamKept`, `ShortIsExplained` | `StreamIntact`, `ShortHasReason` of `SocketTransfer` |
| | `ServerTypes`, `SocketsOwn`, `NoneDropped` | `TypeOK`, `HandlesOwn`, `NothingLost` of `SocketServer` |
| `Thread_proofs` | `ThreadTypes`, `FrameOutlives`, `OneRunnerAtATime` | `TypeOK`, `FrameAlive`, `OneRunner` |
| | `ObjectsOutlive`, `StopIsFinal` | `NoUseAfterFree`, `StopEnds` |

*Assumptions.* Each proof rests on the assumption about the constants that its
module names (`HeaderAssumption` and `QueueAssumption`, `MTAssumption`,
`EmitterAssumption` and `EmitterMTAssumption`, `ListAssumption`,
`TockenizerAssumption`, `MMapAssumption`, `TransferAssumption`,
`HandlesAssumption` and `ServerAssumption`, `ThreadAssumption`): sizes are numbers,
blocks fit in a word, and special values such as NULL differ from the others. TLC
evaluates them in the runs. The code checks none of the sizes: the theorems say
what holds when they are right. The queue and the list are proved for clients
that reach no corner (`Corners = {}`); items of lists are finitely many, so that
walks can end, and begin with their Linkable. `OffIsFinal` and `EmitOneInstant`
assume clients that keep away from the empty name (`NoEmptyName`); for one thread
`EmitterTypes`, `NamesStayLinked` and `EmitterImplementsRegistry` hold until it is registered. Those
about a Thread are of the objects to which ++ never gave the id
(unsigned)(-1) (`Numbered`).

*Data of any length.* The loops of the model are recursive functions on the number
of the round. That their value exists and is the one of their equation is proved
once for each form (`Iterates` in the emitter's proofs, `GoesOn` in the list's), and a
fact about all rounds by looking at the least round where it fails.

**Queue.** `RingShape` is not inductive: with head at *some* offset nothing says
that one item further is a slot or the end. The invariant `RingInv` says that the
block is described by three numbers: a capacity c and the indices of the slots of
head and tail, with head = begin + i * size and tail = begin + j * size. Under it
every step of the code is arithmetic modulo c + 1 on indices, and the lemmas give
the index form of each operator (`NextPos`, `PushPos`, `PopPos`, `Length`, ...).
From indices they go on to sequences: what `Contents` is after put, get, push and
pop (append, tail, prepend, front), and what the loops over it visit. The
refinement then has one step per action.

**Queue with threads.** `Inv` says of each thread that it is inside a body exactly
when it is the writer or a reader, that a writer is alone, and that head is at a
slot, or at the end and one thread is between the two updates of get().
Linearizability adds what each thread knows (`Knows`): which part of its call it
has done, and what it has read so far, which is still so since no other writer
runs. The calls of `AtomicQueue` then take effect at the step that makes them
visible to the mapping, by the lemmas of `CircularQueue_proofs` for the same
ring (`Ring`); a head at the end holds what it holds one step further.

**Emitter.** `EmitterOK` is inductive for the two queue values, whoever calls: both
are rings of their sizes, no name has two slots, and a live block points at a slot
that is in use. The lemmas follow it through the loops: a rotation and a trim keep
every block or drop it, and add none. `EmitterTypes` and `NamesStayLinked` are
parts of it.

For the registry the same loops are followed to the contents. A rotation leaves
`Without(Contents(q), dropped)`: after i rounds the queue is the blocks not yet
seen and, behind them, those kept (`Rotated`). Trimming keeps the live blocks
(`Keeps`), squeezing leaves nothing else, so that there is room after it exactly
when the registry has room. The registrations are the live blocks, each with the
name its slot holds (`Regs`). What a call does to the blocks is an Append or a
Without, and both commute with that mapping, as a name is found in one slot only
(`NameIs`); off() and emit() then drop, expire and serve what the registry does. A
call that ends in the fault is a stutter.

**Emitter with threads.** `Exclusion` is inductive with the types of pc and m_lock:
whoever leaves is the holder, so that ~AutoLockWrite never unlocks what it has not
locked, cancellation included. `WalkInv` adds `EmitterOK` and, for the thread in
emit(), where its walk is: it stands at the k-th block of the queue as it is now, and
what it has heard, followed by the listeners of its name from there on, is what it
was due when it got the lock. The two properties about callbacks follow:
off() cannot come between, and the walk yields what one look at the blocks does.

**List.** The pointers link the nodes of `ringed`, and no others, to rings
(`IsRinged`). detach() takes a node out of that set, linking adds one, append() is
one after the other. `AllRings` names the sequence of items from each list head;
what each operation does to it (`Inserted`, `Removed`) is what the abstract
operation does, and the walks return it, one way and the other.

**Tokenizer.** Inductive are: m_pos is the head or one past a separator, m_end is
the first end of a token from there, and the tokens returned are those of the split
before m_pos. get_next() then returns the one token that begins at m_pos, and there
is none between it and the new m_pos.

**Maps.** `Sound` adds to the properties that the pages close() computes from
m_size are those of the handle, and that a destroyed object has neither pages nor
a descriptor; it is of one object, as no step touches two.

**Transfers.** The stream is inductive with the types: a transfer moves the first
bytes of wire to where count says, or the next bytes of the packet to its end, and
the two counts are what `Received` and `Sent` add up. Short calls need besides
(`Reasons`) that an error, told or not, means the connection is broken.

**Sockets and the server.** `HandlesInv(P)` follows each opening from hand to hand: no
opening is in two of the hands, which are the Sockets, the variables and what P adds,
and an open descriptor is in one of them unless it was dropped. The server promises
(`Promised`) what it was given and no thread has read yet. That a number means the
opening its holder was given holds until that opening is hit, since the kernel
gives out only numbers that no open descriptor has; a Socket whose number may mean
another one is `astray`.

**Threads.** `Inv` ties the program counters to each other and to the objects: a
pthread that was created and has not ended is the one its object's m_t names
(`HandleOfActive`), past its first store it is m_tid's too (`TidOfEntered`), the
semaphore is up only between its post and main's wait (`SemPosted`), and an object
lives while a pthread of it is active, unless the pthread destroyed it itself. At
most one active pthread per object follows from the first. `StopIsFinal` is about
the step that ends a call of stop(), join() or the destructor: it needs
no fairness, as it does not say that the call ends.

Only model-checked: the liveness properties `CallsReturn` and `ClientsLetGo`,
which like ENABLED are out of the prover's reach.

## Not modelled, and the plan

1. Listeners that call on() or emit(): the lock is lost in the same way as in
   off(), which is modelled, and a nested walk changes nothing but once blocks.
2. Two threads that start or stop the same `Thread` at once, and the end of the
   process, which destroys `__main_thread`.
3. Two `Socket` objects given one descriptor by their user, and what connect,
   listen and name look-up do besides reporting success.

Left out for good: gsemaphore, gutil, gdmsg and the win32 entry point have no
state of their own beyond a handle; Mutex, Condition and AutoLock wrap one call
each and the library does not use them; of gtime only the unit conversions would
be worth lemmas; the Windows port of gmmap is a different program. The bytes of
files and of mapped memory, and the text of tokens, are data no property needs.
