----------------------------- MODULE SocketHandles -----------------------------
(***************************************************************************)
(* Who has which descriptor: gcl::Socket and the functions that create and *)
(* close sockets (include/gsocket.h, src/gsocket.cpp).                     *)
(*                                                                         *)
(* The kernel is external: an opening takes the lowest free descriptor,    *)
(* close() of one that is open frees it, also when it reports an error,    *)
(* and close() of one that is not open fails.  Openings are numbered, so   *)
(* that a descriptor which was closed and given out again can be told from *)
(* the one a program still has in mind.                                    *)
(*                                                                         *)
(* A system call and the store of its result in m_sock are one step.  In   *)
(* between the object still has the number that was closed; nobody else    *)
(* looks at the object, and another thread that is given the number in the *)
(* meantime has a new opening, as it has when it comes before or after.    *)
(***************************************************************************)
EXTENDS Integers, FiniteSets, FiniteSetsExt

CONSTANTS
  Fds,       \* the descriptors of the process
  Sockets,   \* the Socket objects of the program
  MaxOpened, \* bound: how many sockets the run may open
  INVALID    \* INVALID_SOCKET

ASSUME HandlesAssumption ==
  /\ IsFiniteSet(Fds) /\ Fds \subseteq Nat /\ MaxOpened \in Nat
  /\ INVALID \notin Fds

VARIABLES
  file,   \* per descriptor, the opening it stands for, 0 if it is free
  opened, \* how many sockets have been opened
  alive,  \* the Socket objects that exist
  m_sock, \* per Socket
  meant,  \* history: per Socket, the opening it was given
  raw,    \* descriptors in variables of the program, each with its opening
  lost,   \* history: openings whose descriptor was in a variable that is gone
  astray, \* history: Sockets whose descriptor is not theirs, see below
  hit     \* history: openings closed through what was not their descriptor

objects == <<alive, m_sock, meant>>
blame == <<astray, hit>>
handles == <<file, opened, objects, raw, lost, blame>>

HandlesInit ==
  /\ file = [fd \in Fds |-> 0] /\ opened = 0
  /\ alive = {} /\ m_sock = [s \in Sockets |-> INVALID]
  /\ meant = [s \in Sockets |-> 0]
  /\ raw = {} /\ lost = {} /\ astray = {} /\ hit = {}

-----------------------------------------------------------------------------
(* The kernel.                                                             *)

\* f with one more opening, where there is room for it.
CanOpen(f) == opened < MaxOpened /\ \E fd \in Fds : f[fd] = 0
Lowest(f) == Min({fd \in Fds : f[fd] = 0})
Opened(f) == [f EXCEPT ![Lowest(f)] = opened + 1]

\* f without the opening of fd.
Closed(f, fd) == IF fd = INVALID THEN f ELSE [f EXCEPT ![fd] = 0]

\* Whether close() of fd may return 0.
CloseResults(fd) == IF file[fd] = 0 THEN {FALSE} ELSE {TRUE, FALSE}

\* What is hit when fd is closed for opening n.
Hits(fd, n) == IF fd = INVALID THEN {} ELSE {file[fd]} \ {0, n}

-----------------------------------------------------------------------------
(* Socket.                                                                 *)

\* Object s has the descriptor fd of opening n, or INVALID.
Holds(s, fd, n) == /\ m_sock' = [m_sock EXCEPT ![s] = fd]
                   /\ meant' = [meant EXCEPT ![s] = n]

\* Socket()
Construct(s) ==
  /\ s \notin alive /\ alive' = alive \cup {s} /\ Holds(s, INVALID, 0)
  /\ UNCHANGED <<file, opened, raw, lost, blame>>

\* Socket(sock), of a descriptor in a variable.
ConstructFrom(s, r) ==
  /\ s \notin alive /\ r \in raw
  /\ alive' = alive \cup {s} /\ Holds(s, r[1], r[2]) /\ raw' = raw \ {r}
  /\ UNCHANGED <<file, opened, lost, blame>>

\* MUTANT: the socket the object has is forgotten.
CreateSocketKeepsOld(s) ==
  /\ s \in alive
  /\ \/ Holds(s, INVALID, 0) /\ UNCHANGED <<file, opened>>
     \/ /\ CanOpen(file) /\ file' = Opened(file) /\ opened' = opened + 1
        /\ Holds(s, Lowest(file), opened + 1)
  /\ astray' = astray \ {s}
  /\ UNCHANGED <<alive, raw, lost, hit>>

\* create_socket(): closes what the object has, and keeps what it gets even
\* if ioctl() fails on it.
CreateSocket(s) ==
  LET f == Closed(file, m_sock[s])
  IN  /\ s \in alive
      /\ hit' = hit \cup Hits(m_sock[s], meant[s]) /\ astray' = astray \ {s}
      /\ \/ file' = f /\ Holds(s, INVALID, 0) /\ UNCHANGED opened
         \/ /\ CanOpen(f) /\ file' = Opened(f) /\ opened' = opened + 1
            /\ Holds(s, Lowest(f), opened + 1)
      /\ UNCHANGED <<alive, raw, lost>>

\* close_socket(), which returns ok.  When close() fails the object keeps the
\* number of a descriptor that is free: that Socket is astray.
Closes(s, ok) ==
  IF m_sock[s] = INVALID THEN ~ok /\ UNCHANGED <<file, m_sock, meant, blame>>
  ELSE /\ ok \in CloseResults(m_sock[s])
       /\ file' = Closed(file, m_sock[s])
       /\ hit' = hit \cup Hits(m_sock[s], meant[s])
       /\ IF ok THEN Holds(s, INVALID, 0) /\ astray' = astray \ {s}
          ELSE UNCHANGED <<m_sock, meant>> /\ astray' = astray \cup {s}

CloseSocket(s) ==
  /\ s \in alive /\ \E ok \in BOOLEAN : Closes(s, ok)
  /\ UNCHANGED <<opened, alive, raw, lost>>

\* ~Socket(): the object is gone whatever close() returns.
Destroy(s) ==
  /\ s \in alive
  /\ file' = Closed(file, m_sock[s]) /\ hit' = hit \cup Hits(m_sock[s], meant[s])
  /\ alive' = alive \ {s} /\ Holds(s, INVALID, 0) /\ astray' = astray \ {s}
  /\ UNCHANGED <<opened, raw, lost>>

\* MUTANT: the descriptor the object has is closed like any other.
AttachClosesOwn(s, fd) ==
  /\ file' = Closed(file, m_sock[s])
  /\ hit' = hit \cup Hits(m_sock[s], meant[s])

\* What attach() of descriptor fd closes.
AttachCloses(s, fd) ==
  IF fd = m_sock[s] THEN UNCHANGED <<file, hit>>
  ELSE /\ file' = Closed(file, m_sock[s])
       /\ hit' = hit \cup Hits(m_sock[s], meant[s])

\* attach(), of the descriptor fd that the program has for opening n.
Attach(s, fd, n) ==
  /\ s \in alive /\ fd # INVALID
  /\ AttachCloses(s, fd) /\ Holds(s, fd, n)
  /\ astray' = IF n = meant[s] THEN astray ELSE astray \ {s}
  /\ raw' = raw \ {<<fd, n>>}
  /\ UNCHANGED <<opened, alive, lost>>

\* MUTANT: the program does not look whether it is one.
DetachAnyway(s) ==
  /\ s \in alive
  /\ raw' = IF s \in astray THEN raw ELSE raw \cup {<<m_sock[s], meant[s]>>}
  /\ Holds(s, INVALID, 0) /\ astray' = astray \ {s}
  /\ UNCHANGED <<file, opened, alive, lost, hit>>

\* get_socket() and detach(): the program has the descriptor from now on, if
\* it is one.
Detach(s) ==
  /\ s \in alive
  /\ raw' = IF m_sock[s] = INVALID \/ s \in astray THEN raw ELSE raw \cup {<<m_sock[s], meant[s]>>}
  /\ Holds(s, INVALID, 0) /\ astray' = astray \ {s}
  /\ UNCHANGED <<file, opened, alive, lost, hit>>

-----------------------------------------------------------------------------
(* The functions.                                                          *)

\* gsock_create_socket().  When ioctl() fails, it returns INVALID_SOCKET and
\* nobody has the descriptor.
GsockCreate ==
  /\ CanOpen(file) /\ file' = Opened(file) /\ opened' = opened + 1
  /\ \/ raw' = raw \cup {<<Lowest(file), opened + 1>>} /\ UNCHANGED lost
     \/ lost' = lost \cup {opened + 1} /\ UNCHANGED raw
  /\ UNCHANGED <<objects, blame>>

\* gsock_close_socket(), after which the program forgets the descriptor.
GsockClose(r) ==
  /\ r \in raw /\ raw' = raw \ {r}
  /\ file' = Closed(file, r[1]) /\ hit' = hit \cup Hits(r[1], r[2])
  /\ UNCHANGED <<opened, objects, lost, astray>>

\* A thread of the program that uses the Socket s as it likes, but a
\* descriptor in its variables for one Socket only, and for no longer.
Uses(s) ==
  \/ Construct(s) \/ CreateSocket(s) \/ CloseSocket(s) \/ Detach(s) \/ Destroy(s)
  \/ Attach(s, m_sock[s], meant[s])
  \/ \E r \in raw : ConstructFrom(s, r) \/ Attach(s, r[1], r[2]) \/ GsockClose(r)
  \/ GsockCreate

-----------------------------------------------------------------------------
(* Correctness.                                                            *)

Own == {s \in alive \ astray : m_sock[s] # INVALID /\ meant[s] \notin hit}

\* The descriptor in a Socket is open and means what it meant when the Socket
\* got it, and is no other Socket's, unless its close() failed, it read
\* another descriptor than it was given, or someone in that state hit it.
HandlesOwn ==
  \A s \in Own : /\ file[m_sock[s]] = meant[s]
                 /\ \A t \in Own \ {s} : meant[t] # meant[s]
=============================================================================
