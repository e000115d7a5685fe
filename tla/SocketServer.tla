----------------------------- MODULE SocketServer -----------------------------
(***************************************************************************)
(* The server of samples/ex-socket.cpp: one thread accepts, a thread for   *)
(* each connection serves it with a Socket of its own and deletes its own  *)
(* Thread object.  Another thread of the process uses Sockets as it likes. *)
(*                                                                         *)
(* The accepting thread passes &sock, a variable of its loop, and start()  *)
(* returns when the new thread has posted (Thread.tla), before _serv_d()   *)
(* reads the variable: accept() may have written it again.                 *)
(***************************************************************************)
EXTENDS SocketHandles

CONSTANTS
  Workers,  \* the threads the process may have: each with its Socket gs
  Users,    \* the Sockets of the other thread
  gsListener

ASSUME ServerAssumption ==
  /\ Sockets = Workers \cup Users \cup {gsListener}
  /\ gsListener \notin Workers \cup Users /\ Workers \cap Users = {}

VARIABLES
  server, \* where _server() is
  sock,   \* its variable
  worker, \* per thread, where _serv_d() is
  handed, \* history: per thread, the opening it was started for
  client, \* per opening, whether a client is at the other end, or was
  exited  \* the process is over

program == <<server, sock, worker, handed>>
vars == <<handles, program, client, exited>>

Init ==
  /\ HandlesInit
  /\ server = "start" /\ sock = INVALID /\ exited = FALSE
  /\ worker = [w \in Workers |-> "none"] /\ handed = [w \in Workers |-> 0]
  /\ client = [n \in 1..MaxOpened |-> "none"]

\* The process ends, and the kernel closes what it has.
Exit ==
  /\ exited' = TRUE /\ file' = [fd \in Fds |-> 0] /\ alive' = {}
  /\ UNCHANGED <<opened, m_sock, meant, raw, lost, blame, program, client>>

-----------------------------------------------------------------------------
(* _server().                                                              *)

ServerStart ==
  /\ ~exited /\ server = "start" /\ server' = "create" /\ Construct(gsListener)
  /\ UNCHANGED <<sock, worker, handed, client, exited>>

\* create_socket(), and listen() with what follows it.  Whichever fails,
\* main() returns.
ServerCreate ==
  /\ ~exited /\ server = "create" /\ server' = "listen" /\ CreateSocket(gsListener)
  /\ UNCHANGED <<sock, worker, handed, client, exited>>

ServerListen ==
  /\ ~exited /\ server = "listen"
  /\ \/ m_sock[gsListener] # INVALID /\ server' = "accept"
        /\ UNCHANGED <<handles, sock, worker, handed, client, exited>>
     \/ Exit

\* The listener is readable, but there is nobody to accept.
AcceptFails ==
  /\ ~exited /\ server = "accept" /\ sock' = INVALID
  /\ UNCHANGED <<handles, server, worker, handed, client, exited>>

Accept ==
  /\ ~exited /\ server = "accept" /\ CanOpen(file)
  /\ file[m_sock[gsListener]] = meant[gsListener]
  /\ file' = Opened(file) /\ opened' = opened + 1 /\ sock' = Lowest(file)
  /\ client' = [client EXCEPT ![opened + 1] = "there"]
  /\ server' = "spawn"
  /\ UNCHANGED <<objects, raw, lost, blame, worker, handed, exited>>

\* The connection accepted last.
Newest == Max({n \in 1..MaxOpened : client[n] # "none"})

\* new Thread and start(), whose result nobody looks at.
Spawn ==
  /\ ~exited /\ server = "spawn" /\ server' = "accept"
  /\ \/ /\ \E w \in Workers :
             /\ worker[w] = "none" /\ worker' = [worker EXCEPT ![w] = "started"]
             /\ handed' = [handed EXCEPT ![w] = Newest]
        /\ UNCHANGED lost
     \/ lost' = lost \cup {Newest} /\ UNCHANGED <<worker, handed>>
  /\ UNCHANGED <<file, opened, objects, raw, blame, sock, client, exited>>

\* check_readable() reports an error.
ServerBreaks == ~exited /\ server = "accept" /\ Exit

-----------------------------------------------------------------------------
(* _serv_d().                                                              *)

\* Socket gs(*(socket_t *)data): the variable as it is now.  If accept() has
\* written it, the connection this thread was started for has no thread, and
\* the Socket is astray; an invalid one ends the thread.
Read(w) ==
  LET right == sock # INVALID /\ file[sock] = handed[w]
  IN  /\ ~exited /\ worker[w] = "started"
      /\ lost' = IF right THEN lost ELSE lost \cup {handed[w]}
      /\ IF sock = INVALID
         THEN worker' = [worker EXCEPT ![w] = "none"] /\ UNCHANGED <<objects, astray>>
         ELSE /\ worker' = [worker EXCEPT ![w] = "serving"]
              /\ alive' = alive \cup {w} /\ Holds(w, sock, handed[w])
              /\ astray' = IF right THEN astray ELSE astray \cup {w}
      /\ UNCHANGED <<file, opened, raw, hit, server, sock, handed, client, exited>>

\* The loop ends: gs.close_socket(), delete th, and the thread returns, unless
\* close() failed.
EndLoop(w) ==
  /\ ~exited /\ worker[w] = "serving"
  /\ \E ok \in BOOLEAN :
       /\ Closes(w, ok)
       /\ worker' = [worker EXCEPT ![w] = IF ok THEN "none" ELSE "failed"]
       /\ alive' = IF ok THEN alive \ {w} ELSE alive
  /\ UNCHANGED <<opened, raw, lost, server, sock, handed, client, exited>>

\* No client is at the other end of what gs has now.
Gone(w) == file[m_sock[w]] \notin {n \in 1..MaxOpened : client[n] = "there"}

\* MUTANT: is_writable() is asked, and its answer is not looked at.
FindsGoneNot(w) == worker[w] = "serving" /\ ~Gone(w) /\ EndLoop(w)

\* is_writable() or write() say so, or the client takes nothing for a second.
FindsGone(w) == worker[w] = "serving" /\ Gone(w) /\ EndLoop(w)
GivesUp(w) == worker[w] = "serving" /\ ~Gone(w) /\ EndLoop(w)

\* The client goes between is_writable() and send(), which is called without
\* MSG_NOSIGNAL.
SigPipe(w) == ~exited /\ worker[w] = "serving" /\ Gone(w) /\ Exit

\* close() failed, and ~Socket() calls it again.  It is a cancellation point,
\* delete th has cancelled this thread, and no cancellation leaves a destructor.
Terminate(w) == ~exited /\ worker[w] = "failed" /\ Exit

-----------------------------------------------------------------------------

\* _client() ends, here or where the server has closed the connection.
ClientLeaves(n) ==
  /\ ~exited /\ client[n] = "there" /\ client' = [client EXCEPT ![n] = "left"]
  /\ UNCHANGED <<handles, program, exited>>

OtherThread(s) == ~exited /\ Uses(s) /\ UNCHANGED <<program, client, exited>>

Next ==
  \/ ServerStart \/ ServerCreate \/ ServerListen
  \/ AcceptFails \/ Accept \/ Spawn \/ ServerBreaks
  \/ \E w \in Workers :
       Read(w) \/ FindsGone(w) \/ GivesUp(w) \/ SigPipe(w) \/ Terminate(w)
  \/ \E n \in 1..MaxOpened : ClientLeaves(n)
  \/ \E s \in Users : OtherThread(s)

Spec == Init /\ [][Next]_vars

\* Threads run, and a write to a connection whose client is gone ends.
\* Nobody has to connect or leave, and no call has to fail.
FairSpec ==
  /\ Spec /\ WF_vars(Spawn)
  /\ \A w \in Workers : WF_vars(Read(w)) /\ WF_vars(FindsGone(w))

-----------------------------------------------------------------------------
(* Correctness.                                                            *)

\* Types.
TypeOK ==
  /\ sock \in Fds \cup {INVALID} /\ raw \subseteq Fds \X (1..opened)
  /\ \A s \in Sockets : m_sock[s] \in Fds \cup {INVALID} /\ meant[s] \in 0..opened
  /\ \A w \in Workers : worker[w] \in {"none", "started", "serving", "failed"}

\* Every open descriptor is in a Socket, in a variable, or on its way to the
\* thread that serves it, except where the code is known to drop it.
NothingLost ==
  \A fd \in Fds : LET n == file[fd] IN
    \/ n \in {0} \cup lost
    \/ \E s \in alive : m_sock[s] = fd
    \/ \E r \in raw : r[1] = fd
    \/ (server = "spawn" /\ sock = fd)
    \/ \E w \in Workers : worker[w] = "started" /\ handed[w] = n

\* When a client has left, its connection is closed, whatever has become of
\* its thread, except where its descriptor was dropped.
ClientsLetGo ==
  \A n \in 1..MaxOpened :
    client[n] = "left" ~> n \in lost \/ \A fd \in Fds : file[fd] # n
=============================================================================
