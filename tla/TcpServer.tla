----------------------------- MODULE TcpServer ------------------------------
(***************************************************************************)
(* The TCP service on its I/O threads: Server::doAccept                    *)
(* (src/server/tcp/server.cpp), the sessions it starts                     *)
(* (src/server/tcp/session.cpp), the io_context and its threads            *)
(* (spt::server::run).  Any thread may run any handler that is ready.  A   *)
(* session has no strand and no lock: it relies on having one operation    *)
(* under way at a time.                                                    *)
(***************************************************************************)
EXTENDS Naturals, FiniteSets

CONSTANTS
  Threads,     \* the threads that run the io_context, main among them
  Conns,       \* the connections clients make
  None,        \* no connection
  LogsAddress, \* the log level is INFO, the default, or DEBUG
  MaxQueries   \* bound: queries each client sends

ASSUME ServerAssumption ==
  /\ IsFiniteSet(Threads) /\ Threads # {} /\ IsFiniteSet(Conns)
  /\ None \notin Conns /\ LogsAddress \in BOOLEAN /\ MaxQueries \in Nat

VARIABLES
  up,          \* the process runs
  stopped,     \* ioc.stop() was called
  accepting,   \* an async_accept is under way
  reading,     \* the connections with an async_read_until under way
  writing,     \* the connections with an async_write under way
  running,     \* for each thread: the handler it runs
  conn,        \* and the connection the handler is for
  backlog,     \* the connections the kernel has for async_accept
  client,      \* for each connection: new, open, closed
  asked, answered  \* how many queries the client has sent and got answers for

operations == <<accepting, reading, writing>>
threads == <<running, conn>>
clients == <<backlog, client, asked, answered>>
vars == <<up, stopped, operations, threads, clients>>

Idle == {"idle", "left"}

\* The types, and that a thread refers to a session inside a handler only.
TypeOK ==
  /\ up \in BOOLEAN /\ stopped \in BOOLEAN /\ accepting \in BOOLEAN
  /\ reading \subseteq Conns /\ writing \subseteq Conns
  /\ running \in [Threads -> Idle \cup {"accept", "rearm", "read", "write"}]
  /\ conn \in [Threads -> Conns \cup {None}]
  /\ backlog \subseteq Conns
  /\ client \in [Conns -> {"new", "open", "closed"}]
  /\ asked \in [Conns -> 0 .. MaxQueries]
  /\ answered \in [Conns -> Nat]
  /\ \A t \in Threads :
       /\ running[t] \in Idle => conn[t] = None
       /\ running[t] \in {"accept", "read", "write"} => conn[t] \in Conns

Init ==
  /\ up = TRUE /\ stopped = FALSE
  /\ accepting = TRUE /\ reading = {} /\ writing = {}
  /\ running = [t \in Threads |-> "idle"] /\ conn = [t \in Threads |-> None]
  /\ backlog = {} /\ client = [c \in Conns |-> "new"]
  /\ asked = [c \in Conns |-> 0] /\ answered = [c \in Conns |-> 0]

Run(t, handler, c) ==
  /\ running' = [running EXCEPT ![t] = handler]
  /\ conn' = [conn EXCEPT ![t] = c]

\* Slip: the handler's shared pointer is kept after it has returned.
FinishKeeping(t) == Run(t, "idle", conn[t])

Finish(t) == Run(t, "idle", None)

\* The thread takes a handler that is ready from the io_context.
Free(t) == up /\ ~stopped /\ running[t] = "idle"

-----------------------------------------------------------------------------
(* Server::doAccept.                                                       *)

AcceptReady(t) ==
  /\ Free(t) /\ accepting
  /\ accepting' = FALSE
  /\ \E c \in backlog :
       /\ backlog' = backlog \ {c}
       /\ Run(t, "accept", c)
  /\ UNCHANGED <<up, stopped, reading, writing, client, asked, answered>>

\* The accept fails: the handler logs the error.
AcceptFails(t) ==
  /\ Free(t) /\ accepting
  /\ accepting' = FALSE
  /\ Run(t, "rearm", None)
  /\ UNCHANGED <<up, stopped, reading, writing, clients>>

\* Session::Session, unless it throws, and start: the first doRead.
Start(t) ==
  /\ up /\ running[t] = "accept"
  /\ reading' = reading \cup {conn[t]}
  /\ running' = [running EXCEPT ![t] = "rearm"]
  /\ UNCHANGED <<up, stopped, accepting, writing, conn, clients>>

\* remote_endpoint(), called in the handler for a line at the level DEBUG and in the
\* constructor of the session for one at INFO, throws when the client has gone in
\* between; nobody catches it.
Throw(t) ==
  /\ LogsAddress
  /\ up /\ running[t] = "accept" /\ client[conn[t]] = "closed"
  /\ up' = FALSE
  /\ UNCHANGED <<stopped, operations, threads, clients>>

RearmIf(t, again) ==
  /\ up /\ running[t] = "rearm"
  /\ accepting' = (accepting \/ again)
  /\ Finish(t)
  /\ UNCHANGED <<up, stopped, reading, writing, clients>>

\* Slip: doAccept in the branch without an error only.
RearmAfterSuccess(t) == RearmIf(t, conn[t] # None)

Rearm(t) == RearmIf(t, TRUE)

-----------------------------------------------------------------------------
(* Session::doRead and doWrite.                                            *)

\* async_read_until has a line, or has failed because the client is gone.
ReadReady(t) ==
  /\ Free(t)
  /\ \E c \in reading :
       /\ asked[c] > answered[c] \/ client[c] = "closed"
       /\ reading' = reading \ {c}
       /\ Run(t, "read", c)
  /\ UNCHANGED <<up, stopped, accepting, writing, clients>>

\* doWrite: the handler works on the session's buffer and starts the write.
RespondReading(t, next) ==
  /\ up /\ running[t] = "read" /\ asked[conn[t]] > answered[conn[t]]
  /\ writing' = writing \cup {conn[t]}
  /\ reading' = reading \cup next
  /\ Finish(t)
  /\ UNCHANGED <<up, stopped, accepting, clients>>

\* Slip: the handler goes on to read the next line without waiting for the write.
RespondAndRead(t) == RespondReading(t, {conn[t]})

Respond(t) == RespondReading(t, {})

\* The operation has failed: nothing refers to the session any more.
Failed(t, handler) ==
  /\ up /\ running[t] = handler /\ client[conn[t]] = "closed"
  /\ Finish(t)
  /\ UNCHANGED <<up, stopped, operations, clients>>

ReadFailed(t) == Failed(t, "read")

\* async_write is complete, and the answer with the client.
WriteReady(t) ==
  /\ Free(t)
  /\ \E c \in writing :
       /\ writing' = writing \ {c}
       /\ answered' = [answered EXCEPT ![c] = @ + 1]
       /\ Run(t, "write", c)
  /\ UNCHANGED <<up, stopped, accepting, reading, backlog, client, asked>>

\* The handler looks at the buffer and calls doRead.
WrittenReading(t, next) ==
  /\ up /\ running[t] = "write"
  /\ reading' = reading \cup next
  /\ Finish(t)
  /\ UNCHANGED <<up, stopped, accepting, writing, clients>>

\* Slip: no doRead after the write.
WrittenOnce(t) == WrittenReading(t, {})

Written(t) == WrittenReading(t, {conn[t]})

WriteFailed(t) == Failed(t, "write")

-----------------------------------------------------------------------------
(* The threads, and the clients.                                           *)

\* SIGINT or SIGTERM.
Stop ==
  /\ up /\ ~stopped
  /\ stopped' = TRUE
  /\ UNCHANGED <<up, operations, threads, clients>>

\* ioc.run() returns.
LeaveWhen(t, done) ==
  /\ up /\ stopped /\ done /\ running[t] = "idle"
  /\ running' = [running EXCEPT ![t] = "left"]
  /\ UNCHANGED <<up, stopped, operations, conn, clients>>

\* Slip: the threads wait for the work to run out.
LeaveWithoutWork(t) == LeaveWhen(t, ~accepting /\ reading = {} /\ writing = {})

Leave(t) == LeaveWhen(t, TRUE)

Handle(t) ==
  \/ AcceptReady(t) \/ AcceptFails(t) \/ Start(t) \/ Throw(t) \/ Rearm(t)
  \/ ReadReady(t) \/ Respond(t) \/ ReadFailed(t)
  \/ WriteReady(t) \/ Written(t) \/ WriteFailed(t)
  \/ Leave(t)

Connect(c) ==
  /\ client[c] = "new"
  /\ client' = [client EXCEPT ![c] = "open"]
  /\ backlog' = backlog \cup {c}
  /\ UNCHANGED <<up, stopped, operations, threads, asked, answered>>

Ask(c) ==
  /\ client[c] = "open"
  /\ asked[c] = answered[c] /\ asked[c] < MaxQueries
  /\ asked' = [asked EXCEPT ![c] = @ + 1]
  /\ UNCHANGED <<up, stopped, operations, threads, backlog, client, answered>>

\* The client may go before it is accepted; the kernel hands the connection out all
\* the same.
Close(c) ==
  /\ client[c] = "open"
  /\ client' = [client EXCEPT ![c] = "closed"]
  /\ UNCHANGED <<up, stopped, operations, threads, backlog, asked, answered>>

Next ==
  \/ \E t \in Threads : Handle(t)
  \/ \E c \in Conns : Connect(c) \/ Ask(c) \/ Close(c)
  \/ Stop

Spec == Init /\ [][Next]_vars

\* A handler that runs comes to its end, and what is ready is run by some thread in
\* the end: the io_context queues handlers and serves them in order.
Fairness ==
  /\ \A t \in Threads : WF_vars(Start(t)) /\ WF_vars(Rearm(t)) /\ WF_vars(Respond(t))
                        /\ WF_vars(Written(t)) /\ WF_vars(Leave(t))
                        /\ WF_vars(ReadFailed(t))
  /\ \A c \in Conns :
       /\ SF_vars(\E t \in Threads : AcceptReady(t) /\ conn'[t] = c)
       /\ SF_vars(\E t \in Threads : ReadReady(t) /\ conn'[t] = c)
       /\ SF_vars(\E t \in Threads : WriteReady(t) /\ conn'[t] = c)

FairSpec == Spec /\ Fairness

-----------------------------------------------------------------------------
(* Properties.                                                             *)

\* A session's buffer and socket have one user at a time: an operation under way, or
\* one thread in a handler that has not started the next operation yet.
InHandler(c) == {t \in Threads : conn[t] = c /\ running[t] \in {"accept", "read", "write"}}
SessionExclusive ==
  \A c \in Conns :
    /\ c \notin reading \cap writing
    /\ c \in reading \cup writing => InHandler(c) = {}
    /\ \A t, u \in InHandler(c) : t = u

\* The server is always about to accept: one async_accept is under way, or one thread
\* is in the handler that starts the next, never both and never two.
Acceptors == {t \in Threads : running[t] \in {"accept", "rearm"}}
AlwaysAccepting ==
  IF accepting THEN Acceptors = {} ELSE \E t \in Threads : Acceptors = {t}

\* A connection nobody has accepted has no session.
NoSessionYet ==
  \A c \in Conns : client[c] = "new" \/ c \in backlog =>
    c \notin reading \cup writing /\ InHandler(c) = {}

\* The connections in the backlog were made.
BacklogMade == \A c \in backlog : client[c] # "new"

\* What the proofs use.
ServerInv == SessionExclusive /\ AlwaysAccepting /\ NoSessionYet /\ BacklogMade

\* A client that connects and stays gets its answers, unless the process ends or is
\* told to.
Answered ==
  \A c \in Conns : \A n \in 1 .. MaxQueries :
    asked[c] >= n ~> answered[c] >= n \/ client[c] = "closed" \/ stopped \/ ~up

\* After ioc.stop() every thread comes out of ioc.run().
ThreadsLeave == stopped ~> (\A t \in Threads : running[t] = "left") \/ ~up
=============================================================================
