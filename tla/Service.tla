------------------------------- MODULE Service -------------------------------
(***************************************************************************)
(* The whole service on its threads: the TCP service of TcpServer, and the *)
(* WebSocket listener and its sessions (src/server/websocket/listener.cpp) *)
(* on the same io_context.  The listener and a session are coroutines: a   *)
(* handler resumes the coroutine where its last operation left it, so two  *)
(* operations, or two handlers, of one coroutine would tear it apart.      *)
(***************************************************************************)
EXTENDS TcpServer

CONSTANTS
  WsConns,     \* the connections clients make to the WebSocket port
  Listener,    \* the listener's coroutine
  Nobody       \* a thread that resumes no coroutine

Coroutines == WsConns \cup {Listener}
Operations == {"dispatch", "accept", "async_accept", "async_read", "async_write"}
Codes == {"ok", "closed", "error"}
Resumed == [of : Coroutines, after : Operations, ec : Codes]

ASSUME ServiceAssumption ==
  /\ Listener \notin WsConns /\ None \notin WsConns /\ Nobody \notin Resumed

VARIABLES
  listening,   \* the listener's constructor came to its end
  pending,     \* for each coroutine: its operations under way
  loop,        \* for each thread: the coroutine it resumes, after what, with which ec
  socket_,     \* the connection the listener has accepted
  wsBacklog, wsClient, wsAsked, wsAnswered

coroutines == <<listening, pending, loop, socket_>>
wsClients == <<wsBacklog, wsClient, wsAsked, wsAnswered>>
websocket == <<coroutines, wsClients>>

\* The types, and that a thread runs one handler, of the one service or the other.
ServiceTypeOK ==
  /\ TypeOK
  /\ listening \in BOOLEAN
  /\ pending \in [Coroutines -> SUBSET Operations]
  /\ loop \in [Threads -> Resumed \cup {Nobody}]
  /\ socket_ \in WsConns \cup {None}
  /\ wsBacklog \subseteq WsConns
  /\ wsClient \in [WsConns -> {"new", "open", "upgraded", "closed"}]
  /\ wsAsked \in [WsConns -> 0 .. MaxQueries] /\ wsAnswered \in [WsConns -> Nat]
  /\ \A t \in Threads : loop[t] = Nobody \/ running[t] = "idle"

\* listen: the constructor may fail; run() starts to accept all the same.
ServiceInit ==
  /\ Init
  /\ listening \in BOOLEAN
  /\ pending = [c \in Coroutines |-> IF c = Listener THEN {"accept"} ELSE {}]
  /\ loop = [t \in Threads |-> Nobody] /\ socket_ = None
  /\ wsBacklog = {} /\ wsClient = [c \in WsConns |-> "new"]
  /\ wsAsked = [c \in WsConns |-> 0] /\ wsAnswered = [c \in WsConns |-> 0]

\* The thread resumes coroutine c: its operation op has ended with ec.
Resume(t, c, op, ec) ==
  /\ Free(t) /\ loop[t] = Nobody /\ op \in pending[c]
  /\ pending' = [pending EXCEPT ![c] = @ \ {op}]
  /\ loop' = [loop EXCEPT ![t] = [of |-> c, after |-> op, ec |-> ec]]

\* The handler returns, with the coroutine waiting for ops.
Yield(t, ops) ==
  /\ pending' = [pending EXCEPT ![loop[t].of] = @ \cup ops]
  /\ loop' = [loop EXCEPT ![t] = Nobody]

InLoop(c) == {t \in Threads : loop[t] # Nobody /\ loop[t].of = c}

-----------------------------------------------------------------------------
(* listener::loop.                                                         *)

ListenReady(t) ==
  /\ listening
  /\ \E c \in wsBacklog : socket_' = c /\ wsBacklog' = wsBacklog \ {c}
  /\ Resume(t, Listener, "accept", "ok")
  /\ UNCHANGED <<listening, wsClient, wsAsked, wsAnswered>>

\* The accept fails; with the acceptor closed it does so at once, every time.
ListenFails(t) ==
  /\ Resume(t, Listener, "accept", "error")
  /\ UNCHANGED <<listening, socket_, wsClients>>

\* session::run: the session's strand may run its loop here and now, up to the
\* handshake, or leave it to a thread.
Launch(t) ==
  /\ t \in InLoop(Listener) /\ socket_ # None
  /\ \E op \in {"dispatch", "async_accept"} :
       pending' = [pending EXCEPT ![socket_] = @ \cup {op}]
  /\ socket_' = None
  /\ UNCHANGED <<listening, loop, wsClients>>

\* A fresh socket, and the next async_accept.
Listen(t) ==
  /\ t \in InLoop(Listener) /\ socket_ = None
  /\ Yield(t, {"accept"})
  /\ UNCHANGED <<listening, socket_, wsClients>>

-----------------------------------------------------------------------------
(* session::loop.                                                          *)

\* The operation that ends, what it ends with, and what the client has of it.
Handshaken(t, c) ==
  /\ wsClient[c] = "open" /\ Resume(t, c, "async_accept", "ok")
  /\ wsClient' = [wsClient EXCEPT ![c] = "upgraded"]
  /\ UNCHANGED <<listening, socket_, wsBacklog, wsAsked, wsAnswered>>

ReadMessage(t, c) ==
  /\ wsAsked[c] > wsAnswered[c] /\ Resume(t, c, "async_read", "ok")
  /\ UNCHANGED <<listening, socket_, wsClients>>

WroteMessage(t, c) ==
  /\ wsClient[c] = "upgraded" /\ Resume(t, c, "async_write", "ok")
  /\ wsAnswered' = [wsAnswered EXCEPT ![c] = @ + 1]
  /\ UNCHANGED <<listening, socket_, wsBacklog, wsClient, wsAsked>>

Dispatched(t, c) ==
  /\ Resume(t, c, "dispatch", "ok")
  /\ UNCHANGED <<listening, socket_, wsClients>>

\* The client has gone: it closed the WebSocket, or was lost.
Disconnected(t, c) ==
  /\ wsClient[c] = "closed"
  /\ \E op \in pending[c] \ {"dispatch"} :
       \E ec \in IF op = "async_read" THEN {"closed", "error"} ELSE {"error"} :
         Resume(t, c, op, ec)
  /\ UNCHANGED <<listening, socket_, wsClients>>

\* What loop starts next: only a read that was closed, and any other operation that
\* failed, ends the session; a read that failed otherwise is answered.
ContinueReading(reads, after, ec) ==
  {op \in Operations :
     \/ op = "async_accept" /\ after = "dispatch"
     \/ op = "async_read" /\ after \in reads /\ ec = "ok"
     \/ op = "async_write" /\ after = "async_read" /\ ec # "closed"}

\* Slips: the next read is started beside the write; a session serves one message.
ReadsAhead(after, ec) == ContinueReading({"async_accept", "async_read"}, after, ec)
ServesOne(after, ec) == ContinueReading({"async_accept"}, after, ec)

Continue(after, ec) == ContinueReading({"async_accept", "async_write"}, after, ec)

SessionLoop(t) ==
  /\ loop[t] # Nobody /\ loop[t].of # Listener
  /\ Yield(t, Continue(loop[t].after, loop[t].ec))
  /\ UNCHANGED <<listening, socket_, wsClients>>

WsHandle(t) ==
  \/ ListenReady(t) \/ ListenFails(t) \/ Launch(t) \/ Listen(t)
  \/ \E c \in WsConns : \/ Handshaken(t, c) \/ ReadMessage(t, c) \/ WroteMessage(t, c)
                        \/ Dispatched(t, c) \/ Disconnected(t, c)
  \/ SessionLoop(t)

-----------------------------------------------------------------------------
(* The clients, and the composition.                                       *)

WsConnect(c) ==
  /\ listening /\ wsClient[c] = "new"
  /\ wsClient' = [wsClient EXCEPT ![c] = "open"]
  /\ wsBacklog' = wsBacklog \cup {c}
  /\ UNCHANGED <<coroutines, wsAsked, wsAnswered>>

\* A client need not wait for an answer: messages keep their borders.
WsAsk(c) ==
  /\ wsClient[c] = "upgraded" /\ wsAsked[c] < MaxQueries
  /\ wsAsked' = [wsAsked EXCEPT ![c] = @ + 1]
  /\ UNCHANGED <<coroutines, wsBacklog, wsClient, wsAnswered>>

WsClose(c) ==
  /\ wsClient[c] \in {"open", "upgraded"}
  /\ wsClient' = [wsClient EXCEPT ![c] = "closed"]
  /\ UNCHANGED <<coroutines, wsBacklog, wsAsked, wsAnswered>>

TcpStep ==
  \/ \E t \in Threads : loop[t] = Nobody /\ Handle(t)
  \/ \E c \in Conns : Connect(c) \/ Ask(c) \/ Close(c)
  \/ Stop

WsStep ==
  \/ \E t \in Threads : up /\ WsHandle(t)
  \/ \E c \in WsConns : WsConnect(c) \/ WsAsk(c) \/ WsClose(c)

ServiceNext ==
  \/ TcpStep /\ UNCHANGED websocket
  \/ WsStep /\ UNCHANGED vars

ServiceSpec == ServiceInit /\ [][ServiceNext]_<<vars, websocket>>

\* A handler that runs comes to its end; what is ready is run in the end, also beside
\* a listener that is never idle: the io_context serves handlers in order.
ServiceFairness ==
  /\ \A t \in Threads : /\ WF_websocket(up /\ Launch(t)) /\ WF_websocket(up /\ Listen(t))
                        /\ WF_websocket(up /\ SessionLoop(t))
  /\ \A c \in WsConns :
       /\ SF_websocket(\E t \in Threads : ListenReady(t) /\ socket_' = c)
       /\ SF_websocket(\E t \in Threads : \/ Handshaken(t, c) \/ ReadMessage(t, c)
                                          \/ WroteMessage(t, c) \/ Dispatched(t, c))

ServiceFairSpec == ServiceSpec /\ Fairness /\ ServiceFairness

-----------------------------------------------------------------------------
(* Properties.                                                             *)

\* A coroutine waits for one operation, or is resumed by one thread: loop is never
\* entered twice and buffer_ and response have one user.  The listener always is or
\* waits, whatever its accepts came to.
CoroutinesExclusive ==
  /\ \A c \in Coroutines :
       /\ \A o, p \in pending[c] : o = p
       /\ pending[c] # {} => InLoop(c) = {}
       /\ \A t, u \in InLoop(c) : t = u
  /\ pending[Listener] = {} => InLoop(Listener) # {}

\* What the proofs use: a connection that was not launched has no session, and the
\* socket the listener holds is its own.
NotLaunched == {c \in WsConns : wsClient[c] = "new"} \cup wsBacklog \cup ({socket_} \ {None})
ServiceInv ==
  /\ CoroutinesExclusive
  /\ \A c \in NotLaunched : pending[c] = {} /\ InLoop(c) = {}
  /\ \A c \in wsBacklog : wsClient[c] # "new" /\ c # socket_
  /\ socket_ # None => InLoop(Listener) # {} /\ wsClient[socket_] # "new"

\* With the port bound, a WebSocket client that stays is upgraded and has every
\* message answered, unless the process ends or is told to.
WsAnswered ==
  \A c \in WsConns :
    LET Over == wsClient[c] = "closed" \/ stopped \/ ~up
    IN  /\ wsClient[c] = "open" ~> wsClient[c] = "upgraded" \/ Over
        /\ \A n \in 1 .. MaxQueries : wsAsked[c] >= n ~> wsAnswered[c] >= n \/ Over
=============================================================================
