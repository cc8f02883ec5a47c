---------------------------- MODULE ServiceProofs ----------------------------
(***************************************************************************)
(* Proofs about the service: TcpServer and Service for any number of       *)
(* threads, connections, queries and messages, CommandLine and Startup for *)
(* any arguments.  In TcpServer, TypeOK is inductive by itself and         *)
(* ServerInv with it: that a session has one user needs that no session    *)
(* exists for a connection in the backlog, and that one accept handler     *)
(* runs at a time.  Every step of the whole service is a step of the TCP   *)
(* service or leaves it as it is, so that what holds in the one holds in   *)
(* the other.  The coroutines of the listener and its sessions need an     *)
(* invariant of their own: ServiceInv.  How the command line is read rests *)
(* on ParserInv: where the stream of its tokens stands when n options are  *)
(* read, and what they have set.  StartInv is what each constructor that   *)
(* has returned has left behind.                                           *)
(***************************************************************************)
EXTENDS Service, Startup, SequenceLemmas

-----------------------------------------------------------------------------
(* The TCP server.                                                         *)

\* The type invariant.
THEOREM TypeCorrect == Spec => []TypeOK
<1> USE ServerAssumption
<1>1. Init => TypeOK
  <2> SUFFICES ASSUME Init PROVE TypeOK
    OBVIOUS
  <2> USE DEF Init, Idle
  <2>1. up \in BOOLEAN /\ stopped \in BOOLEAN /\ accepting \in BOOLEAN
    OBVIOUS
  <2>2. reading \subseteq Conns /\ writing \subseteq Conns /\ backlog \subseteq Conns
    OBVIOUS
  <2>3. running \in [Threads -> Idle \cup {"accept", "rearm", "read", "write"}]
    OBVIOUS
  <2>4. conn \in [Threads -> Conns \cup {None}]
    OBVIOUS
  <2>5. client \in [Conns -> {"new", "open", "closed"}]
    OBVIOUS
  <2>6. asked \in [Conns -> 0 .. MaxQueries] /\ answered \in [Conns -> Nat]
    OBVIOUS
  <2>7. \A t \in Threads : running[t] = "idle" /\ conn[t] = None
    OBVIOUS
  <2> QED
    BY <2>1, <2>2, <2>3, <2>4, <2>5, <2>6, <2>7 DEF TypeOK
<1>2. TypeOK /\ [Next]_vars => TypeOK'
  <2> SUFFICES ASSUME TypeOK, [Next]_vars PROVE TypeOK'
    OBVIOUS
  <2> USE DEF TypeOK, Idle
  <2>1. ASSUME NEW t \in Threads, Handle(t) PROVE TypeOK'
    <3>1. CASE AcceptReady(t)
      BY <3>1 DEF AcceptReady, Free, Run, Finish, operations, threads, clients
    <3>2. CASE AcceptFails(t)
      BY <3>2 DEF AcceptFails, Free, Run, Finish, operations, threads, clients
    <3>3. CASE Start(t)
      BY <3>3 DEF Start, Free, Run, Finish, operations, threads, clients
    <3>4. CASE Throw(t)
      BY <3>4 DEF Throw, Free, Run, Finish, operations, threads, clients
    <3>5. CASE Rearm(t)
      BY <3>5 DEF Rearm, RearmIf, Free, Run, Finish, operations, threads, clients
    <3>6. CASE ReadReady(t)
      BY <3>6 DEF ReadReady, Free, Run, Finish, operations, threads, clients
    <3>7. CASE Respond(t)
      BY <3>7 DEF Respond, RespondReading, Free, Run, Finish, operations, threads, clients
    <3>8. CASE ReadFailed(t)
      BY <3>8 DEF ReadFailed, Failed, Free, Run, Finish, operations, threads, clients
    <3>9. CASE WriteReady(t)
      BY <3>9 DEF WriteReady, Free, Run, Finish, operations, threads, clients
    <3>10. CASE Written(t)
      BY <3>10 DEF Written, WrittenReading, Free, Run, Finish, operations, threads, clients
    <3>11. CASE WriteFailed(t)
      BY <3>11 DEF WriteFailed, Failed, Free, Run, Finish, operations, threads, clients
    <3>12. CASE Leave(t)
      BY <3>12 DEF Leave, LeaveWhen, Free, Run, Finish, operations, threads, clients
    <3> QED BY <2>1, <3>1, <3>2, <3>3, <3>4, <3>5, <3>6, <3>7, <3>8, <3>9, <3>10, <3>11, <3>12 DEF Handle
  <2>2. ASSUME NEW c \in Conns, Connect(c) \/ Ask(c) \/ Close(c) PROVE TypeOK'
    <3>1. CASE Connect(c)
      BY <3>1 DEF Connect, Free, Run, Finish, operations, threads, clients
    <3>2. CASE Ask(c)
      BY <3>2 DEF Ask, Free, Run, Finish, operations, threads, clients
    <3>3. CASE Close(c)
      BY <3>3 DEF Close, Free, Run, Finish, operations, threads, clients
    <3> QED BY <2>2, <3>1, <3>2, <3>3
  <2>3. CASE Stop
    BY <2>3 DEF Stop, Free, Run, Finish, operations, threads, clients
  <2>4. CASE UNCHANGED vars
    BY <2>4 DEF TypeOK, vars, operations, threads, clients
  <2> QED BY <2>1, <2>2, <2>3, <2>4 DEF Next
<1> QED
  BY <1>1, <1>2, PTL DEF Spec

\* ServerInv is an inductive invariant.
THEOREM ServerInvariant == Spec => []ServerInv
<1> USE ServerAssumption
<1>1. Init => ServerInv
  BY DEF Init, ServerInv, SessionExclusive, AlwaysAccepting, NoSessionYet, BacklogMade, InHandler, Acceptors
<1>2. TypeOK /\ ServerInv /\ [Next]_vars => ServerInv'
  <2> SUFFICES ASSUME TypeOK, ServerInv, [Next]_vars PROVE ServerInv'
    OBVIOUS
  <2> USE DEF TypeOK, Idle, ServerInv
  <2>1. ASSUME NEW t \in Threads, Handle(t) PROVE ServerInv'
    <3>1. CASE AcceptReady(t)
      <4>1. SessionExclusive'
        BY <3>1 DEF SessionExclusive, NoSessionYet, BacklogMade, InHandler, AcceptReady, Free, Run, Finish, operations, threads, clients
      <4>2. AlwaysAccepting'
        BY <3>1 DEF AlwaysAccepting, Acceptors, AcceptReady, Free, Run, Finish, operations, threads, clients
      <4>3. NoSessionYet'
        BY <3>1 DEF SessionExclusive, NoSessionYet, BacklogMade, InHandler, AcceptReady, Free, Run, Finish, operations, threads, clients
      <4>4. BacklogMade'
        BY <3>1 DEF BacklogMade, AcceptReady, Free, Run, Finish, operations, threads, clients
      <4> QED BY <4>1, <4>2, <4>3, <4>4
    <3>2. CASE AcceptFails(t)
      <4>1. SessionExclusive'
        BY <3>2 DEF SessionExclusive, NoSessionYet, BacklogMade, InHandler, AcceptFails, Free, Run, Finish, operations, threads, clients
      <4>2. AlwaysAccepting'
        BY <3>2 DEF AlwaysAccepting, Acceptors, AcceptFails, Free, Run, Finish, operations, threads, clients
      <4>3. NoSessionYet'
        BY <3>2 DEF SessionExclusive, NoSessionYet, BacklogMade, InHandler, AcceptFails, Free, Run, Finish, operations, threads, clients
      <4>4. BacklogMade'
        BY <3>2 DEF BacklogMade, AcceptFails, Free, Run, Finish, operations, threads, clients
      <4> QED BY <4>1, <4>2, <4>3, <4>4
    <3>3. CASE Start(t)
      <4>1. SessionExclusive'
        BY <3>3 DEF SessionExclusive, NoSessionYet, BacklogMade, InHandler, Start, Free, Run, Finish, operations, threads, clients
      <4>2. AlwaysAccepting'
        BY <3>3 DEF AlwaysAccepting, Acceptors, Start, Free, Run, Finish, operations, threads, clients
      <4>3. NoSessionYet'
        BY <3>3 DEF SessionExclusive, NoSessionYet, BacklogMade, InHandler, Start, Free, Run, Finish, operations, threads, clients
      <4>4. BacklogMade'
        BY <3>3 DEF BacklogMade, Start, Free, Run, Finish, operations, threads, clients
      <4> QED BY <4>1, <4>2, <4>3, <4>4
    <3>4. CASE Throw(t)
      <4>1. SessionExclusive'
        BY <3>4 DEF SessionExclusive, NoSessionYet, BacklogMade, InHandler, Throw, Free, Run, Finish, operations, threads, clients
      <4>2. AlwaysAccepting'
        BY <3>4 DEF AlwaysAccepting, Acceptors, Throw, Free, Run, Finish, operations, threads, clients
      <4>3. NoSessionYet'
        BY <3>4 DEF SessionExclusive, NoSessionYet, BacklogMade, InHandler, Throw, Free, Run, Finish, operations, threads, clients
      <4>4. BacklogMade'
        BY <3>4 DEF BacklogMade, Throw, Free, Run, Finish, operations, threads, clients
      <4> QED BY <4>1, <4>2, <4>3, <4>4
    <3>5. CASE Rearm(t)
      <4>1. SessionExclusive'
        BY <3>5 DEF SessionExclusive, NoSessionYet, BacklogMade, InHandler, Rearm, RearmIf, Free, Run, Finish, operations, threads, clients
      <4>2. AlwaysAccepting'
        <5>1. accepting' = TRUE
          BY <3>5 DEF Rearm, RearmIf
        <5>2. t \in Acceptors /\ ~accepting
          BY <3>5 DEF AlwaysAccepting, Acceptors, Rearm, RearmIf
        <5>3. \A u \in Threads \ {t} : running'[u] = running[u] /\ running[u] \notin {"accept", "rearm"}
          BY <3>5, <5>2 DEF AlwaysAccepting, Acceptors, Rearm, RearmIf, Finish, Run
        <5>4. running'[t] = "idle"
          BY <3>5 DEF Rearm, RearmIf, Finish, Run
        <5> QED BY <5>1, <5>3, <5>4 DEF AlwaysAccepting, Acceptors
      <4>3. NoSessionYet'
        BY <3>5 DEF SessionExclusive, NoSessionYet, BacklogMade, InHandler, Rearm, RearmIf, Free, Run, Finish, operations, threads, clients
      <4>4. BacklogMade'
        BY <3>5 DEF BacklogMade, Rearm, RearmIf, Free, Run, Finish, operations, threads, clients
      <4> QED BY <4>1, <4>2, <4>3, <4>4
    <3>6. CASE ReadReady(t)
      <4>1. SessionExclusive'
        BY <3>6 DEF SessionExclusive, NoSessionYet, BacklogMade, InHandler, ReadReady, Free, Run, Finish, operations, threads, clients
      <4>2. AlwaysAccepting'
        BY <3>6 DEF AlwaysAccepting, Acceptors, ReadReady, Free, Run, Finish, operations, threads, clients
      <4>3. NoSessionYet'
        BY <3>6 DEF SessionExclusive, NoSessionYet, BacklogMade, InHandler, ReadReady, Free, Run, Finish, operations, threads, clients
      <4>4. BacklogMade'
        BY <3>6 DEF BacklogMade, ReadReady, Free, Run, Finish, operations, threads, clients
      <4> QED BY <4>1, <4>2, <4>3, <4>4
    <3>7. CASE Respond(t)
      <4>1. SessionExclusive'
        BY <3>7 DEF SessionExclusive, NoSessionYet, BacklogMade, InHandler, Respond, RespondReading, Free, Run, Finish, operations, threads, clients
      <4>2. AlwaysAccepting'
        BY <3>7 DEF AlwaysAccepting, Acceptors, Respond, RespondReading, Free, Run, Finish, operations, threads, clients
      <4>3. NoSessionYet'
        BY <3>7 DEF SessionExclusive, NoSessionYet, BacklogMade, InHandler, Respond, RespondReading, Free, Run, Finish, operations, threads, clients
      <4>4. BacklogMade'
        BY <3>7 DEF BacklogMade, Respond, RespondReading, Free, Run, Finish, operations, threads, clients
      <4> QED BY <4>1, <4>2, <4>3, <4>4
    <3>8. CASE ReadFailed(t)
      <4>1. SessionExclusive'
        BY <3>8 DEF SessionExclusive, NoSessionYet, BacklogMade, InHandler, ReadFailed, Failed, Free, Run, Finish, operations, threads, clients
      <4>2. AlwaysAccepting'
        BY <3>8 DEF AlwaysAccepting, Acceptors, ReadFailed, Failed, Free, Run, Finish, operations, threads, clients
      <4>3. NoSessionYet'
        BY <3>8 DEF SessionExclusive, NoSessionYet, BacklogMade, InHandler, ReadFailed, Failed, Free, Run, Finish, operations, threads, clients
      <4>4. BacklogMade'
        BY <3>8 DEF BacklogMade, ReadFailed, Failed, Free, Run, Finish, operations, threads, clients
      <4> QED BY <4>1, <4>2, <4>3, <4>4
    <3>9. CASE WriteReady(t)
      <4>1. SessionExclusive'
        BY <3>9 DEF SessionExclusive, NoSessionYet, BacklogMade, InHandler, WriteReady, Free, Run, Finish, operations, threads, clients
      <4>2. AlwaysAccepting'
        BY <3>9 DEF AlwaysAccepting, Acceptors, WriteReady, Free, Run, Finish, operations, threads, clients
      <4>3. NoSessionYet'
        BY <3>9 DEF SessionExclusive, NoSessionYet, BacklogMade, InHandler, WriteReady, Free, Run, Finish, operations, threads, clients
      <4>4. BacklogMade'
        BY <3>9 DEF BacklogMade, WriteReady, Free, Run, Finish, operations, threads, clients
      <4> QED BY <4>1, <4>2, <4>3, <4>4
    <3>10. CASE Written(t)
      <4>1. SessionExclusive'
        BY <3>10 DEF SessionExclusive, NoSessionYet, BacklogMade, InHandler, Written, WrittenReading, Free, Run, Finish, operations, threads, clients
      <4>2. AlwaysAccepting'
        BY <3>10 DEF AlwaysAccepting, Acceptors, Written, WrittenReading, Free, Run, Finish, operations, threads, clients
      <4>3. NoSessionYet'
        BY <3>10 DEF SessionExclusive, NoSessionYet, BacklogMade, InHandler, Written, WrittenReading, Free, Run, Finish, operations, threads, clients
      <4>4. BacklogMade'
        BY <3>10 DEF BacklogMade, Written, WrittenReading, Free, Run, Finish, operations, threads, clients
      <4> QED BY <4>1, <4>2, <4>3, <4>4
    <3>11. CASE WriteFailed(t)
      <4>1. SessionExclusive'
        BY <3>11 DEF SessionExclusive, NoSessionYet, BacklogMade, InHandler, WriteFailed, Failed, Free, Run, Finish, operations, threads, clients
      <4>2. AlwaysAccepting'
        BY <3>11 DEF AlwaysAccepting, Acceptors, WriteFailed, Failed, Free, Run, Finish, operations, threads, clients
      <4>3. NoSessionYet'
        BY <3>11 DEF SessionExclusive, NoSessionYet, BacklogMade, InHandler, WriteFailed, Failed, Free, Run, Finish, operations, threads, clients
      <4>4. BacklogMade'
        BY <3>11 DEF BacklogMade, WriteFailed, Failed, Free, Run, Finish, operations, threads, clients
      <4> QED BY <4>1, <4>2, <4>3, <4>4
    <3>12. CASE Leave(t)
      <4>1. SessionExclusive'
        BY <3>12 DEF SessionExclusive, NoSessionYet, BacklogMade, InHandler, Leave, LeaveWhen, Free, Run, Finish, operations, threads, clients
      <4>2. AlwaysAccepting'
        BY <3>12 DEF AlwaysAccepting, Acceptors, Leave, LeaveWhen, Free, Run, Finish, operations, threads, clients
      <4>3. NoSessionYet'
        BY <3>12 DEF SessionExclusive, NoSessionYet, BacklogMade, InHandler, Leave, LeaveWhen, Free, Run, Finish, operations, threads, clients
      <4>4. BacklogMade'
        BY <3>12 DEF BacklogMade, Leave, LeaveWhen, Free, Run, Finish, operations, threads, clients
      <4> QED BY <4>1, <4>2, <4>3, <4>4
    <3> QED BY <2>1, <3>1, <3>2, <3>3, <3>4, <3>5, <3>6, <3>7, <3>8, <3>9, <3>10, <3>11, <3>12 DEF Handle
  <2>2. ASSUME NEW c \in Conns, Connect(c) \/ Ask(c) \/ Close(c) PROVE ServerInv'
    <3>1. CASE Connect(c)
      <4>1. SessionExclusive'
        BY <3>1 DEF SessionExclusive, NoSessionYet, BacklogMade, InHandler, Connect, Free, Run, Finish, operations, threads, clients
      <4>2. AlwaysAccepting'
        BY <3>1 DEF AlwaysAccepting, Acceptors, Connect, Free, Run, Finish, operations, threads, clients
      <4>3. NoSessionYet'
        BY <3>1 DEF SessionExclusive, NoSessionYet, BacklogMade, InHandler, Connect, Free, Run, Finish, operations, threads, clients
      <4>4. BacklogMade'
        BY <3>1 DEF BacklogMade, Connect, Free, Run, Finish, operations, threads, clients
      <4> QED BY <4>1, <4>2, <4>3, <4>4
    <3>2. CASE Ask(c)
      <4>1. SessionExclusive'
        BY <3>2 DEF SessionExclusive, NoSessionYet, BacklogMade, InHandler, Ask, Free, Run, Finish, operations, threads, clients
      <4>2. AlwaysAccepting'
        BY <3>2 DEF AlwaysAccepting, Acceptors, Ask, Free, Run, Finish, operations, threads, clients
      <4>3. NoSessionYet'
        BY <3>2 DEF SessionExclusive, NoSessionYet, BacklogMade, InHandler, Ask, Free, Run, Finish, operations, threads, clients
      <4>4. BacklogMade'
        BY <3>2 DEF BacklogMade, Ask, Free, Run, Finish, operations, threads, clients
      <4> QED BY <4>1, <4>2, <4>3, <4>4
    <3>3. CASE Close(c)
      <4>1. SessionExclusive'
        BY <3>3 DEF SessionExclusive, NoSessionYet, BacklogMade, InHandler, Close, Free, Run, Finish, operations, threads, clients
      <4>2. AlwaysAccepting'
        BY <3>3 DEF AlwaysAccepting, Acceptors, Close, Free, Run, Finish, operations, threads, clients
      <4>3. NoSessionYet'
        BY <3>3 DEF SessionExclusive, NoSessionYet, BacklogMade, InHandler, Close, Free, Run, Finish, operations, threads, clients
      <4>4. BacklogMade'
        BY <3>3 DEF BacklogMade, Close, Free, Run, Finish, operations, threads, clients
      <4> QED BY <4>1, <4>2, <4>3, <4>4
    <3> QED BY <2>2, <3>1, <3>2, <3>3
  <2>3. CASE Stop
    <3>1. SessionExclusive'
      BY <2>3 DEF SessionExclusive, NoSessionYet, BacklogMade, InHandler, Stop, Free, Run, Finish, operations, threads, clients
    <3>2. AlwaysAccepting'
      BY <2>3 DEF AlwaysAccepting, Acceptors, Stop, Free, Run, Finish, operations, threads, clients
    <3>3. NoSessionYet'
      BY <2>3 DEF SessionExclusive, NoSessionYet, BacklogMade, InHandler, Stop, Free, Run, Finish, operations, threads, clients
    <3>4. BacklogMade'
      BY <2>3 DEF BacklogMade, Stop, Free, Run, Finish, operations, threads, clients
    <3> QED BY <3>1, <3>2, <3>3, <3>4
  <2>4. CASE UNCHANGED vars
    BY <2>4 DEF SessionExclusive, AlwaysAccepting, NoSessionYet, BacklogMade, InHandler, Acceptors, vars, operations, threads, clients
  <2> QED BY <2>1, <2>2, <2>3, <2>4 DEF Next
<1> QED
  BY <1>1, <1>2, TypeCorrect, PTL DEF Spec

\* Session's buffer and socket are used by one operation or one handler at a time,
\* although any thread may run any handler and a session has no strand.
THEOREM SessionsAreExclusive == Spec => []SessionExclusive
<1>1. ServerInv => SessionExclusive
  BY DEF ServerInv
<1> QED
  BY <1>1, ServerInvariant, PTL

\* doAccept keeps one async_accept under way, whatever the accepts before it came to.
THEOREM AcceptsForEver == Spec => []AlwaysAccepting
<1>1. ServerInv => AlwaysAccepting
  BY DEF ServerInv
<1> QED
  BY <1>1, ServerInvariant, PTL

-----------------------------------------------------------------------------
(* The whole service.                                                      *)

\* The whole service, seen at the TCP service's variables, is the TCP service.
THEOREM ServiceImplementsServer == ServiceSpec => Spec
<1>1. ServiceInit => Init
  BY DEF ServiceInit
<1>2. [ServiceNext]_<<vars, websocket>> => [Next]_vars
  BY DEF ServiceNext, TcpStep, WsStep, Next
<1> QED
  BY <1>1, <1>2, PTL DEF ServiceSpec, Spec

\* Beside the WebSocket service too, a TCP session has one user at a time.
COROLLARY ServiceSessionsAreExclusive == ServiceSpec => [](SessionExclusive /\ AlwaysAccepting)
  BY ServiceImplementsServer, SessionsAreExclusive, AcceptsForEver, PTL

\* What a step of the TCP service leaves: the coroutines as they are.
LEMMA CoroutinesUntouched ==
  ASSUME ServiceInv, UNCHANGED websocket
  PROVE  ServiceInv'
BY DEF ServiceInv, CoroutinesExclusive, NotLaunched, InLoop, websocket, coroutines, wsClients

\* The type invariant, and that a thread runs one handler.
THEOREM ServiceTypeCorrect == ServiceSpec => []ServiceTypeOK
<1> USE ServerAssumption, ServiceAssumption
<1>1. ServiceInit /\ TypeOK => ServiceTypeOK
  BY DEF ServiceInit, Init, ServiceTypeOK, Coroutines, Operations
<1>2. ServiceTypeOK /\ TypeOK' /\ [ServiceNext]_<<vars, websocket>> => ServiceTypeOK'
  <2> SUFFICES ASSUME ServiceTypeOK, TypeOK', [ServiceNext]_<<vars, websocket>>
               PROVE  ServiceTypeOK'
    OBVIOUS
  <2> USE DEF ServiceTypeOK, Coroutines, Operations, Codes, Resumed, Idle
  <2>1. CASE UNCHANGED websocket /\ UNCHANGED running
    BY <2>1 DEF websocket, coroutines, wsClients
  <2>2. ASSUME NEW t \in Threads, loop[t] = Nobody, Handle(t), UNCHANGED websocket
        PROVE  ServiceTypeOK'
    <3>1. \A u \in Threads \ {t} : running'[u] = running[u]
      BY <2>2 DEF TypeOK, Handle, AcceptReady, AcceptFails, Start, Throw, Rearm, RearmIf,
           ReadReady, Respond, RespondReading, ReadFailed, WriteFailed, Failed, WriteReady,
           Written, WrittenReading, Leave, LeaveWhen, Finish, Run, threads
    <3> QED BY <2>2, <3>1 DEF websocket, coroutines, wsClients
  <2>3. ASSUME NEW t \in Threads, WsHandle(t), UNCHANGED vars PROVE ServiceTypeOK'
    <3> USE <2>3 DEF Resume, Yield, Free, InLoop, wsClients, vars, threads
    <3>1. CASE ListenReady(t)
      BY <3>1 DEF ListenReady
    <3>2. CASE ListenFails(t)
      BY <3>2 DEF ListenFails
    <3>3. CASE Launch(t)
      BY <3>3 DEF Launch
    <3>4. CASE Listen(t)
      BY <3>4 DEF Listen
    <3>5. CASE SessionLoop(t)
      BY <3>5 DEF SessionLoop, Continue, ContinueReading
    <3>6. ASSUME NEW c \in WsConns, Handshaken(t, c) PROVE ServiceTypeOK'
      BY <3>6 DEF Handshaken
    <3>7. ASSUME NEW c \in WsConns, ReadMessage(t, c) PROVE ServiceTypeOK'
      BY <3>7 DEF ReadMessage
    <3>8. ASSUME NEW c \in WsConns, WroteMessage(t, c) PROVE ServiceTypeOK'
      BY <3>8 DEF WroteMessage
    <3>9. ASSUME NEW c \in WsConns, Dispatched(t, c) PROVE ServiceTypeOK'
      BY <3>9 DEF Dispatched
    <3>10. ASSUME NEW c \in WsConns, Disconnected(t, c) PROVE ServiceTypeOK'
      BY <3>10 DEF Disconnected
    <3> QED BY <3>1, <3>2, <3>3, <3>4, <3>5, <3>6, <3>7, <3>8, <3>9, <3>10 DEF WsHandle
  <2>4. ASSUME NEW c \in WsConns, WsConnect(c) \/ WsAsk(c) \/ WsClose(c), UNCHANGED vars
        PROVE  ServiceTypeOK'
    BY <2>4 DEF WsConnect, WsAsk, WsClose, coroutines, vars, threads
  <2>5. ASSUME NEW c \in Conns, Connect(c) \/ Ask(c) \/ Close(c) PROVE UNCHANGED running
    BY <2>5 DEF Connect, Ask, Close, threads
  <2>6. ASSUME Stop PROVE UNCHANGED running
    BY <2>6 DEF Stop, threads
  <2> QED
    BY <2>1, <2>2, <2>3, <2>4, <2>5, <2>6 DEF ServiceNext, TcpStep, WsStep, vars, threads
<1> QED
  BY <1>1, <1>2, ServiceImplementsServer, TypeCorrect, PTL DEF ServiceSpec

\* The coroutine a thread resumes was waiting for this one operation.
LEMMA ResumeMoves ==
  ASSUME ServiceTypeOK, ServiceInv, NEW t \in Threads, NEW c \in Coroutines,
         NEW op \in Operations, NEW ec \in Codes, Resume(t, c, op, ec)
  PROVE  /\ pending'[c] = {} /\ InLoop(c)' = {t}
         /\ \A d \in Coroutines \ {c} : pending'[d] = pending[d] /\ InLoop(d)' = InLoop(d)
         /\ pending[c] # {}
         /\ CoroutinesExclusive'
<1> USE ServiceAssumption DEF ServiceTypeOK, ServiceInv, CoroutinesExclusive, Resume, InLoop, Resumed
<1>1. pending'[c] = {} /\ pending[c] # {}
  OBVIOUS
<1>2. InLoop(c)' = {t}
  OBVIOUS
<1>3. \A d \in Coroutines \ {c} : pending'[d] = pending[d] /\ InLoop(d)' = InLoop(d)
  OBVIOUS
<1>4. CoroutinesExclusive'
  BY <1>1, <1>2, <1>3 DEF Coroutines
<1> QED BY <1>1, <1>2, <1>3, <1>4

\* A session that is resumed was launched, and the listener does not see it.
LEMMA ResumeKeeps ==
  ASSUME ServiceTypeOK, ServiceInv, NEW t \in Threads, NEW c \in WsConns,
         NEW op \in Operations, NEW ec \in Codes, Resume(t, c, op, ec)
  PROVE  CoroutinesExclusive' /\ c \notin NotLaunched /\ InLoop(Listener)' = InLoop(Listener)
<1>1. c \in Coroutines /\ Listener \in Coroutines \ {c}
  BY ServiceAssumption DEF Coroutines
<1>2. c \notin NotLaunched
  BY <1>1, ResumeMoves DEF ServiceInv
<1>. QED
  BY <1>1, <1>2, ResumeMoves

\* A session whose client has gone is resumed like another.
LEMMA DisconnectedMoves ==
  ASSUME ServiceTypeOK, ServiceInv, NEW t \in Threads, NEW c \in WsConns, Disconnected(t, c)
  PROVE  CoroutinesExclusive'
<1>1. c \in Coroutines /\ pending[c] \subseteq Operations
  BY DEF ServiceTypeOK, Coroutines
<1>2. PICK op \in Operations, ec \in Codes : Resume(t, c, op, ec)
  BY <1>1 DEF Disconnected, Codes
<1>. QED
  BY <1>1, <1>2, ResumeMoves

\* ServiceInv is an inductive invariant.
THEOREM ServiceInvariant == ServiceSpec => []ServiceInv
<1> USE ServerAssumption, ServiceAssumption
<1>1. ServiceInit => ServiceInv
  BY DEF ServiceInit, ServiceInv, CoroutinesExclusive, NotLaunched, InLoop, Coroutines
<1>2. ServiceTypeOK /\ ServiceInv /\ [ServiceNext]_<<vars, websocket>> => ServiceInv'
  <2> SUFFICES ASSUME ServiceTypeOK, ServiceInv, [ServiceNext]_<<vars, websocket>>
               PROVE  ServiceInv'
    OBVIOUS
  <2> USE DEF ServiceTypeOK, ServiceInv, CoroutinesExclusive, NotLaunched, InLoop, Coroutines, Codes,
              Operations, Resumed
  <2>1. ASSUME NEW t \in Threads, WsHandle(t), UNCHANGED vars PROVE ServiceInv'
    <3> USE <2>1 DEF Resume, Yield, Free, wsClients, vars, threads
    <3>1. CASE ListenReady(t)
      <4>1. CoroutinesExclusive'
        BY <3>1 DEF ListenReady
      <4> QED BY <3>1, <4>1 DEF ListenReady
    <3>2. CASE ListenFails(t)
      <4>1. CoroutinesExclusive'
        BY <3>2 DEF ListenFails
      <4> QED BY <3>2, <4>1 DEF ListenFails
    <3>3. CASE Launch(t)
      <4>1. CoroutinesExclusive'
        BY <3>3 DEF Launch
      <4> QED BY <3>3, <4>1 DEF Launch
    <3>4. CASE Listen(t)
      <4>1. CoroutinesExclusive'
        BY <3>4 DEF Listen
      <4> QED BY <3>4, <4>1 DEF Listen
    <3>5. CASE SessionLoop(t)
      <4>1. CoroutinesExclusive'
        BY <3>5 DEF SessionLoop, Continue, ContinueReading
      <4> QED BY <3>5, <4>1 DEF SessionLoop, Continue, ContinueReading
    <3>6. ASSUME NEW c \in WsConns, Handshaken(t, c) PROVE ServiceInv'
      <4>1. CoroutinesExclusive'
        BY <3>6 DEF Handshaken
      <4> QED BY <3>6, <4>1 DEF Handshaken
    <3>7. ASSUME NEW c \in WsConns, ReadMessage(t, c) PROVE ServiceInv'
      <4>1. CoroutinesExclusive'
        BY <3>7 DEF ReadMessage
      <4> QED BY <3>7, <4>1 DEF ReadMessage
    <3>8. ASSUME NEW c \in WsConns, WroteMessage(t, c) PROVE ServiceInv'
      <4>1. Resume(t, c, "async_write", "ok")
        BY <3>8 DEF WroteMessage
      <4>2. CoroutinesExclusive' /\ c \notin NotLaunched /\ InLoop(Listener)' = InLoop(Listener)
        BY <4>1, ResumeKeeps
      <4>3. \A d \in NotLaunched' : d \in NotLaunched
        BY <3>8 DEF WroteMessage
      <4>4. NotLaunched \subseteq Coroutines \ {c}
        BY <4>2
      <4>5. \A d \in Coroutines \ {c} : pending'[d] = pending[d] /\ InLoop(d)' = InLoop(d)
        BY <4>1, ResumeMoves
      <4>6. \A d \in NotLaunched' : pending'[d] = {} /\ InLoop(d)' = {}
        BY <4>3, <4>4, <4>5
      <4> QED BY <3>8, <4>2, <4>6 DEF WroteMessage
    <3>9. ASSUME NEW c \in WsConns, Dispatched(t, c) PROVE ServiceInv'
      <4>1. Resume(t, c, "dispatch", "ok")
        BY <3>9 DEF Dispatched
      <4>2. CoroutinesExclusive' /\ c \notin NotLaunched /\ InLoop(Listener)' = InLoop(Listener)
        BY <4>1, ResumeKeeps
      <4>3. \A d \in NotLaunched' : d \in NotLaunched
        BY <3>9 DEF Dispatched
      <4>4. NotLaunched \subseteq Coroutines \ {c}
        BY <4>2
      <4>5. \A d \in Coroutines \ {c} : pending'[d] = pending[d] /\ InLoop(d)' = InLoop(d)
        BY <4>1, ResumeMoves
      <4>6. \A d \in NotLaunched' : pending'[d] = {} /\ InLoop(d)' = {}
        BY <4>3, <4>4, <4>5
      <4> QED BY <3>9, <4>2, <4>6 DEF Dispatched
    <3>10. ASSUME NEW c \in WsConns, Disconnected(t, c) PROVE ServiceInv'
      <4>1. CoroutinesExclusive'
        BY <3>10, DisconnectedMoves
      <4> QED BY <3>10, <4>1 DEF Disconnected
    <3> QED BY <3>1, <3>2, <3>3, <3>4, <3>5, <3>6, <3>7, <3>8, <3>9, <3>10 DEF WsHandle
  <2>2. ASSUME NEW c \in WsConns, WsConnect(c) \/ WsAsk(c) \/ WsClose(c) PROVE ServiceInv'
    BY <2>2 DEF WsConnect, WsAsk, WsClose, coroutines
  <2>3. CASE UNCHANGED websocket
    BY <2>3, CoroutinesUntouched
  <2> QED
    BY <2>1, <2>2, <2>3 DEF ServiceNext, WsStep
<1> QED
  BY <1>1, <1>2, ServiceTypeCorrect, PTL DEF ServiceSpec

\* A coroutine is never entered by two threads, nor while an operation of it is under
\* way; the listener is never without either.
THEOREM CoroutinesAreExclusive == ServiceSpec => []CoroutinesExclusive
<1>1. ServiceInv => CoroutinesExclusive
  BY DEF ServiceInv
<1> QED
  BY <1>1, ServiceInvariant, PTL

-----------------------------------------------------------------------------
(* The command line.                                                       *)

TokenSet == [type : {"Option"}, token : STRING] \cup [type : {"Argument"}, token : Texts]

\* Where the tokens of each argument end among all tokens.
Cuts(ends, tokens, args) ==
  /\ ends \in [0 .. Len(args) -> 0 .. Len(tokens)]
  /\ ends[0] = 0 /\ ends[Len(args)] = Len(tokens)
  /\ \A i \in 1 .. Len(args) :
       /\ ends[i - 1] <= ends[i]
       /\ Tokens(args[i]) = SubSeq(tokens, ends[i - 1] + 1, ends[i])

\* The stream has handed out n tokens: it is in the string that has the next one.
ReadUpTo(stream, n, ends, tokens, args) ==
  \/ n = Len(tokens) /\ stream = [it |-> <<>>, buffer |-> <<>>]
  \/ \E c \in 1 .. Len(args) :
       /\ ends[c - 1] <= n /\ n < ends[c]
       /\ stream = [it |-> SubSeq(args, c, Len(args)), buffer |-> SubSeq(tokens, n + 1, ends[c])]

\* The parser has read n options and their values.
Parsed(n) ==
  /\ Pairs(Spelled(argv), n) /\ Sets(Spelled(argv), n)
  /\ used = {Target(Spelled(argv), i) : i \in 1 .. n}
  /\ \E ends :
       /\ Cuts(ends, Spelled(argv), argv)
       /\ ReadUpTo(Stream, 2 * n, ends, Spelled(argv), argv)

ParserInv ==
  /\ argv \in Seq(Args) /\ it \in Seq(Args) /\ buffer \in Seq(TokenSet)
  /\ DOMAIN settings = DOMAIN Defaults
  /\ result \in {"parsing", "ok", "help", "error"}
  /\ result = "parsing" => \E n \in 0 .. Len(Spelled(argv)) : Parsed(n)
  /\ ParserTypeOK /\ ParsesAsSpelled

\* The names of an option are its own.
LEMMA OptionNames ==
  /\ Option \in [DOMAIN Option -> DOMAIN Defaults \cup {"help"}]
  /\ Helps \subseteq DOMAIN Option
  /\ \A t \in DOMAIN Option : Option[t] = "help" <=> t \in Helps
<1>1. DOMAIN Names = DOMAIN Defaults \cup {"help"}
  BY DEF Names, Defaults
<1>2. DOMAIN Option = UNION {Names[o] : o \in DOMAIN Names}
  BY DEF Option
<1>3. ASSUME NEW t \in DOMAIN Option PROVE Option[t] \in DOMAIN Names /\ t \in Names[Option[t]]
  <2>1. \E o \in DOMAIN Names : t \in Names[o]
    BY <1>2, <1>3
  <2>2. Option[t] = CHOOSE o \in DOMAIN Names : t \in Names[o]
    BY <1>2, <1>3 DEF Option
  <2>. QED
    BY <2>1, <2>2
<1>4. Names["help"] = Helps /\ "help" \in DOMAIN Names
  BY DEF Names
<1>5. \A o \in DOMAIN Names : o # "help" => \A t \in Helps : t \notin Names[o]
  BY DEF Names, Helps
<1>6. Helps \subseteq DOMAIN Option
  BY <1>2, <1>4
<1>7. \A t \in DOMAIN Option : Option[t] = "help" <=> t \in Helps
  BY <1>3, <1>4, <1>5
<1>8. Option \in [DOMAIN Option -> DOMAIN Names]
  BY <1>3 DEF Option
<1>. QED
  BY <1>1, <1>6, <1>7, <1>8

\* What an argument is split into.
LEMMA TokensTyped == \A a \in Args : Tokens(a) \in Seq(TokenSet)
<1>. SUFFICES ASSUME NEW a \in Args PROVE Tokens(a) \in Seq(TokenSet)
  OBVIOUS
<1>1. a.names \in Seq(STRING) /\ a.text \in {NoText} \cup Texts
  BY CommandLineAssumption
<1>. DEFINE names == [i \in DOMAIN a.names |-> [type |-> "Option", token |-> a.names[i]]]
            text == IF a.text = NoText THEN <<>> ELSE <<[type |-> "Argument", token |-> a.text]>>
<1>2. names \in Seq(TokenSet)
  <2>1. Len(a.names) \in Nat /\ DOMAIN a.names = 1 .. Len(a.names)
        /\ \A i \in 1 .. Len(a.names) : a.names[i] \in STRING
    BY <1>1
  <2>2. \A i \in 1 .. Len(a.names) : [type |-> "Option", token |-> a.names[i]] \in TokenSet
    BY <2>1 DEF TokenSet
  <2>3. names \in [1 .. Len(a.names) -> TokenSet]
    BY <2>1, <2>2
  <2>. QED
    BY <2>1, <2>3, SeqDef
<1>3. text \in Seq(TokenSet)
  <2>1. CASE a.text = NoText
    BY <2>1
  <2>2. CASE a.text # NoText
    <3>1. [type |-> "Argument", token |-> a.text] \in TokenSet
      BY <1>1, <2>2 DEF TokenSet
    <3>. QED
      BY <2>2, <3>1
  <2>. QED
    BY <2>1, <2>2
<1>4. Tokens(a) = names \o text
  BY DEF Tokens
<1>. HIDE DEF names, text
<1>. QED
  BY <1>2, <1>3, <1>4, ConcatProperties

\* All tokens can be cut into those of each argument.
LEMMA SpelledCuts ==
  ASSUME NEW args \in Seq(Args)
  PROVE  Spelled(args) \in Seq(TokenSet) /\ \E ends : Cuts(ends, Spelled(args), args)
<1>. DEFINE seqs == [i \in DOMAIN args |-> Tokens(args[i])]
<1>1. DOMAIN args = 1 .. Len(args) /\ Len(args) \in Nat /\ \A i \in 1 .. Len(args) : args[i] \in Args
  BY LenProperties, ElementOfSeq
<1>2. seqs \in [1 .. Len(args) -> Seq(TokenSet)]
  BY <1>1, TokensTyped
<1>3. \A i \in 1 .. Len(args) : seqs[i] = Tokens(args[i])
  BY <1>1
<1>4. Spelled(args) = FlattenSeq(seqs)
  BY DEF Spelled
<1>. HIDE DEF seqs
<1>5. FlattenSeq(seqs) \in Seq(TokenSet)
  BY <1>1, <1>2, FlattenCuts
<1>6. PICK ends : CutsAt(ends, FlattenSeq(seqs), Len(args), seqs)
  BY <1>1, <1>2, FlattenCuts
<1>7. Cuts(ends, Spelled(args), args)
  BY <1>3, <1>4, <1>6 DEF CutsAt, Cuts
<1>. QED
  BY <1>4, <1>5, <1>7

\* The length of each part.
LEMMA CutLength ==
  ASSUME NEW args \in Seq(Args), NEW tokens \in Seq(TokenSet), NEW ends,
         Cuts(ends, tokens, args), NEW i \in 1 .. Len(args)
  PROVE  /\ ends[i - 1] \in 0 .. Len(tokens) /\ ends[i] \in 0 .. Len(tokens)
         /\ ends[i - 1] <= ends[i]
         /\ Empty(args[i]) <=> ends[i - 1] = ends[i]
<1>1. Len(args) \in Nat /\ Len(tokens) \in Nat /\ i - 1 \in 0 .. Len(args) /\ i \in 0 .. Len(args)
  BY LenProperties
<1>2. ends[i - 1] \in 0 .. Len(tokens) /\ ends[i] \in 0 .. Len(tokens) /\ ends[i - 1] <= ends[i]
  BY <1>1 DEF Cuts
<1>. DEFINE a == ends[i - 1]
            b == ends[i]
            part == SubSeq(tokens, a + 1, b)
<1>3. Tokens(args[i]) = part
  BY DEF Cuts
<1>4. a \in 0 .. Len(tokens) /\ b \in 0 .. Len(tokens) /\ a <= b
  BY <1>2
<1>. HIDE DEF a, b
<1>5. /\ part \in Seq(TokenSet)
      /\ Len(part) = IF a + 1 <= b THEN b - (a + 1) + 1 ELSE 0
  <2>1. \A k \in a + 1 .. b : tokens[k] \in TokenSet
    <3>1. \A k \in 1 .. Len(tokens) : tokens[k] \in TokenSet
      BY ElementOfSeq
    <3>. QED
      BY <1>1, <1>4, <3>1
  <2>2. a + 1 \in Int /\ b \in Int
    BY <1>4
  <2>. QED
    BY <2>1, <2>2, SubSeqProperties
<1>. HIDE DEF part
<1>6. part = <<>> <=> Len(part) = 0
  BY <1>5, EmptySeq
<1>7. Len(part) = 0 <=> a = b
  BY <1>1, <1>4, <1>5
<1>. QED
  BY <1>2, <1>3, <1>6, <1>7 DEF a, b, Empty

\* Arguments that are empty have no part.
LEMMA SkipsEmpty ==
  ASSUME NEW args \in Seq(Args), NEW tokens \in Seq(TokenSet), NEW ends,
         Cuts(ends, tokens, args), NEW c \in 1 .. Len(args) + 1, NEW d \in c - 1 .. Len(args),
         \A i \in c .. d : Empty(args[i])
  PROVE  ends[d] = ends[c - 1]
<1>. DEFINE S == {m \in Nat : c - 1 + m <= d => ends[c - 1 + m] = ends[c - 1]}
<1>0. Len(args) \in Nat
  BY LenProperties
<1>1. 0 \in S
  BY <1>0
<1>2. ASSUME NEW m \in Nat, m \in S PROVE m + 1 \in S
  <2>1. SUFFICES ASSUME c - 1 + (m + 1) <= d PROVE ends[c - 1 + (m + 1)] = ends[c - 1]
    OBVIOUS
  <2>. DEFINE i == c - 1 + (m + 1)
  <2>2. i \in 1 .. Len(args) /\ i \in c .. d /\ i - 1 = c - 1 + m /\ c - 1 + m <= d
    BY <1>0, <2>1
  <2>. HIDE DEF i
  <2>3. ends[i - 1] = ends[c - 1]
    BY <1>2, <2>2
  <2>4. ends[i - 1] = ends[i]
    BY <2>2, CutLength
  <2>. QED
    BY <2>3, <2>4 DEF i
<1>3. d - (c - 1) \in S
  <2>1. d - (c - 1) \in Nat
    BY <1>0
  <2>. HIDE DEF S
  <2>. QED
    BY <1>1, <1>2, <2>1, SetInduction
<1>4. c - 1 + (d - (c - 1)) = d /\ d <= d
  BY <1>0
<1>. QED
  BY <1>3, <1>4

\* The first string that is not empty is loaded.
LEMMA LoadAt ==
  ASSUME NEW args \in Seq(Args), NEW tokens \in Seq(TokenSet), NEW ends,
         Cuts(ends, tokens, args), NEW c \in 1 .. Len(args) + 1
  PROVE  ReadUpTo(Load(SubSeq(args, c, Len(args))), ends[c - 1], ends, tokens, args)
<1>. DEFINE N == Len(args)
            rest == SubSeq(args, c, N)
            full == {i \in DOMAIN rest : ~Empty(rest[i])}
<1>0. N \in Nat /\ Len(tokens) \in Nat
  BY LenProperties
<1>1. /\ rest \in Seq(Args) /\ Len(rest) = N - c + 1 /\ DOMAIN rest = 1 .. N - c + 1
      /\ \A i \in 1 .. N - c + 1 : rest[i] = args[c + i - 1]
  <2>1. \A i \in c .. N : args[i] \in Args
    <3>1. \A i \in 1 .. N : args[i] \in Args
      BY ElementOfSeq
    <3>. QED
      BY <1>0, <3>1
  <2>. HIDE DEF N
  <2>2. /\ rest \in Seq(Args) /\ Len(rest) = IF c <= N THEN N - c + 1 ELSE 0
        /\ \A i \in 1 .. N - c + 1 : rest[i] = args[c + i - 1]
    BY <1>0, <2>1, SubSeqProperties DEF N
  <2>3. Len(rest) = N - c + 1
    BY <1>0, <2>2 DEF N
  <2>. HIDE DEF rest
  <2>. QED
    BY <2>2, <2>3, LenProperties
<1>. HIDE DEF N, rest
<1>2. CASE full = {}
  <2>1. Load(rest) = [it |-> <<>>, buffer |-> <<>>]
    BY <1>2 DEF Load
  <2>2. \A i \in c .. N : Empty(args[i])
    <3>1. ASSUME NEW i \in c .. N PROVE Empty(args[i])
      <4>1. i - c + 1 \in 1 .. N - c + 1 /\ c + (i - c + 1) - 1 = i
        BY <1>0 DEF N
      <4>2. rest[i - c + 1] = args[i] /\ Empty(rest[i - c + 1])
        BY <1>1, <1>2, <4>1
      <4>. QED
        BY <4>2
    <3>. QED
      BY <3>1
  <2>3. N \in c - 1 .. N
    BY <1>0 DEF N
  <2>4. ends[N] = ends[c - 1]
    BY <2>2, <2>3, SkipsEmpty DEF N
  <2>5. ends[N] = Len(tokens)
    BY DEF Cuts, N
  <2>. QED
    BY <2>1, <2>4, <2>5 DEF ReadUpTo, rest, N
<1>3. CASE full # {}
  <2>. DEFINE m == CHOOSE i \in full : \A j \in full : i <= j
              k == c + m - 1
              at == SubSeq(rest, m, Len(rest))
  <2>1. m \in full /\ \A j \in full : m <= j
    <3>1. full \subseteq Nat
      BY <1>1
    <3>2. \E i \in full : \A j \in full : ~(j < i)
      <4>. HIDE DEF full
      <4>. QED
        BY <1>3, <3>1, LeastNumber
    <3>3. \E i \in full : \A j \in full : i <= j
      <4>. HIDE DEF full
      <4>. QED
        BY <3>1, <3>2
    <3>. QED
      BY <3>3
  <2>2. Load(rest) = [it |-> at, buffer |-> IF at = <<>> THEN <<>> ELSE Tokens(Head(at))]
    <3>. DEFINE loaded == IF full = {} THEN <<>> ELSE at
    <3>1. Load(rest) = [it |-> loaded, buffer |-> IF loaded = <<>> THEN <<>> ELSE Tokens(Head(loaded))]
      BY DEF Load
    <3>2. loaded = at
      BY <1>3
    <3>. HIDE DEF loaded
    <3>. QED
      BY <3>1, <3>2
  <2>3. /\ m \in 1 .. N - c + 1 /\ ~Empty(rest[m]) /\ rest[m] = args[c + m - 1]
        /\ \A j \in 1 .. m - 1 : Empty(rest[j])
    <3>. HIDE DEF m
    <3>1. m \in 1 .. N - c + 1 /\ ~Empty(rest[m])
      BY <1>1, <2>1
    <3>2. ASSUME NEW j \in 1 .. m - 1 PROVE Empty(rest[j])
      <4>1. j \in 1 .. N - c + 1 /\ ~(m <= j)
        BY <1>0, <3>1
      <4>. QED
        BY <1>1, <2>1, <4>1
    <3>. QED
      BY <1>1, <3>1, <3>2
  <2>. HIDE DEF m, full
  <2>4. k \in 1 .. N /\ k - 1 \in c - 1 .. N /\ k - 1 \in Nat
    BY <1>0, <2>3 DEF N
  <2>5. ends[k - 1] = ends[c - 1]
    <3>1. ASSUME NEW i \in c .. k - 1 PROVE Empty(args[i])
      <4>1. i - c + 1 \in 1 .. m - 1 /\ i - c + 1 \in 1 .. N - c + 1 /\ c + (i - c + 1) - 1 = i
        BY <1>0, <2>3 DEF N
      <4>2. rest[i - c + 1] = args[i]
        BY <1>1, <4>1
      <4>. QED
        BY <2>3, <4>1, <4>2
    <3>. HIDE DEF k
    <3>. QED
      BY <2>4, <3>1, SkipsEmpty DEF N
  <2>6. at = SubSeq(args, k, N) /\ at # <<>> /\ Head(at) = args[k]
    <3>1. /\ at \in Seq(Args) /\ Len(at) = N - k + 1
          /\ \A i \in 1 .. N - k + 1 : at[i] = args[k + i - 1]
      <4>1. \A i \in m .. Len(rest) : rest[i] \in Args
        <5>1. \A i \in 1 .. Len(rest) : rest[i] \in Args
          BY <1>1, ElementOfSeq
        <5>. QED
          BY <1>0, <1>1, <2>3, <5>1
      <4>2. m \in Int /\ Len(rest) \in Int /\ m <= Len(rest)
        BY <1>0, <1>1, <2>3
      <4>3. /\ at \in Seq(Args) /\ Len(at) = Len(rest) - m + 1
            /\ \A i \in 1 .. Len(rest) - m + 1 : at[i] = rest[m + i - 1]
        BY <4>1, <4>2, SubSeqProperties
      <4>4. Len(rest) - m + 1 = N - k + 1
        BY <1>0, <1>1, <2>3 DEF N
      <4>5. ASSUME NEW i \in 1 .. N - k + 1 PROVE at[i] = args[k + i - 1]
        <5>1. m + i - 1 \in 1 .. N - c + 1 /\ c + (m + i - 1) - 1 = k + i - 1
          <6>1. N \in Nat /\ c \in Nat /\ m \in 1 .. N - c + 1
            BY <1>0, <2>3 DEF N
          <6>2. k = c + m - 1
            OBVIOUS
          <6>. HIDE DEF k, m, N
          <6>3. i \in 1 .. N - k + 1
            BY <4>5
          <6>. QED
            BY ONLY <6>1, <6>2, <6>3
        <5>2. at[i] = rest[m + i - 1]
          BY <4>3, <4>4
        <5>. QED
          BY <1>1, <5>1, <5>2
      <4>. QED
        BY <4>3, <4>4, <4>5
    <3>. HIDE DEF at, k
    <3>2. /\ SubSeq(args, k, N) \in Seq(Args) /\ Len(SubSeq(args, k, N)) = N - k + 1
          /\ \A i \in 1 .. N - k + 1 : SubSeq(args, k, N)[i] = args[k + i - 1]
      <4>1. \A i \in k .. N : args[i] \in Args
        <5>1. \A i \in 1 .. N : args[i] \in Args
          BY ElementOfSeq DEF N
        <5>. QED
          BY <1>0, <2>4, <5>1
      <4>. QED
        BY <1>0, <2>4, <4>1, SubSeqProperties
    <3>3. at = SubSeq(args, k, N)
      BY <3>1, <3>2, SeqEqual
    <3>4. N - k + 1 >= 1 /\ 1 \in 1 .. N - k + 1 /\ k + 1 - 1 = k
      BY <1>0, <2>4
    <3>5. at # <<>> /\ Head(at) = at[1] /\ at[1] = args[k]
      BY <3>1, <3>4
    <3>. QED
      BY <3>3, <3>5
  <2>7. Tokens(args[k]) = SubSeq(tokens, ends[c - 1] + 1, ends[k])
    <3>. HIDE DEF k
    <3>. QED
      BY <2>4, <2>5 DEF Cuts, N
  <2>8. ends[c - 1] < ends[k]
    <3>1. /\ ends[k - 1] \in 0 .. Len(tokens) /\ ends[k] \in 0 .. Len(tokens)
          /\ ends[k - 1] <= ends[k] /\ (Empty(args[k]) <=> ends[k - 1] = ends[k])
      <4>. HIDE DEF k
      <4>. QED
        BY <2>4, CutLength DEF N
    <3>2. ~Empty(args[k])
      BY <2>3
    <3>. HIDE DEF k
    <3>. QED
      BY <1>0, <2>5, <3>1, <3>2
  <2>9. ends[c - 1] <= ends[c - 1]
    <3>1. c - 1 \in 0 .. N
      BY <1>0 DEF N
    <3>2. ends[c - 1] \in 0 .. Len(tokens)
      BY <3>1 DEF Cuts, N
    <3>. QED
      BY <1>0, <3>2
  <2>10. Load(rest) = [it |-> SubSeq(args, k, N), buffer |-> SubSeq(tokens, ends[c - 1] + 1, ends[k])]
    <3>. HIDE DEF at, k
    <3>. QED
      BY <2>2, <2>6, <2>7
  <2>. HIDE DEF k
  <2>. QED
    BY <2>4, <2>5, <2>8, <2>9, <2>10 DEF ReadUpTo, rest, N
<1>. QED
  BY <1>2, <1>3

\* What the stream is at.
LEMMA HeadAt ==
  ASSUME NEW args \in Seq(Args), NEW tokens \in Seq(TokenSet), NEW ends,
         Cuts(ends, tokens, args), NEW n \in Nat, NEW stream, ReadUpTo(stream, n, ends, tokens, args)
  PROVE  /\ stream.it \in Seq(Args) /\ stream.buffer \in Seq(TokenSet)
         /\ stream.it # <<>> => stream.buffer # <<>>
         /\ n <= Len(tokens)
         /\ More(stream) <=> n < Len(tokens)
         /\ n < Len(tokens) => Head(stream.buffer) = tokens[n + 1] /\ tokens[n + 1] \in TokenSet
<1>0. Len(args) \in Nat /\ Len(tokens) \in Nat
  BY LenProperties
<1>1. CASE n = Len(tokens) /\ stream = [it |-> <<>>, buffer |-> <<>>]
  BY <1>0, <1>1 DEF More
<1>2. ASSUME NEW c \in 1 .. Len(args), ends[c - 1] <= n, n < ends[c],
             stream = [it |-> SubSeq(args, c, Len(args)), buffer |-> SubSeq(tokens, n + 1, ends[c])]
      PROVE  /\ stream.it \in Seq(Args) /\ stream.buffer \in Seq(TokenSet)
             /\ stream.buffer # <<>> /\ n < Len(tokens)
             /\ Head(stream.buffer) = tokens[n + 1] /\ tokens[n + 1] \in TokenSet
  <2>. DEFINE b == ends[c]
              front == SubSeq(tokens, n + 1, b)
              rest == SubSeq(args, c, Len(args))
  <2>1. b \in 0 .. Len(tokens) /\ n < b
    BY <1>2, CutLength
  <2>. HIDE DEF b
  <2>2. n + 1 \in 1 .. Len(tokens) /\ b \in n + 1 .. Len(tokens) /\ n < Len(tokens)
    BY <1>0, <2>1
  <2>3. Head(front) = tokens[n + 1]
    BY <2>2, HeadTailOfSubSeq
  <2>4. front \in Seq(TokenSet) /\ front # <<>>
    <3>1. \A k \in n + 1 .. b : tokens[k] \in TokenSet
      <4>1. \A k \in 1 .. Len(tokens) : tokens[k] \in TokenSet
        BY ElementOfSeq
      <4>. QED
        BY <1>0, <2>1, <4>1
    <3>2. n + 1 \in Int /\ b \in Int /\ n + 1 <= b
      BY <1>0, <2>1
    <3>3. front \in Seq(TokenSet) /\ Len(front) = b - (n + 1) + 1
      BY <3>1, <3>2, SubSeqProperties
    <3>. HIDE DEF front
    <3>. QED
      BY <3>2, <3>3
  <2>5. rest \in Seq(Args)
    <3>1. \A k \in c .. Len(args) : args[k] \in Args
      <4>1. \A k \in 1 .. Len(args) : args[k] \in Args
        BY ElementOfSeq
      <4>. QED
        BY <1>0, <4>1
    <3>. QED
      BY <1>0, <3>1, SubSeqProperties
  <2>6. tokens[n + 1] \in TokenSet
    BY <2>2, ElementOfSeq
  <2>7. stream.it = rest /\ stream.buffer = front
    BY <1>2 DEF b
  <2>. HIDE DEF front, rest
  <2>. QED
    BY <2>2, <2>3, <2>4, <2>5, <2>6, <2>7
<1>3. \/ n = Len(tokens) /\ stream = [it |-> <<>>, buffer |-> <<>>]
      \/ \E c \in 1 .. Len(args) :
           /\ ends[c - 1] <= n /\ n < ends[c]
           /\ stream = [it |-> SubSeq(args, c, Len(args)), buffer |-> SubSeq(tokens, n + 1, ends[c])]
  BY DEF ReadUpTo
<1>4. CASE \E c \in 1 .. Len(args) :
             /\ ends[c - 1] <= n /\ n < ends[c]
             /\ stream = [it |-> SubSeq(args, c, Len(args)), buffer |-> SubSeq(tokens, n + 1, ends[c])]
  <2>1. /\ stream.it \in Seq(Args) /\ stream.buffer \in Seq(TokenSet)
        /\ stream.buffer # <<>> /\ n < Len(tokens)
        /\ Head(stream.buffer) = tokens[n + 1] /\ tokens[n + 1] \in TokenSet
    BY <1>2, <1>4
  <2>. QED
    BY <1>0, <2>1 DEF More
<1>. QED
  BY <1>1, <1>3, <1>4

\* It moves on by one token.
LEMMA AdvanceAt ==
  ASSUME NEW args \in Seq(Args), NEW tokens \in Seq(TokenSet), NEW ends,
         Cuts(ends, tokens, args), NEW n \in Nat, n < Len(tokens),
         NEW stream, ReadUpTo(stream, n, ends, tokens, args)
  PROVE  ReadUpTo(Advance(stream), n + 1, ends, tokens, args)
<1>. DEFINE N == Len(args)
<1>0. N \in Nat /\ Len(tokens) \in Nat
  BY LenProperties
<1>1. PICK c \in 1 .. N :
        /\ ends[c - 1] <= n /\ n < ends[c]
        /\ stream = [it |-> SubSeq(args, c, N), buffer |-> SubSeq(tokens, n + 1, ends[c])]
  BY <1>0, SMTT(30) DEF ReadUpTo
<1>. DEFINE b == ends[c]
            a == ends[c - 1]
            front == SubSeq(tokens, n + 1, b)
            rest == SubSeq(args, c, N)
<1>2. b \in 0 .. Len(tokens) /\ a \in 0 .. Len(tokens) /\ a <= n /\ n < b
  BY <1>1, CutLength
<1>3. stream = [it |-> rest, buffer |-> front]
  BY <1>1
<1>4. Advance(stream) = IF Len(front) >= 2 THEN [it |-> rest, buffer |-> Tail(front)]
                        ELSE Load(IF rest = <<>> THEN <<>> ELSE Tail(rest))
  <2>. HIDE DEF rest, front
  <2>1. Advance(stream) = IF Len(stream.buffer) >= 2 THEN [stream EXCEPT !.buffer = Tail(stream.buffer)]
                          ELSE Load(IF stream.it = <<>> THEN <<>> ELSE Tail(stream.it))
    BY DEF Advance, AdvanceWith
  <2>2. stream.it = rest /\ stream.buffer = front
    BY <1>3
  <2>3. [stream EXCEPT !.buffer = Tail(front)] = [it |-> rest, buffer |-> Tail(front)]
    <3>1. \A x, y, z : [[it |-> x, buffer |-> y] EXCEPT !.buffer = z] = [it |-> x, buffer |-> z]
      OBVIOUS
    <3>. QED
      BY ONLY <1>3, <3>1
  <2>. QED
    BY <2>1, <2>2, <2>3
<1>. HIDE DEF a, b
<1>5. n + 1 \in 1 .. Len(tokens) /\ b \in n + 1 .. Len(tokens)
  BY <1>0, <1>2
<1>6. Tail(front) = SubSeq(tokens, n + 1 + 1, b)
  BY <1>5, HeadTailOfSubSeq
<1>7. Len(front) = b - n
  <2>1. \A k \in n + 1 .. b : tokens[k] \in TokenSet
    <3>1. \A k \in 1 .. Len(tokens) : tokens[k] \in TokenSet
      BY ElementOfSeq
    <3>. QED
      BY <1>0, <1>2, <3>1
  <2>2. n + 1 \in Int /\ b \in Int /\ n + 1 <= b
    BY <1>0, <1>2
  <2>3. Len(front) = b - (n + 1) + 1
    BY <2>1, <2>2, SubSeqProperties
  <2>. HIDE DEF front
  <2>. QED
    BY <1>0, <1>2, <2>3
<1>. HIDE DEF front
<1>8. CASE Len(front) >= 2
  <2>1. a <= n + 1 /\ n + 1 < b
    BY <1>0, <1>2, <1>7, <1>8
  <2>2. Advance(stream) = [it |-> rest, buffer |-> SubSeq(tokens, n + 1 + 1, b)]
    BY <1>4, <1>6, <1>8
  <2>. QED
    BY <2>1, <2>2 DEF ReadUpTo, rest, a, b
<1>9. CASE ~(Len(front) >= 2)
  <2>1. b = n + 1
    BY <1>0, <1>2, <1>7, <1>9
  <2>2. rest # <<>> /\ Tail(rest) = SubSeq(args, c + 1, N)
    <3>1. c \in 1 .. N /\ N \in c .. N
      BY <1>0
    <3>2. Tail(rest) = SubSeq(args, c + 1, N)
      BY <3>1, HeadTailOfSubSeq
    <3>3. \A k \in c .. N : args[k] \in Args
      <4>1. \A k \in 1 .. N : args[k] \in Args
        BY ElementOfSeq
      <4>. QED
        BY <1>0, <4>1
    <3>4. Len(rest) = N - c + 1
      <4>. HIDE DEF N
      <4>. QED
        BY <1>0, <3>3, SubSeqProperties
    <3>. HIDE DEF rest
    <3>5. rest # <<>>
      BY <1>0, <3>4
    <3>. QED
      BY <3>2, <3>5
  <2>. HIDE DEF rest
  <2>3. Advance(stream) = Load(SubSeq(args, c + 1, N))
    BY <1>4, <1>9, <2>2
  <2>4. c + 1 \in 1 .. N + 1 /\ c + 1 - 1 = c
    BY <1>0
  <2>5. ReadUpTo(Load(SubSeq(args, c + 1, N)), ends[c + 1 - 1], ends, tokens, args)
    BY <2>4, LoadAt
  <2>. QED
    BY <2>1, <2>3, <2>4, <2>5 DEF b
<1>. QED
  BY <1>8, <1>9

\* Fewer pairs are pairs.
LEMMA FewerPairs ==
  ASSUME NEW tokens, Len(tokens) \in Nat, NEW n \in Nat, NEW m \in 0 .. n, Pairs(tokens, n)
  PROVE  Pairs(tokens, m)
<1>1. 2 * m <= Len(tokens) /\ \A i \in 1 .. m : i \in 1 .. n
  BY DEF Pairs
<1>. QED
  BY <1>1 DEF Pairs

\* There is one way to pair as many tokens as there can be.
LEMMA OnePairing ==
  ASSUME NEW tokens, Len(tokens) \in Nat, NEW n \in Nat, Pairs(tokens, n), ~Pairs(tokens, n + 1)
  PROVE  n = CHOOSE k \in 0 .. Len(tokens) : Pairs(tokens, k) /\ ~Pairs(tokens, k + 1)
<1>1. n \in 0 .. Len(tokens)
  BY DEF Pairs
<1>2. ASSUME NEW k \in 0 .. Len(tokens), Pairs(tokens, k), ~Pairs(tokens, k + 1) PROVE k = n
  <2>1. CASE k < n
    <3>1. k + 1 \in 0 .. n
      BY <2>1
    <3>. QED
      BY <1>2, <3>1, FewerPairs
  <2>2. CASE n < k
    <3>1. n + 1 \in 0 .. k /\ k \in Nat
      BY <2>2
    <3>. QED
      BY <1>2, <3>1, FewerPairs
  <2>. QED
    BY <2>1, <2>2
<1>. QED
  BY <1>1, <1>2

\* At the start nothing is read, and nothing but the defaults is set.
LEMMA ParserStarts == ParserInit => ParserInv
<1>. SUFFICES ASSUME ParserInit PROVE ParserInv
  OBVIOUS
<1>. DEFINE T == Spelled(argv)
<1>1. argv \in Seq(Args)
  <2>1. PICK n \in 0 .. MaxArgs : argv \in [1 .. n -> Args]
    BY DEF ParserInit
  <2>2. n \in Nat
    BY <2>1, CommandLineAssumption
  <2>. QED
    BY <2>1, <2>2, SeqDef
<1>2. T \in Seq(TokenSet) /\ Len(T) \in Nat /\ Len(argv) \in Nat
  BY <1>1, SpelledCuts, LenProperties
<1>3. PICK ends : Cuts(ends, T, argv)
  BY <1>1, SpelledCuts
<1>. HIDE DEF T
<1>4. ReadUpTo(Stream, 0, ends, T, argv)
  <2>1. ReadUpTo(Load(SubSeq(argv, 1, Len(argv))), ends[1 - 1], ends, T, argv)
    <3>1. 1 \in 1 .. Len(argv) + 1
      BY <1>2
    <3>. QED
      BY <1>1, <1>2, <1>3, <3>1, LoadAt
  <2>2. SubSeq(argv, 1, Len(argv)) = argv
    BY <1>1, SubSeqFull
  <2>3. ends[1 - 1] = 0
    BY <1>3 DEF Cuts
  <2>4. Stream = Load(argv)
    <3>1. it = Load(argv).it /\ buffer = Load(argv).buffer
      BY DEF ParserInit
    <3>2. \E x, y : Load(argv) = [it |-> x, buffer |-> y]
      BY DEF Load
    <3>. QED
      BY <3>1, <3>2 DEF Stream
  <2>. QED
    BY <2>1, <2>2, <2>3, <2>4
<1>5. used = {} /\ settings = Defaults /\ result = "parsing"
  BY DEF ParserInit
<1>6. Parsed(0)
  <2>1. Pairs(T, 0)
    BY <1>2 DEF Pairs
  <2>2. Sets(T, 0)
    BY <1>5 DEF Sets
  <2>3. used = {Target(T, i) : i \in 1 .. 0}
    BY <1>5
  <2>4. 2 * 0 = 0
    OBVIOUS
  <2>. QED
    BY <1>3, <1>4, <2>1, <2>2, <2>3, <2>4 DEF Parsed, T
<1>7. it \in Seq(Args) /\ buffer \in Seq(TokenSet) /\ (it # <<>> => buffer # <<>>)
  <2>1. Stream.it = it /\ Stream.buffer = buffer
    BY DEF Stream
  <2>. QED
    BY <1>1, <1>2, <1>3, <1>4, <2>1, HeadAt
<1>8. ParserTypeOK
  <2>1. /\ Defaults.wsport \in Int /\ Defaults.tcpport \in Int /\ Defaults.console \in BOOLEAN
        /\ Defaults.threads \in 0 .. USHRT_MAX
    BY CommandLineAssumption DEF Defaults
  <2>2. used \subseteq DOMAIN Defaults
    BY <1>5
  <2>. QED
    BY ONLY <1>5, <1>7, <2>1, <2>2 DEF ParserTypeOK
<1>9. 0 \in 0 .. Len(T)
  BY <1>2
<1>. QED
  BY <1>1, <1>5, <1>6, <1>7, <1>8, <1>9 DEF ParserInv, ParsesAsSpelled, T

\* How a parse ends.
LEMMA ParseStops ==
  ASSUME ParserInv, result = "parsing", UNCHANGED <<argv, it, buffer, used, settings>>,
         NEW n \in Nat, Parsed(n), ~Pairs(Spelled(argv), n + 1),
         result' = Outcome(Spelled(argv), n)
  PROVE  ParserInv'
<1>. DEFINE T == Spelled(argv)
<1>1. argv \in Seq(Args) /\ Len(T) \in Nat
  BY SpelledCuts, LenProperties DEF ParserInv
<1>2. T' = T /\ argv' = argv /\ settings' = settings
  BY DEF Spelled
<1>3. result' \in {"ok", "help", "error"}
  BY DEF Outcome
<1>4. Pairs(T, n) /\ Sets(T, n)
  BY DEF Parsed
<1>. HIDE DEF T
<1>5. n = CHOOSE k \in 0 .. Len(T) : Pairs(T, k) /\ ~Pairs(T, k + 1)
  BY <1>1, <1>4, OnePairing DEF T
<1>6. Sets(T, n)'
  BY <1>2, <1>4 DEF Sets
<1>7. ParsesAsSpelled'
  BY <1>2, <1>5, <1>6 DEF ParsesAsSpelled, T
<1>8. ParserTypeOK'
  <2>1. ParserTypeOK
    BY DEF ParserInv
  <2>. QED
    BY ONLY <1>3, <2>1, UNCHANGED <<argv, it, buffer, used, settings>> DEF ParserTypeOK
<1>. QED
  BY <1>3, <1>7, <1>8 DEF ParserInv

\* A number of 16 bits.
LEMMA ModuloRange == \A x \in Int : x % (USHRT_MAX + 1) \in 0 .. USHRT_MAX
<1>. DEFINE m == USHRT_MAX + 1
<1>1. m \in Nat /\ m > 0 /\ USHRT_MAX \in Nat /\ m - 1 = USHRT_MAX
  BY DEF USHRT_MAX
<1>. HIDE DEF m
<1>2. \A x \in Int : x % m \in 0 .. m - 1
  BY <1>1
<1>. QED
  BY <1>1, <1>2 DEF m

\* The value behind an option, and the option itself, are the next two tokens.
LEMMA StreamIsAt ==
  ASSUME ParserInv, NEW n \in Nat, Parsed(n), NEW T, T = Spelled(argv)
  PROVE  /\ T \in Seq(TokenSet) /\ Len(T) \in Nat /\ 2 * n <= Len(T)
         /\ More(Stream) <=> 2 * n < Len(T)
         /\ 2 * n < Len(T) =>
              /\ Head(buffer) = T[2 * n + 1] /\ T[2 * n + 1] \in TokenSet
              /\ \A o : HasValue(o) <=>
                   /\ 2 * n + 1 < Len(T) /\ T[2 * n + 2].type = "Argument"
                   /\ Converts(o, T[2 * n + 2].token)
<1>1. argv \in Seq(Args)
  BY DEF ParserInv
<1>2. T \in Seq(TokenSet) /\ Len(T) \in Nat
  BY <1>1, SpelledCuts, LenProperties
<1>3. PICK ends : Cuts(ends, T, argv) /\ ReadUpTo(Stream, 2 * n, ends, T, argv)
  BY DEF Parsed
<1>4. 2 * n \in Nat /\ 2 * n + 1 \in Nat /\ 2 * n + 1 + 1 = 2 * n + 2
  OBVIOUS
<1>5. /\ 2 * n <= Len(T) /\ (More(Stream) <=> 2 * n < Len(T))
      /\ 2 * n < Len(T) => Head(Stream.buffer) = T[2 * n + 1] /\ T[2 * n + 1] \in TokenSet
  BY <1>1, <1>2, <1>3, <1>4, HeadAt
<1>6. Stream.buffer = buffer
  BY DEF Stream
<1>7. ASSUME 2 * n < Len(T), NEW o
      PROVE  HasValue(o) <=>
               /\ 2 * n + 1 < Len(T) /\ T[2 * n + 2].type = "Argument"
               /\ Converts(o, T[2 * n + 2].token)
  <2>. DEFINE next == Advance(Stream)
  <2>1. ReadUpTo(next, 2 * n + 1, ends, T, argv)
    BY <1>1, <1>2, <1>3, <1>4, <1>7, AdvanceAt
  <2>2. HasValue(o) <=> /\ More(next) /\ Head(next.buffer).type = "Argument"
                        /\ Converts(o, Head(next.buffer).token)
    BY DEF HasValue, At
  <2>. HIDE DEF next
  <2>3. /\ More(next) <=> 2 * n + 1 < Len(T)
        /\ 2 * n + 1 < Len(T) => Head(next.buffer) = T[2 * n + 1 + 1]
    BY <1>1, <1>2, <1>3, <1>4, <2>1, HeadAt
  <2>. QED
    BY <1>4, <2>2, <2>3
<1>. QED
  BY <1>2, <1>5, <1>6, <1>7

\* An option and its value are one pair more.
LEMMA OptionParsed ==
  ASSUME ParserInv, NEW o \in DOMAIN Defaults, ParseOption(o)
  PROVE  ParserInv'
<1>. DEFINE T == Spelled(argv)
<1>0. result = "parsing" /\ argv \in Seq(Args)
  BY DEF ParseOption, ParserInv
<1>1. PICK n \in 0 .. Len(T) : Parsed(n)
  BY <1>0 DEF ParserInv
<1>2. n \in Nat
  OBVIOUS
<1>3. PICK ends : Cuts(ends, T, argv) /\ ReadUpTo(Stream, 2 * n, ends, T, argv)
  BY <1>1 DEF Parsed
<1>4. T' = T /\ argv' = argv /\ result' = result
  BY DEF ParseOption, Spelled
<1>. DEFINE next == Advance(Stream)
<1>5. /\ At(Stream, "Option") /\ Head(buffer).token \in DOMAIN Option
      /\ Option[Head(buffer).token] = o /\ o \notin used /\ HasValue(o)
      /\ settings' = [settings EXCEPT ![o] = Converted(o, Head(next.buffer).token)]
      /\ it' = Advance(next).it /\ buffer' = Advance(next).buffer /\ used' = used \cup {o}
  BY DEF ParseOption, Matches
<1>6. /\ T \in Seq(TokenSet) /\ Len(T) \in Nat
      /\ 2 * n < Len(T) /\ Head(buffer) = T[2 * n + 1]
      /\ 2 * n + 1 < Len(T) /\ T[2 * n + 2].type = "Argument" /\ Converts(o, T[2 * n + 2].token)
  <2>1. More(Stream)
    BY <1>5 DEF At
  <2>2. T = Spelled(argv)
    OBVIOUS
  <2>. HIDE DEF T, next
  <2>. QED
    BY <1>1, <1>2, <1>5, <2>1, <2>2, StreamIsAt
<1>7. T[2 * n + 1].type = "Option" /\ Option[T[2 * n + 1].token] = o /\ T[2 * n + 1].token \in DOMAIN Option \ Helps
  <2>1. Head(buffer).type = "Option"
    BY <1>5 DEF At, Stream
  <2>2. o # "help"
    BY DEF Defaults
  <2>. HIDE DEF T
  <2>. QED
    BY <1>5, <1>6, <2>1, <2>2, OptionNames
<1>8. ReadUpTo(next, 2 * n + 1, ends, T, argv) /\ ReadUpTo(Advance(next), 2 * n + 2, ends, T, argv)
  <2>1. 2 * n \in Nat /\ 2 * n + 1 \in Nat /\ 2 * n + 1 + 1 = 2 * n + 2
    BY <1>2
  <2>. HIDE DEF T
  <2>2. ReadUpTo(next, 2 * n + 1, ends, T, argv)
    BY <1>0, <1>3, <1>6, <2>1, AdvanceAt
  <2>. HIDE DEF next
  <2>3. ReadUpTo(Advance(next), 2 * n + 1 + 1, ends, T, argv)
    BY <1>0, <1>3, <1>6, <2>1, <2>2, AdvanceAt
  <2>. QED
    BY <2>1, <2>2, <2>3
<1>9. Head(next.buffer) = T[2 * n + 2] /\ T[2 * n + 2] \in TokenSet
  <2>1. 2 * n + 1 \in Nat /\ 2 * n + 1 + 1 = 2 * n + 2
    BY <1>2
  <2>. HIDE DEF T, next
  <2>. QED
    BY <1>0, <1>3, <1>6, <1>8, <2>1, HeadAt
<1>10. Stream' = Advance(next)
  <2>1. \E x, y : Advance(next) = [it |-> x, buffer |-> y]
    <3>. HIDE DEF T, next
    <3>1. \/ Advance(next) = [it |-> <<>>, buffer |-> <<>>]
          \/ \E c \in 1 .. Len(argv) :
               Advance(next) = [it |-> SubSeq(argv, c, Len(argv)), buffer |-> SubSeq(T, 2 * n + 2 + 1, ends[c])]
      BY <1>8 DEF ReadUpTo
    <3>. QED
      BY <3>1
  <2>2. Stream' = [it |-> Advance(next).it, buffer |-> Advance(next).buffer]
    BY <1>5 DEF Stream
  <2>. HIDE DEF next
  <2>. QED
    BY <2>1, <2>2
<1>. HIDE DEF T, next
<1>. DEFINE value == T[2 * n + 2].token
<1>11. 2 * (n + 1) = 2 * n + 2 /\ 2 * (n + 1) - 1 = 2 * n + 1 /\ n + 1 \in Nat
  BY <1>2
<1>12. Target(T, n + 1) = o /\ Value(T, n + 1) = value
  BY <1>7, <1>11 DEF Target, Value
<1>13. /\ Pairs(T, n) /\ Sets(T, n) /\ used = {Target(T, i) : i \in 1 .. n}
  BY <1>1 DEF Parsed, T
<1>14. Pairs(T, n + 1)
  <2>1. 2 * (n + 1) <= Len(T)
    BY <1>2, <1>6, <1>11
  <2>2. ASSUME NEW i \in 1 .. n + 1
        PROVE  /\ T[2 * i - 1].type = "Option" /\ T[2 * i - 1].token \in DOMAIN Option \ Helps
               /\ T[2 * i].type = "Argument" /\ Converts(Target(T, i), Value(T, i))
               /\ \A j \in 1 .. i - 1 : Target(T, j) # Target(T, i)
    <3>1. CASE i = n + 1
      <4>1. \A j \in 1 .. n : Target(T, j) # o
        BY <1>5, <1>13
      <4>2. i - 1 = n
        BY <1>2, <3>1
      <4>. QED
        BY <1>6, <1>7, <1>11, <1>12, <3>1, <4>1, <4>2
    <3>2. CASE i \in 1 .. n
      BY <1>13, <3>2 DEF Pairs
    <3>. QED
      BY <1>2, <3>1, <3>2
  <2>. QED
    BY <2>1, <2>2 DEF Pairs
<1>15. settings' = [settings EXCEPT ![o] = Converted(o, value)] /\ DOMAIN settings = DOMAIN Defaults
  BY <1>5, <1>9 DEF ParserInv
<1>. HIDE DEF value
<1>16. Sets(T, n + 1)'
  <2>1. ASSUME NEW i \in 1 .. n + 1
        PROVE  settings'[Target(T, i)] = Converted(Target(T, i), Value(T, i))
    <3>1. CASE i = n + 1
      BY <1>12, <1>15, <3>1
    <3>2. CASE i \in 1 .. n
      <4>1. Target(T, i) # o /\ Target(T, i) \in used
        BY <1>5, <1>13, <3>2
      <4>2. Target(T, i) \in DOMAIN settings
        BY <1>15, <4>1 DEF ParserInv, ParserTypeOK
      <4>3. settings'[Target(T, i)] = settings[Target(T, i)]
        BY <1>15, <4>1, <4>2
      <4>. QED
        BY <1>13, <3>2, <4>3 DEF Sets
    <3>. QED
      BY <1>2, <3>1, <3>2
  <2>2. ASSUME NEW p \in DOMAIN Defaults, p \notin {Target(T, i) : i \in 1 .. n + 1}
        PROVE  settings'[p] = Defaults[p]
    <3>1. p # o
      <4>1. n + 1 \in 1 .. n + 1
        BY <1>2
      <4>. QED
        BY <1>12, <2>2, <4>1
    <3>2. p \notin {Target(T, i) : i \in 1 .. n}
      <4>1. \A i \in 1 .. n : i \in 1 .. n + 1
        BY <1>2
      <4>. QED
        BY <2>2, <4>1
    <3>3. settings'[p] = settings[p]
      BY <1>15, <2>2, <3>1
    <3>. QED
      BY <1>13, <2>2, <3>2, <3>3 DEF Sets
  <2>. QED
    BY <1>4, <2>1, <2>2 DEF Sets
<1>17. used' = {Target(T, i) : i \in 1 .. n + 1}
  <2>1. \A i : i \in 1 .. n + 1 <=> i \in 1 .. n \/ i = n + 1
    BY <1>2
  <2>. QED
    BY <1>5, <1>12, <1>13, <2>1
<1>18. Parsed(n + 1)'
  <2>1. ReadUpTo(Stream', 2 * (n + 1), ends, T, argv)
    BY <1>8, <1>10, <1>11
  <2>. QED
    BY <1>3, <1>4, <1>14, <1>16, <1>17, <2>1 DEF Parsed, T
<1>19. it' \in Seq(Args) /\ buffer' \in Seq(TokenSet) /\ (it' # <<>> => buffer' # <<>>)
  <2>1. 2 * n + 2 \in Nat
    BY <1>2
  <2>2. it' = Advance(next).it /\ buffer' = Advance(next).buffer
    BY <1>5
  <2>. QED
    BY <1>0, <1>3, <1>6, <1>8, <2>1, <2>2, HeadAt
<1>20. ParserTypeOK'
  <2>1. ParserTypeOK /\ value \in Texts
    <3>1. value \in Texts
      BY <1>6, <1>9 DEF TokenSet, value
    <3>. QED
      BY <3>1 DEF ParserInv
  <2>2. o \in {"wsport", "tcpport"} => Converted(o, value) \in Int
    BY <1>6, <2>1 DEF Converts, Converted, Texts, value
  <2>3. o = "threads" => Converted(o, value) \in 0 .. USHRT_MAX
    <3>1. SUFFICES ASSUME o = "threads" PROVE Converted(o, value) \in 0 .. USHRT_MAX
      OBVIOUS
    <3>2. value[2] \in Int /\ Converted(o, value) = value[2] % (USHRT_MAX + 1)
      BY <1>6, <2>1, <3>1 DEF Converts, Converted, Texts, value
    <3>. QED
      BY <3>2, ModuloRange
  <2>4. o = "console" => Converted(o, value) \in BOOLEAN
    BY DEF Converted
  <2>5. /\ settings'.wsport \in Int /\ settings'.tcpport \in Int
        /\ settings'.threads \in 0 .. USHRT_MAX /\ settings'.console \in BOOLEAN
    <3>1. \A p \in DOMAIN settings : settings'[p] = IF p = o THEN Converted(o, value) ELSE settings[p]
      BY <1>15
    <3>2. {"wsport", "tcpport", "threads", "console"} \subseteq DOMAIN settings
      BY <1>15 DEF Defaults
    <3>. QED
      BY <2>1, <2>2, <2>3, <2>4, <3>1, <3>2 DEF ParserTypeOK
  <2>6. used' \subseteq DOMAIN Defaults /\ result' \in {"parsing", "ok", "help", "error"}
    BY <1>0, <1>4, <1>5, <2>1 DEF ParserTypeOK
  <2>. QED
    BY <1>19, <2>5, <2>6 DEF ParserTypeOK
<1>21. n + 1 \in 0 .. Len(T)
  BY <1>2, <1>6
<1>22. DOMAIN settings' = DOMAIN Defaults
  BY <1>15
<1>23. ParsesAsSpelled'
  BY <1>0, <1>4 DEF ParsesAsSpelled
<1>24. result' = "parsing" => \E k \in 0 .. Len(T) : Parsed(k)'
  BY <1>18, <1>21
<1>. QED
  BY <1>0, <1>4, <1>19, <1>20, <1>22, <1>23, <1>24 DEF ParserInv, T

\* Help, the end, and what no option takes.
LEMMA ParseEnded ==
  ASSUME ParserInv, ParseHelp \/ ParseFails \/ ParseEnds
  PROVE  ParserInv'
<1>. DEFINE T == Spelled(argv)
<1>1. result = "parsing" /\ UNCHANGED <<argv, it, buffer, used, settings>>
  BY DEF ParseHelp, ParseFails, ParseEnds
<1>2. PICK n \in 0 .. Len(T) : Parsed(n)
  BY <1>1 DEF ParserInv
<1>. HIDE DEF T
<1>3. /\ n \in Nat /\ 2 * n + 1 \in Nat /\ 2 * (n + 1) = 2 * n + 2 /\ 2 * (n + 1) - 1 = 2 * n + 1
      /\ n + 1 \in 1 .. n + 1 /\ n + 1 - 1 = n
  OBVIOUS
<1>4. /\ Len(T) \in Nat /\ 2 * n <= Len(T)
      /\ More(Stream) <=> 2 * n < Len(T)
      /\ 2 * n < Len(T) =>
           /\ Head(buffer) = T[2 * n + 1]
           /\ \A o : HasValue(o) <=>
                /\ 2 * n + 1 < Len(T) /\ T[2 * n + 2].type = "Argument"
                /\ Converts(o, T[2 * n + 2].token)
  BY <1>2, StreamIsAt DEF T
<1>5. used = {Target(T, i) : i \in 1 .. n} /\ used \subseteq DOMAIN Defaults
  BY <1>2 DEF Parsed, T, ParserInv, ParserTypeOK
<1>. DEFINE token == T[2 * n + 1]
<1>6. \A o : Matches(o) <=>
        /\ 2 * n < Len(T) /\ token.type = "Option" /\ token.token \in DOMAIN Option
        /\ Option[token.token] = o /\ o \notin used
  BY <1>4 DEF Matches, At, Stream
<1>7. "help" \notin DOMAIN Defaults
  BY DEF Defaults
<1>8. Pairs(T, n + 1) =>
        /\ 2 * n + 2 <= Len(T) /\ token.type = "Option" /\ token.token \in DOMAIN Option \ Helps
        /\ T[2 * n + 2].type = "Argument" /\ Converts(Option[token.token], T[2 * n + 2].token)
        /\ Option[token.token] \notin used
  <2>1. SUFFICES ASSUME Pairs(T, n + 1)
                 PROVE  /\ 2 * n + 2 <= Len(T) /\ token.type = "Option"
                        /\ token.token \in DOMAIN Option \ Helps
                        /\ T[2 * n + 2].type = "Argument"
                        /\ Converts(Option[token.token], T[2 * n + 2].token)
                        /\ Option[token.token] \notin used
    OBVIOUS
  <2>2. /\ T[2 * (n + 1) - 1].type = "Option" /\ T[2 * (n + 1) - 1].token \in DOMAIN Option \ Helps
        /\ T[2 * (n + 1)].type = "Argument" /\ Converts(Target(T, n + 1), Value(T, n + 1))
        /\ \A j \in 1 .. n + 1 - 1 : Target(T, j) # Target(T, n + 1)
        /\ 2 * (n + 1) <= Len(T)
    BY <1>3, <2>1 DEF Pairs
  <2>3. Target(T, n + 1) = Option[token.token] /\ Value(T, n + 1) = T[2 * n + 2].token
    BY <1>3 DEF Target, Value
  <2>. HIDE DEF token
  <2>4. Option[token.token] \notin used
    BY <1>3, <1>5, <2>2, <2>3
  <2>. QED
    BY <1>3, <2>2, <2>3, <2>4 DEF token
<1>9. ~Pairs(T, n + 1) /\ result' = Outcome(T, n)
  <2>1. CASE ParseHelp
    <3>1. Matches("help") /\ result' = "help"
      BY <2>1 DEF ParseHelp
    <3>2. 2 * n < Len(T) /\ token.type = "Option" /\ token.token \in Helps
      <4>. HIDE DEF token
      <4>. QED
        BY <1>6, <3>1, OptionNames
    <3>3. Outcome(T, n) = "help"
      BY <1>3, <1>4, <3>2 DEF Outcome
    <3>. HIDE DEF token
    <3>. QED
      BY <1>8, <3>1, <3>2, <3>3
  <2>2. CASE ParseFails
    <3>1. /\ More(Stream) /\ ~Matches("help") /\ result' = "error"
          /\ \A o \in DOMAIN Defaults : ~(Matches(o) /\ HasValue(o))
      BY <2>2 DEF ParseFails
    <3>2. ~Pairs(T, n + 1)
      <4>. HIDE DEF token
      <4>1. SUFFICES ASSUME Pairs(T, n + 1) PROVE FALSE
        OBVIOUS
      <4>2. Option[token.token] \in DOMAIN Defaults
        BY <1>8, <4>1, OptionNames
      <4>3. Matches(Option[token.token])
        BY <1>4, <1>6, <1>8, <3>1, <4>1
      <4>4. HasValue(Option[token.token])
        <5>1. 2 * n < Len(T) /\ 2 * n + 1 < Len(T)
          BY <1>3, <1>4, <1>8, <4>1
        <5>. QED
          BY <1>4, <1>8, <4>1, <5>1
      <4>. QED
        BY <3>1, <4>2, <4>3, <4>4
    <3>3. ~(token.type = "Option" /\ token.token \in Helps)
      <4>. HIDE DEF token
      <4>1. SUFFICES ASSUME token.type = "Option", token.token \in Helps PROVE FALSE
        OBVIOUS
      <4>2. Matches("help")
        BY <1>4, <1>5, <1>6, <1>7, <3>1, <4>1, OptionNames
      <4>. QED
        BY <3>1, <4>2
    <3>4. Len(T) # 2 * n
      BY <1>3, <1>4, <3>1
    <3>5. Outcome(T, n) = "error"
      BY <3>3, <3>4 DEF Outcome
    <3>. QED
      BY <3>1, <3>2, <3>5
  <2>3. CASE ParseEnds
    <3>1. Len(T) = 2 * n /\ result' = "ok"
      BY <1>3, <1>4, <2>3 DEF ParseEnds
    <3>2. Outcome(T, n) = "ok"
      BY <3>1 DEF Outcome
    <3>3. ~(2 * n + 2 <= Len(T))
      BY <1>3, <3>1
    <3>. QED
      BY <1>8, <3>1, <3>2, <3>3
  <2>. QED
    BY <2>1, <2>2, <2>3
<1>. QED
  BY <1>1, <1>2, <1>3, <1>9, ParseStops DEF T

\* The rounds of the parser.
LEMMA ParserStep == ParserInv /\ (Parse \/ UNCHANGED parser) => ParserInv'
<1>. SUFFICES ASSUME ParserInv, Parse \/ UNCHANGED parser PROVE ParserInv'
  OBVIOUS
<1>1. CASE UNCHANGED parser
  BY <1>1 DEF parser, ParserInv, ParserTypeOK, ParsesAsSpelled, Parsed, Sets, Stream
<1>2. CASE Parse
  BY <1>2, OptionParsed, ParseEnded DEF Parse
<1>. QED
  BY <1>1, <1>2

-----------------------------------------------------------------------------
(* main and run.                                                           *)

Serving == {"reserve", "spawn", "serving"}

\* What each constructor that has returned has left behind.
StartInv ==
  /\ main \in Steps \cup Ended /\ loglevel \in 0 .. 3 /\ v \in 0 .. USHRT_MAX
  /\ {ws, tcp} \subseteq 1 .. USHRT_MAX \cup {NoPort}
  /\ main \notin {"parse", "exit", "terminated"} => result = "ok"
  /\ main \in {"listener", "server"} \cup Serving => settings.file \in Databases
  /\ main \notin {"server", "terminated"} \cup Serving => ws = NoPort
  /\ main \notin {"terminated"} \cup Serving => tcp = NoPort
  /\ main \in {"server"} \cup Serving =>
       ws = NoPort \/ (ws \notin occupied /\ Port(settings.wsport) \in {0, ws})
  /\ main \in Serving =>
       tcp # NoPort /\ tcp # ws /\ tcp \notin occupied /\ Port(settings.tcpport) \in {0, tcp}
  /\ main \notin {"spawn", "serving", "terminated"} => v = 0
  /\ main = "spawn" => v + 1 <= settings.threads
  /\ main = "serving" => v + 1 = settings.threads

StartupInv == ParserInv /\ StartInv

\* What a setting stands for are ports.
LEMMA PortsArePorts ==
  ASSUME NEW setting \in Int
  PROVE  Ports(Port(setting)) \subseteq 1 .. USHRT_MAX /\ NoPort \notin 1 .. USHRT_MAX
<1>. DEFINE port == Port(setting)
<1>1. USHRT_MAX \in Nat
  BY DEF USHRT_MAX
<1>2. port \in 0 .. USHRT_MAX
  BY ModuloRange DEF Port
<1>3. Ephemeral \subseteq 1 .. USHRT_MAX /\ NoPort \notin 0 .. USHRT_MAX
  BY StartupAssumption
<1>. HIDE DEF port
<1>4. NoPort \notin 1 .. USHRT_MAX
  BY ONLY <1>1, <1>3
<1>5. Ports(port) \subseteq 1 .. USHRT_MAX
  <2>1. CASE port = 0
    BY <1>3, <2>1 DEF Ports
  <2>2. CASE port # 0
    <3>1. Ports(port) = {port}
      BY <2>2 DEF Ports
    <3>2. port \in 1 .. USHRT_MAX
      BY ONLY <1>1, <1>2, <2>2
    <3>. QED
      BY <3>1, <3>2
  <2>. QED
    BY <2>1, <2>2
<1>. QED
  BY <1>4, <1>5 DEF port

\* Ports to bind to are ports.
LEMMA FreePortsArePorts ==
  ASSUME NEW setting \in Int, NEW port \in FreePorts(Port(setting))
  PROVE  /\ port \in 1 .. USHRT_MAX /\ port # NoPort /\ port \notin occupied \cup {ws, tcp}
         /\ Port(setting) \in {0, port}
<1>1. port \in Ports(Port(setting)) /\ port \notin occupied \cup {ws, tcp}
  BY DEF FreePorts
<1>2. Port(setting) \in {0, port}
  BY <1>1 DEF Ports
<1>. QED
  BY <1>1, <1>2, PortsArePorts

\* Init.
LEMMA StartupStarts == StartupInit => StartupInv
<1>. SUFFICES ASSUME StartupInit PROVE StartupInv
  OBVIOUS
<1>1. ParserInv
  BY ParserStarts DEF StartupInit
<1>2. StartInv
  <2>1. 0 \in 0 .. USHRT_MAX
    BY DEF USHRT_MAX
  <2>. QED
    BY <2>1 DEF StartupInit, StartInv, Steps, Ended, Serving
<1>. QED
  BY <1>1, <1>2 DEF StartupInv

\* main and run.
LEMMA StartupStep == StartupInv /\ [StartupNext]_startupVars => StartupInv'
<1>. SUFFICES ASSUME StartupInv, [StartupNext]_startupVars PROVE StartupInv'
  OBVIOUS
<1>1. Parse \/ UNCHANGED parser
  BY DEF StartupNext, ParseArgs, SetLevel, InitializeLog, OpenDatabase, OpenListener, Serve,
    Reserve, Spawn, RunService, startupVars
<1>2. ParserInv'
  BY <1>1, ParserStep DEF StartupInv
<1>3. /\ settings.wsport \in Int /\ settings.tcpport \in Int /\ settings.threads \in 0 .. USHRT_MAX
      /\ USHRT_MAX \in Nat
  <2>1. ParserTypeOK
    BY DEF StartupInv, ParserInv
  <2>2. /\ settings.wsport \in Int /\ settings.tcpport \in Int
        /\ settings.threads \in 0 .. USHRT_MAX
    BY <2>1 DEF ParserTypeOK
  <2>3. USHRT_MAX \in Nat
    BY DEF USHRT_MAX
  <2>. QED
    BY <2>2, <2>3
<1>. USE DEF StartInv, Steps, Ended, Serving
<1>4. CASE ParseArgs
  <2>1. result' \in {"parsing", "ok", "help", "error"}
    BY <1>2 DEF ParserInv
  <2>2. /\ main = "parse" /\ UNCHANGED <<loglevel, occupied, ws, tcp, v>>
        /\ main' \in {"parse", "level", "exit"} /\ (main' = "level" => result' = "ok")
    BY <1>4, <2>1 DEF ParseArgs
  <2>3. StartInv'
    BY <2>2 DEF StartupInv
  <2>. QED
    BY <1>2, <2>3 DEF StartupInv
<1>5. ASSUME UNCHANGED parser PROVE UNCHANGED <<settings, result>>
  BY <1>5 DEF parser
<1>6. CASE SetLevel
  <2>1. /\ main = "level" /\ main' = "initialize" /\ UNCHANGED <<settings, result, occupied, ws, tcp, v>>
    BY <1>5, <1>6 DEF SetLevel
  <2>2. loglevel' \in 0 .. 3
    <3>1. CASE settings.logLevel \in {Word(l) : l \in DOMAIN Levels}
      <4>1. PICK l \in DOMAIN Levels : settings.logLevel = Word(l)
        BY <3>1
      <4>2. settings.logLevel[2] = l
        BY <4>1 DEF Word
      <4>3. Levels[l] \in 0 .. 3
        BY <4>1 DEF Levels
      <4>. QED
        BY <1>6, <3>1, <4>2, <4>3 DEF SetLevel
    <3>2. CASE settings.logLevel \notin {Word(l) : l \in DOMAIN Levels}
      BY <1>6, <3>2 DEF SetLevel, StartupInv
    <3>. QED
      BY <3>1, <3>2
  <2>3. StartInv'
    BY <2>1, <2>2 DEF StartupInv
  <2>. QED
    BY <1>2, <2>3 DEF StartupInv
<1>7. CASE InitializeLog
  <2>1. UNCHANGED <<settings, result>>
    BY <1>5, <1>7 DEF InitializeLog
  <2>2. StartInv'
    BY <1>7, <2>1 DEF InitializeLog, StartupInv
  <2>. QED
    BY <1>2, <2>2 DEF StartupInv
<1>8. CASE OpenDatabase
  <2>1. UNCHANGED <<settings, result>>
    BY <1>5, <1>8 DEF OpenDatabase
  <2>2. StartInv'
    BY <1>8, <2>1 DEF OpenDatabase, StartupInv
  <2>. QED
    BY <1>2, <2>2 DEF StartupInv
<1>9. CASE OpenListener
  <2>1. UNCHANGED <<settings, result>>
    BY <1>5, <1>9 DEF OpenListener
  <2>2. /\ main = "listener" /\ main' = "server" /\ UNCHANGED <<loglevel, occupied, tcp, v>>
        /\ ws' = ws \/ ws' \in FreePorts(Port(settings.wsport))
    BY <1>9 DEF OpenListener
  <2>3. ws = NoPort /\ tcp = NoPort
    BY <2>2 DEF StartupInv
  <2>4. /\ ws' \in 1 .. USHRT_MAX \cup {NoPort}
        /\ ws' = NoPort \/ (ws' \notin occupied /\ Port(settings.wsport) \in {0, ws'})
    <3>1. CASE ws' = ws
      BY <2>3, <3>1
    <3>2. CASE ws' \in FreePorts(Port(settings.wsport))
      <4>1. ws' \in 1 .. USHRT_MAX /\ ws' \notin occupied /\ Port(settings.wsport) \in {0, ws'}
        BY <1>3, <3>2, FreePortsArePorts
      <4>. QED
        BY <4>1
    <3>. QED
      BY <2>2, <3>1, <3>2
  <2>5. Port(settings.wsport)' = Port(settings.wsport)
    BY <2>1 DEF Port
  <2>6. StartInv'
    BY <2>1, <2>2, <2>3, <2>4, <2>5 DEF StartupInv
  <2>. QED
    BY <1>2, <2>6 DEF StartupInv
<1>10. CASE Serve
  <2>1. UNCHANGED <<settings, result>>
    BY <1>5, <1>10 DEF Serve
  <2>. DEFINE free == FreePorts(Port(settings.tcpport))
  <2>2. /\ main = "server" /\ UNCHANGED <<loglevel, occupied, ws, v>>
        /\ \/ main' = "terminated" /\ tcp' = tcp
           \/ main' = "reserve" /\ tcp' \in free
    BY <1>10 DEF Serve, Unbound
  <2>3. \A p \in free : /\ p \in 1 .. USHRT_MAX /\ p # NoPort /\ p \notin occupied /\ p # ws
                        /\ Port(settings.tcpport) \in {0, p}
    BY <1>3, FreePortsArePorts
  <2>. HIDE DEF free
  <2>4. Port(settings.wsport)' = Port(settings.wsport) /\ Port(settings.tcpport)' = Port(settings.tcpport)
    BY <2>1 DEF Port
  <2>5. StartInv'
    <3>1. CASE main' = "terminated" /\ tcp' = tcp
      BY <2>1, <2>2, <2>4, <3>1 DEF StartupInv
    <3>2. CASE main' = "reserve" /\ tcp' \in free
      BY <2>1, <2>2, <2>3, <2>4, <3>2 DEF StartupInv
    <3>. QED
      BY <2>2, <3>1, <3>2
  <2>. QED
    BY <1>2, <2>5 DEF StartupInv
<1>11. ASSUME UNCHANGED <<parser, loglevel, occupied, ws, tcp>>, main \in Serving \ {"serving"},
              main' \in {"spawn", "serving", "terminated"}, v' \in 0 .. USHRT_MAX,
              main' = "spawn" => v' + 1 <= settings.threads,
              main' = "serving" => v' + 1 = settings.threads
       PROVE  StartInv'
  <2>1. UNCHANGED <<settings, result>>
    BY <1>5, <1>11
  <2>2. Port(settings.wsport)' = Port(settings.wsport) /\ Port(settings.tcpport)' = Port(settings.tcpport)
    BY <2>1 DEF Port
  <2>. QED
    BY <1>11, <2>1, <2>2 DEF StartupInv
<1>12. CASE Reserve
  <2>1. v = 0 /\ v \in 0 .. USHRT_MAX
    BY <1>12 DEF Reserve, StartupInv
  <2>2. settings.threads # 0 => v + 1 <= settings.threads
    BY <1>3, <2>1
  <2>3. StartInv'
    BY <1>11, <1>12, <2>1, <2>2 DEF Reserve
  <2>. QED
    BY <1>2, <2>3 DEF StartupInv
<1>13. CASE Spawn
  <2>1. v \in 0 .. USHRT_MAX /\ v < settings.threads - 1
    BY <1>13 DEF Spawn, StartupInv
  <2>2. v + 1 \in 0 .. USHRT_MAX /\ v + 1 + 1 <= settings.threads
    BY <1>3, <2>1
  <2>3. StartInv'
    BY <1>11, <1>13, <2>1, <2>2 DEF Spawn
  <2>. QED
    BY <1>2, <2>3 DEF StartupInv
<1>14. CASE RunService
  <2>1. v \in 0 .. USHRT_MAX /\ v + 1 <= settings.threads /\ v >= settings.threads - 1
    BY <1>14 DEF RunService, StartupInv
  <2>2. v + 1 = settings.threads
    BY <1>3, <2>1
  <2>3. StartInv'
    BY <1>11, <1>14, <2>1, <2>2 DEF RunService
  <2>. QED
    BY <1>2, <2>3 DEF StartupInv
<1>15. CASE UNCHANGED startupVars
  <2>1. UNCHANGED <<settings, result, main, loglevel, occupied, ws, tcp, v>>
    BY <1>15 DEF startupVars, parser
  <2>2. StartInv'
    BY <2>1 DEF StartupInv, Port
  <2>. QED
    BY <1>2, <2>2 DEF StartupInv
<1>. QED
  BY <1>4, <1>6, <1>7, <1>8, <1>9, <1>10, <1>12, <1>13, <1>14, <1>15 DEF StartupNext

\* StartupInv is inductive.
THEOREM StartupInvariant == StartupSpec => []StartupInv
BY StartupStarts, StartupStep, PTL DEF StartupSpec

\* However a command line is spelled, it is read as the options and values it has: the
\* stream of clara hands out each token once and in order.
THEOREM ReadAsSpelled == StartupSpec => []ParsesAsSpelled
<1>1. StartupInv => ParsesAsSpelled
  BY DEF StartupInv, ParserInv
<1>. QED
  BY <1>1, StartupInvariant, PTL

\* For any command line, any databases, any ports that others hold and any errors of the
\* two acceptors: a service that runs has the database, the TCP port and the threads it
\* was told to take, and if it listens for WebSockets, does so on the port it was told to
\* and on no other socket's.
THEOREM ServesAsTold == StartupSpec => []ServesWhatItBound
<1>1. StartupInv => ServesWhatItBound
  <2>1. SUFFICES ASSUME StartupInv PROVE ServesWhatItBound
    OBVIOUS
  <2>2. StartupTypeOK
    BY <2>1 DEF StartupInv, StartInv, ParserInv, StartupTypeOK
  <2>. QED
    BY <2>1, <2>2 DEF StartupInv, StartInv, ServesWhatItBound, Serving
<1>. QED
  BY <1>1, StartupInvariant, PTL
=============================================================================
