------------------------------ MODULE Startup -------------------------------
(***************************************************************************)
(* From the command line to a service that runs: main (src/main.cpp) and   *)
(* the first half of spt::server::run (src/server/server.cpp), with the    *)
(* constructors it calls: GeoDecoder's, the WebSocket listener's, the TCP  *)
(* server's and the threads'.  Nobody catches what these throw, which ends *)
(* the process; the listener reports its errors and goes on.  Both may     *)
(* fail for reasons of their own (no descriptor is left, the port is one   *)
(* for the superuser), and do where another socket listens on the port.    *)
(***************************************************************************)
EXTENDS CommandLine, FiniteSets

CONSTANTS
  Databases,   \* the files that are databases
  Ephemeral,   \* the ports the system gives out for port 0
  NoPort,      \* the acceptor is not bound
  MaxThreads   \* as many threads as the system can start

ASSUME StartupAssumption == Ephemeral \subseteq 1 .. USHRT_MAX /\ NoPort \notin 0 .. USHRT_MAX

VARIABLES
  main,        \* what main does next, or how it has ended
  loglevel,    \* nanolog::loglevel, 0 (DEBUG) to begin with
  occupied,    \* the ports others listen on when the service comes to bind
  ws, tcp,     \* the ports the two acceptors listen on
  v            \* how many threads were started

startupVars == <<parser, main, loglevel, occupied, ws, tcp, v>>

Steps == {"parse", "level", "initialize", "database", "listener", "server", "reserve", "spawn"}
Ended == {"serving", "exit", "terminated"}

StartupTypeOK ==
  /\ ParserTypeOK
  /\ main \in Steps \cup Ended /\ loglevel \in 0 .. 3 /\ v \in 0 .. USHRT_MAX
  /\ {ws, tcp} \subseteq 1 .. USHRT_MAX \cup {NoPort}

StartupInit ==
  /\ ParserInit
  /\ main = "parse" /\ loglevel = 0
  /\ occupied = {}
  /\ ws = NoPort /\ tcp = NoPort /\ v = 0

-----------------------------------------------------------------------------
(* main                                                                    *)

ParseArgs ==
  /\ main = "parse" /\ Parse
  /\ main' = CASE result' = "parsing" -> "parse" [] result' = "ok" -> "level" [] OTHER -> "exit"
  /\ UNCHANGED <<loglevel, occupied, ws, tcp, v>>

Levels == [debug |-> 0, info |-> 1, warn |-> 2, critical |-> 3]

\* A name that is none of the four leaves the level as it was.
SetLevel ==
  /\ main = "level"
  /\ loglevel' = IF settings.logLevel \in {Word(l) : l \in DOMAIN Levels}
                 THEN Levels[settings.logLevel[2]] ELSE loglevel
  /\ main' = "initialize"
  /\ UNCHANGED <<parser, occupied, ws, tcp, v>>

\* The logger is made, also where its directory is not there.
InitializeLog ==
  /\ main = "initialize"
  /\ main' = "database"
  /\ UNCHANGED <<parser, loglevel, occupied, ws, tcp, v>>

-----------------------------------------------------------------------------
(* spt::server::run                                                        *)

\* The ports a bind to port may get: those of a cast to 16 bits, for 0 any.
Port(setting) == setting % (USHRT_MAX + 1)
Ports(port) == IF port = 0 THEN Ephemeral ELSE {port}
FreePorts(port) == Ports(port) \ (occupied \cup {ws, tcp})

\* GeoDecoder::instance with the one file it will ever have; whatever else runs on
\* the machine has its ports by now, any of those the service will ask for.
OpenDatabase ==
  /\ main = "database"
  /\ main' = IF settings.file \in Databases THEN "listener" ELSE "terminated"
  /\ occupied' \in SUBSET (Ports(Port(settings.wsport)) \cup Ports(Port(settings.tcpport)))
  /\ UNCHANGED <<parser, loglevel, ws, tcp, v>>

\* websocket::listen: the constructor of the listener opens, sets an option, binds and
\* listens, and returns at the first error, whatever that is, with nothing that listens.
OpenListener ==
  /\ main = "listener"
  /\ UNCHANGED ws \/ ws' \in FreePorts(Port(settings.wsport))
  /\ main' = "server"
  /\ UNCHANGED <<parser, loglevel, occupied, tcp, v>>

\* Slip: the error of the acceptor is not looked at.
UnboundIgnored == "reserve"

\* What becomes of a TCP server that cannot listen.
Unbound == "terminated"

\* Server::Server: the acceptor's constructor throws at any error.
Serve ==
  /\ main = "server"
  /\ \/ main' = Unbound /\ UNCHANGED tcp
     \/ main' = "reserve" /\ tcp' \in FreePorts(Port(settings.tcpport))
  /\ UNCHANGED <<parser, loglevel, occupied, ws, v>>

\* Threads - 1 is an int, and reserve takes a size_t.
Reserve ==
  /\ main = "reserve"
  /\ main' = IF settings.threads = 0 THEN "terminated" ELSE "spawn"
  /\ UNCHANGED <<parser, loglevel, occupied, ws, tcp, v>>

\* A thread the system cannot start is an exception, too.
Spawn ==
  /\ main = "spawn" /\ v < settings.threads - 1
  /\ IF v < MaxThreads THEN v' = v + 1 /\ main' = main ELSE main' = "terminated" /\ v' = v
  /\ UNCHANGED <<parser, loglevel, occupied, ws, tcp>>

\* "HTTP service started on port", and main runs the io_context too.
RunService ==
  /\ main = "spawn" /\ v >= settings.threads - 1
  /\ main' = "serving"
  /\ UNCHANGED <<parser, loglevel, occupied, ws, tcp, v>>

StartupNext ==
  \/ ParseArgs \/ SetLevel \/ InitializeLog
  \/ OpenDatabase \/ OpenListener \/ Serve \/ Reserve \/ Spawn \/ RunService

StartupSpec == StartupInit /\ [][StartupNext]_startupVars

-----------------------------------------------------------------------------
(* Properties.                                                             *)

\* A service that runs has opened the database, listens on the TCP port it was told to
\* and runs on as many threads as it was told to: the constructors of run() let nothing
\* else through.  Where it listens for WebSockets, too, that is the port it was told to
\* and no other's, the TCP server's included, although both may be given the same number.
ServesWhatItBound ==
  /\ StartupTypeOK
  /\ main = "serving" =>
       /\ result = "ok" /\ settings.file \in Databases
       /\ tcp \notin occupied \cup {ws, NoPort} /\ Port(settings.tcpport) \in {0, tcp}
       /\ ws # NoPort => ws \notin occupied /\ Port(settings.wsport) \in {0, ws}
       /\ v + 1 = settings.threads
=============================================================================
