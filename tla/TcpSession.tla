----------------------------- MODULE TcpSession -----------------------------
(***************************************************************************)
(* One TCP connection: the session (src/server/tcp/session.cpp) reads a    *)
(* line, answers it and reads the next; the client is the one of           *)
(* test/integration/tcp.cpp, which sends a query and reads up to two       *)
(* newlines.  The network cuts what is sent anywhere.                      *)
(***************************************************************************)
EXTENDS GeoDecoder, Selection, FiniteSets

CONSTANT MaxQueries   \* bound: queries on the connection

VARIABLES
  asked,       \* the queries sent
  answered,    \* the answers execute has returned
  toServer, toClient,  \* tokens under way
  buffer,      \* Session::buffer, the readable part
  step,        \* what the session waits for: read, write, or gone
  cbuffer,     \* Connection::buffer
  open         \* the client has not closed its socket

client == <<asked, answered, cbuffer, open>>
session == <<buffer, step>>
wires == <<toServer, toClient>>
vars == <<client, session, wires>>

ASSUME SessionAssumption == MaxQueries \in Nat

Tokens ==
  {NL} \cup {Prefix(p) : p \in {"f", "l", "j"}}
  \cup {About(form, a) : form \in {"text", "json", "fields", "location"}, a \in Addresses}

\* The types, and that a session never waits to read with an answer half sent.
TypeOK ==
  /\ asked \in Seq(Queries) /\ Len(asked) <= MaxQueries
  /\ answered \in Seq(Seq(Tokens)) /\ Len(answered) <= Len(asked)
  /\ toServer \in Seq(Tokens) /\ toClient \in Seq(Tokens)
  /\ buffer \in Seq(Tokens) /\ cbuffer \in Seq(Tokens)
  /\ step \in {"read", "write", "gone"} /\ open \in BOOLEAN
  /\ step = "read" => \A i \in DOMAIN buffer : buffer[i][1] \in {"newline", "prefix", "text"}

Init ==
  /\ asked = <<>> /\ answered = <<>>
  /\ toServer = <<>> /\ toClient = <<>>
  /\ buffer = <<>> /\ cbuffer = <<>>
  /\ step = "read" /\ open = TRUE

First(n, s) == SubSeq(s, 1, n)
Rest(n, s) == SubSeq(s, n + 1, Len(s))

-----------------------------------------------------------------------------
(* The session.                                                            *)

\* async_read_until stops as soon as there is a newline in the buffer.
HasLine(s) == \E i \in DOMAIN s : s[i] = NL
LineLength(s) == CHOOSE i \in DOMAIN s : s[i] = NL /\ \A j \in 1 .. i - 1 : s[j] # NL

ReadSome ==
  /\ step = "read" /\ ~HasLine(buffer)
  /\ \E n \in 1 .. Len(toServer) :
       /\ buffer' = buffer \o First(n, toServer)
       /\ toServer' = Rest(n, toServer)
  /\ UNCHANGED <<client, step, toClient>>

\* Slip: only the line is consumed, so what doWrite committed on top and what was
\* read behind it goes out in front of the response.
KeptBehindLine(s, length) == Rest(length, s)

\* buffer.consume( buffer.size() )
Kept(s, length) == <<>>

\* doWrite: commit makes up to length more bytes readable behind the line, whatever
\* they are; the query is the line; all of the buffer makes way for the response.
DoWrite ==
  /\ step = "read" /\ HasLine(buffer)
  /\ LET length == LineLength(buffer)
         query == Without(First(length, buffer), {NL})
     IN  \E junk \in 0 .. length :
           LET committed == buffer \o First(junk, buffer)
           IN  buffer' = Kept(committed, length) \o Respond(query) \o <<NL, NL>>
  /\ step' = "write"
  /\ UNCHANGED <<client, wires>>

WriteSome ==
  /\ step = "write"
  /\ \E n \in 1 .. Len(buffer) :
       /\ toClient' = toClient \o First(n, buffer)
       /\ buffer' = Rest(n, buffer)
  /\ UNCHANGED <<client, step, toServer>>

DoReadFrom(done, left) ==
  /\ step = "write" /\ done
  /\ buffer' = left /\ step' = "read"
  /\ UNCHANGED <<client, wires>>

\* Slips: the next read is started along with the write; and the buffer is not cleared
\* for it.
DoReadEarly == DoReadFrom(TRUE, <<>>)
DoReadUncleared == DoReadFrom(TRUE, buffer)

\* async_write has sent all of the buffer; doRead clears it.
DoRead == DoReadFrom(buffer = <<>>, <<>>)

\* An operation fails when the client has closed the socket: no handler refers to the
\* session any more.
End ==
  /\ ~open /\ step # "gone"
  /\ step' = "gone"
  /\ UNCHANGED <<buffer, client, wires>>

-----------------------------------------------------------------------------
(* The client.                                                             *)

Ask(query) ==
  /\ open /\ Len(asked) < MaxQueries /\ Len(asked) = Len(answered)
  /\ asked' = Append(asked, query)
  /\ toServer' = toServer \o query \o <<NL>>
  /\ UNCHANGED <<answered, cbuffer, open, session, toClient>>

\* The length of the shortest beginning that ends with two newlines.
Ends(s) == {i \in 2 .. Len(s) : s[i - 1] = NL /\ s[i] = NL}
ResponseLength(s) == CHOOSE i \in Ends(s) : \A j \in Ends(s) : i <= j

Receive ==
  /\ open /\ Len(answered) < Len(asked) /\ Ends(cbuffer) = {}
  /\ \E n \in 1 .. Len(toClient) :
       /\ cbuffer' = cbuffer \o First(n, toClient)
       /\ toClient' = Rest(n, toClient)
  /\ UNCHANGED <<asked, answered, open, session, toServer>>

Return ==
  /\ open /\ Len(answered) < Len(asked) /\ Ends(cbuffer) # {}
  /\ LET length == ResponseLength(cbuffer)
     IN  /\ answered' = Append(answered, Without(First(length, cbuffer), {NL}))
         /\ cbuffer' = <<>>
  /\ UNCHANGED <<asked, open, session, wires>>

Close ==
  /\ open
  /\ open' = FALSE
  /\ UNCHANGED <<asked, answered, cbuffer, session, wires>>

Handle == ReadSome \/ DoWrite \/ WriteSome \/ DoRead \/ End
Execute == Receive \/ Return

Next == Handle \/ Execute \/ (\E query \in Queries : Ask(query)) \/ Close

Spec == Init /\ [][Next]_vars

\* The network delivers, the I/O threads run handlers that are ready, and execute
\* blocks until it has the answer.
FairSpec == Spec /\ WF_vars(Handle) /\ WF_vars(Execute)

-----------------------------------------------------------------------------
(* Properties.                                                             *)

\* However the network cuts the stream, and although the response to f: has more
\* newlines than the client waits for, execute returns the answer to its own query.
Abstract == INSTANCE QueryService WITH Window <- 1
ImplementsQueryService == Abstract!Spec

\* Every query of a client that stays gets its answer.
EveryQueryAnswered ==
  \A n \in 1 .. MaxQueries : Len(asked) >= n ~> (Len(answered) >= n \/ ~open)

=============================================================================
