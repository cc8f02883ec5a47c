-------------------------- MODULE WebSocketSession --------------------------
(***************************************************************************)
(* One WebSocket connection (internal::session in                          *)
(* src/server/websocket/listener.cpp): a stackless coroutine accepts the   *)
(* handshake, then reads a message, answers it and writes the answer.      *)
(* Beast and the network hand over whole messages, or an error after which *)
(* the stream can be used no more.                                         *)
(***************************************************************************)
EXTENDS GeoDecoder, Selection

CONSTANTS
  Window,      \* messages a client may have under way
  MaxMessages  \* bound: messages on the connection

ASSUME WebSocketAssumption == Window \in Nat \ {0} /\ MaxMessages \in Nat

VARIABLES
  messages,    \* the messages the client has sent
  answers,     \* the messages it has received
  incoming, outgoing,    \* messages under way
  place,       \* where the coroutine is: accept, read, respond, write, gone
  failed,      \* the stream has failed or was closed
  buffer_, response,
  connected    \* the client has not closed

peer == <<messages, answers, connected>>
coroutine == <<place, failed, buffer_, response>>
frames == <<incoming, outgoing>>
webSocketVars == <<peer, coroutine, frames>>

\* The types, and that nothing is read from a stream that has failed.
WebSocketTypeOK ==
  /\ messages \in Seq(Queries) /\ Len(messages) <= MaxMessages
  /\ Len(answers) <= Len(messages)
  /\ incoming \in Seq(Queries)
  /\ place \in {"accept", "read", "respond", "write", "gone"}
  /\ failed \in BOOLEAN /\ connected \in BOOLEAN
  /\ failed => place \in {"respond", "write", "gone"}

WebSocketInit ==
  /\ messages = <<>> /\ answers = <<>>
  /\ incoming = <<>> /\ outgoing = <<>>
  /\ place = "accept" /\ failed = FALSE
  /\ buffer_ = <<>> /\ response = <<>>
  /\ connected = TRUE

-----------------------------------------------------------------------------
(* session::loop                                                           *)

Accept ==
  /\ place = "accept" /\ connected
  /\ place' = "read"
  /\ UNCHANGED <<failed, buffer_, response, peer, frames>>

\* async_read appends the message to the buffer.
Read ==
  /\ place = "read" /\ incoming # <<>>
  /\ buffer_' = buffer_ \o Head(incoming)
  /\ incoming' = Tail(incoming)
  /\ place' = "respond"
  /\ UNCHANGED <<failed, response, peer, outgoing>>

\* A read fails, with nothing or a part of the message in the buffer.
ReadFailsTo(next) ==
  /\ place = "read" /\ ~connected
  /\ failed' = TRUE
  /\ place' = next
  /\ \/ UNCHANGED buffer_
     \/ incoming # <<>> /\ buffer_' = buffer_ \o Head(incoming)
  /\ UNCHANGED <<response, peer, frames>>

\* Slip: the coroutine goes back to the read.
ReadFailsRetried == ReadFailsTo("read")

\* An error other than closed is reported, and the loop goes on to answer what is
\* in the buffer.
ReadFails == ReadFailsTo("respond")

\* The handshake fails, or the client has closed the stream.
Closed ==
  /\ place \in {"accept", "read"} /\ ~connected
  /\ place' = "gone"
  /\ UNCHANGED <<failed, buffer_, response, peer, frames>>

Answer ==
  /\ place = "respond"
  /\ response' = Respond(buffer_)
  /\ place' = "write"
  /\ UNCHANGED <<failed, buffer_, peer, frames>>

WriteTo(next, left) ==
  /\ place = "write" /\ ~failed
  /\ outgoing' = Append(outgoing, response)
  /\ buffer_' = left
  /\ place' = next
  /\ UNCHANGED <<failed, response, peer, incoming>>

\* Slips: the buffer is not cleared; the coroutine returns after the first answer.
WriteKeepsBuffer == WriteTo("read", buffer_)
WriteOnce == WriteTo("gone", <<>>)

Write == WriteTo("read", <<>>)

\* A write on a stream that has failed, or that the client has closed, fails too.
WriteFailsTo(next) ==
  /\ place = "write" /\ (failed \/ ~connected)
  /\ place' = next
  /\ UNCHANGED <<failed, buffer_, response, peer, frames>>

\* Slip: the answer is tried again.
WriteFailsRetried == WriteFailsTo("respond")

WriteFails == WriteFailsTo("gone")

Loop == Accept \/ Read \/ ReadFails \/ Closed \/ Answer \/ Write \/ WriteFails

-----------------------------------------------------------------------------
(* The client.                                                             *)

Send(query) ==
  /\ connected /\ place # "accept"
  /\ Len(messages) < MaxMessages /\ Len(messages) < Len(answers) + Window
  /\ messages' = Append(messages, query)
  /\ incoming' = Append(incoming, query)
  /\ UNCHANGED <<answers, connected, coroutine, outgoing>>

ReceiveAnswer ==
  /\ connected /\ outgoing # <<>>
  /\ answers' = Append(answers, Head(outgoing))
  /\ outgoing' = Tail(outgoing)
  /\ UNCHANGED <<messages, connected, coroutine, incoming>>

\* The client closes, or is gone and the timeouts of the stream drop it.
CloseStream ==
  /\ connected
  /\ connected' = FALSE
  /\ UNCHANGED <<messages, answers, coroutine, frames>>

WebSocketNext == Loop \/ ReceiveAnswer \/ (\E query \in Queries : Send(query)) \/ CloseStream

WebSocketSpec == WebSocketInit /\ [][WebSocketNext]_webSocketVars

WebSocketFairSpec == WebSocketSpec /\ WF_webSocketVars(Loop) /\ WF_webSocketVars(ReceiveAnswer)

-----------------------------------------------------------------------------
(* Properties.                                                             *)

\* Queries may be sent ahead: each message gets its own answer, in order, and a read
\* that fails never puts an answer of its own in between.
WithoutNewlines(text) == Without(text, {NL})
AbstractMessages == INSTANCE QueryService WITH
  asked <- messages,
  answered <- [i \in DOMAIN answers |-> WithoutNewlines(answers[i])]
MessagesImplementQueryService == AbstractMessages!Spec

\* Every message of a client that stays gets its answer.
EveryMessageAnswered ==
  \A n \in 1 .. MaxMessages : Len(messages) >= n ~> (Len(answers) >= n \/ ~connected)

\* When the client is gone, the coroutine comes to its end and the session with it.
SessionEnds == ~connected ~> place = "gone"
=============================================================================
