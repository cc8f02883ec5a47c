---------------------------- MODULE QueryService ----------------------------
(***************************************************************************)
(* What one connection promises its client (README, Protocol): each query  *)
(* is answered once, with the answer to that query, in the order of the    *)
(* queries.  A client has at most Window queries under way.                *)
(***************************************************************************)
EXTENDS GeoDecoder, Selection

CONSTANT Window

VARIABLES
  asked,       \* the queries the client has sent
  answered     \* the answers it has got, without newlines

absVars == <<asked, answered>>

Trimmed(text) == Without(text, {NL})

Init == asked = <<>> /\ answered = <<>>

Ask(query) ==
  /\ Len(asked) < Len(answered) + Window
  /\ asked' = Append(asked, query)
  /\ UNCHANGED answered

Answer ==
  /\ Len(answered) < Len(asked)
  /\ answered' = Append(answered, Trimmed(Respond(asked[Len(answered) + 1])))
  /\ UNCHANGED asked

Next == (\E query \in Queries : Ask(query)) \/ Answer

Spec == Init /\ [][Next]_absVars
=============================================================================
