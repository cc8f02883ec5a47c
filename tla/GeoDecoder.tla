----------------------------- MODULE GeoDecoder -----------------------------
(***************************************************************************)
(* What the service answers to a query: the dispatch on the prefix that    *)
(* the TCP and the WebSocket session share word for word, and GeoDecoder   *)
(* (src/server/decoder.cpp) in front of the database.  A query and a       *)
(* response are sequences of tokens: a newline, a prefix, an address, or   *)
(* what the database has on an address.                                    *)
(***************************************************************************)
EXTENDS Sequences

CONSTANTS
  Known,       \* the addresses the database can look up
  Unknown      \* what else may be sent where an address is expected

Addresses == Known \cup Unknown

NL == <<"newline", "">>
Prefix(p) == <<"prefix", p>>
Text(a) == <<"text", a>>
About(form, a) == <<form, a>>

\* The query of a client for one address, with or without a prefix, or nothing.
Queries ==
  {<<>>} \cup {<<Text(a)>> : a \in Addresses}
  \cup {<<Prefix(p), Text(a)>> : p \in {"f", "l", "j"}, a \in Addresses}

IsKnown(ip) == \E a \in Known : ip = <<Text(a)>>

\* The database throws for what it cannot look up, and the address is echoed.
Found(form, ip) == <<About(form, ip[1][2])>>

Lookup(ip) == IF IsKnown(ip) THEN Found("json", ip) ELSE ip

\* Each field ends with a newline.
Fields(ip) == IF IsKnown(ip) THEN Found("fields", ip) \o <<NL>> ELSE ip

Location(ip) == IF IsKnown(ip) THEN Found("location", ip) ELSE ip

\* A query of less than two characters is echoed.
Respond(query) ==
  CASE query = <<>> -> query
    [] query # <<>> /\ Head(query) = Prefix("f") -> Fields(Tail(query))
    [] query # <<>> /\ Head(query) = Prefix("l") -> Location(Tail(query))
    [] query # <<>> /\ Head(query) = Prefix("j") -> Lookup(Tail(query))
    [] OTHER -> Lookup(query)
=============================================================================
