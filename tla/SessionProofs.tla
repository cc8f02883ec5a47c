---------------------------- MODULE SessionProofs ----------------------------
(***************************************************************************)
(* Proofs about one connection, for any number of queries, of any          *)
(* addresses: the TCP session and the WebSocket session answer as          *)
(* QueryService does.  What is asked, under way and answered is one        *)
(* pipeline, and the invariants say what is in it at every place.          *)
(* The two sessions are two systems, and no theorem is about both.         *)
(***************************************************************************)
EXTENDS TcpSession, WebSocketSession, SequenceLemmas

-----------------------------------------------------------------------------
(* The TCP session.                                                        *)

\* What a client sends.
Sent == {NL} \cup {Text(a) : a \in Addresses} \cup {Prefix(p) : p \in {"f", "l", "j"}}

\* What is on its way to the session, and what is on its way to the client.
Up == (IF step = "read" THEN buffer ELSE <<>>) \o toServer
Down == (cbuffer \o toClient) \o (IF step = "write" THEN buffer ELSE <<>>)

\* A response may have one newline more than the client reads, and not two.
Leftovers == {<<>>, <<NL>>}

TcpTyped ==
  /\ asked \in Seq(Queries) /\ Len(asked) <= MaxQueries
  /\ answered \in Seq(Seq(Tokens)) /\ Len(answered) <= Len(asked) /\ Len(asked) <= Len(answered) + 1
  /\ toServer \in Seq(Sent) /\ toClient \in Seq(Tokens)
  /\ buffer \in Seq(Tokens) /\ cbuffer \in Seq(Tokens)
  /\ step \in {"read", "write", "gone"} /\ open \in BOOLEAN
  /\ step = "read" => buffer \in Seq(Sent)
  /\ step = "gone" => ~open

\* A client that has its answers finds at most a newline; the query it waits for is on
\* its way to the session, or the answer to it on the way back.
Idle == Up = <<>> /\ cbuffer = <<>> /\ Down \in Leftovers
Waiting(query) ==
  \/ Up = query \o <<NL>> /\ Down \in Leftovers
  \/ Up = <<>> /\ \E left \in Leftovers : Down = left \o (Respond(query) \o <<NL, NL>>)

LineInv ==
  open => IF Len(asked) = Len(answered) THEN Idle ELSE Waiting(asked[Len(asked)])

\* Tokens are what is sent, what is echoed, and what is found.
LEMMA SentAreTokens == Sent \subseteq Tokens /\ NL \in Sent /\ Seq(Sent) \subseteq Seq(Tokens)
<1>1. Sent \subseteq Tokens /\ NL \in Sent
  BY DEF Sent, Tokens, Text, About
<1>. QED
  BY <1>1

\* What is cut in two is what it was.
LEMMA Cut ==
  ASSUME NEW A, NEW s \in Seq(A), NEW n \in 0 .. Len(s)
  PROVE  /\ First(n, s) \in Seq(A) /\ Len(First(n, s)) = n
         /\ \A i \in 1 .. n : First(n, s)[i] = s[i]
         /\ Rest(n, s) \in Seq(A) /\ Len(Rest(n, s)) = Len(s) - n
         /\ First(n, s) \o Rest(n, s) = s
<1>1. Len(s) \in Nat /\ n \in Nat /\ n <= Len(s) /\ \A i \in 1 .. Len(s) : s[i] \in A
  BY LenProperties, ElementOfSeq
<1>2. First(n, s) \in Seq(A) /\ Len(First(n, s)) = n /\ \A i \in 1 .. n : First(n, s)[i] = s[i]
  <2>1. \A i \in 1 .. n : s[i] \in A
    BY <1>1
  <2>. QED
    BY <1>1, <2>1, SubSeqProperties DEF First
<1>3. Rest(n, s) \in Seq(A) /\ Len(Rest(n, s)) = Len(s) - n
  <2>1. \A i \in n + 1 .. Len(s) : s[i] \in A
    BY <1>1
  <2>. QED
    BY <1>1, <2>1, SubSeqProperties DEF Rest
<1>4. First(n, s) \o Rest(n, s) = SubSeq(s, 1, Len(s))
  <2>1. 1 \in 1 .. Len(s) + 1 /\ n \in 1 - 1 .. Len(s) /\ Len(s) \in n .. Len(s)
    BY <1>1
  <2>. QED
    BY <2>1, ConcatAdjacentSubSeq DEF First, Rest
<1>. QED
  BY <1>2, <1>3, <1>4, SubSeqFull

\* A query has no newline, and no more than two tokens.
LEMMA QueryShape ==
  ASSUME NEW query \in Queries
  PROVE  /\ query \in Seq(Sent) /\ Len(query) \in Nat
         /\ \A i \in 1 .. Len(query) : query[i] # NL
         /\ \/ query = <<>>
            \/ \E a \in Addresses : query = <<Text(a)>>
            \/ \E a \in Addresses, p \in {"f", "l", "j"} : query = <<Prefix(p), Text(a)>>
<1>0. \A a \in Addresses, p \in {"f", "l", "j"} :
        /\ Text(a) \in Sent /\ Prefix(p) \in Sent /\ Text(a) # NL /\ Prefix(p) # NL
  BY DEF Sent, Text, Prefix, NL
<1>1. CASE query = <<>>
  BY <1>1
<1>2. ASSUME NEW a \in Addresses, query = <<Text(a)>>
      PROVE  query \in Seq(Sent) /\ Len(query) \in Nat /\ \A i \in 1 .. Len(query) : query[i] # NL
  <2>. DEFINE x == Text(a)
  <2>1. x \in Sent /\ x # NL /\ query = <<x>>
    BY <1>0, <1>2
  <2>. HIDE DEF x
  <2>2. query \in Seq(Sent) /\ Len(query) = 1 /\ query[1] = x
    BY <2>1
  <2>. QED
    BY <2>1, <2>2
<1>3. ASSUME NEW a \in Addresses, NEW p \in {"f", "l", "j"}, query = <<Prefix(p), Text(a)>>
      PROVE  query \in Seq(Sent) /\ Len(query) \in Nat /\ \A i \in 1 .. Len(query) : query[i] # NL
  <2>. DEFINE x == Prefix(p)
              y == Text(a)
  <2>1. x \in Sent /\ y \in Sent /\ x # NL /\ y # NL /\ query = <<x, y>>
    BY <1>0, <1>3
  <2>. HIDE DEF x, y
  <2>2. query \in Seq(Sent) /\ Len(query) = 2 /\ query[1] = x /\ query[2] = y
    BY <2>1
  <2>3. \A i \in 1 .. 2 : i = 1 \/ i = 2
    OBVIOUS
  <2>. QED
    BY <2>1, <2>2, <2>3
<1>4. \/ query = <<>>
      \/ \E a \in Addresses : query = <<Text(a)>>
      \/ \E a \in Addresses, p \in {"f", "l", "j"} : query = <<Prefix(p), Text(a)>>
  BY DEF Queries
<1>. QED
  BY <1>1, <1>2, <1>3, <1>4

\* An answer is nothing, or one token, with a newline behind it or not.
LEMMA ResponseShape ==
  ASSUME NEW query \in Queries
  PROVE  \/ Respond(query) = <<>>
         \/ \E x \in Tokens : x # NL /\ (Respond(query) = <<x>> \/ Respond(query) = <<x, NL>>)
<1>1. ASSUME NEW a \in Addresses, NEW form \in {"json", "fields", "location"}
      PROVE  /\ Text(a) \in Tokens /\ About(form, a) \in Tokens /\ Text(a) # NL /\ About(form, a) # NL
  <2>1. \A f \in {"text", "json", "fields", "location"} : About(f, a) \in Tokens
    BY DEF Tokens
  <2>2. Text(a) = About("text", a)
    BY DEF Text, About
  <2>3. \A f \in {"text", "json", "fields", "location"} : About(f, a) # NL
    BY DEF About, NL
  <2>. QED
    BY <2>1, <2>2, <2>3
<1>2. ASSUME NEW a \in Addresses
      PROVE  LET ip == <<Text(a)>>
             IN  /\ Lookup(ip) = <<Text(a)>> \/ Lookup(ip) = <<About("json", a)>>
                 /\ Location(ip) = <<Text(a)>> \/ Location(ip) = <<About("location", a)>>
                 /\ Fields(ip) = <<Text(a)>> \/ Fields(ip) = <<About("fields", a), NL>>
  <2>. DEFINE ip == <<Text(a)>>
  <2>1. ip[1][2] = a
    BY DEF Text
  <2>2. \A form : Found(form, ip) = <<About(form, a)>>
    BY <2>1 DEF Found
  <2>3. Found("fields", ip) \o <<NL>> = <<About("fields", a), NL>>
    BY <2>2, Pair
  <2>. HIDE DEF ip
  <2>4. /\ Lookup(ip) = ip \/ Lookup(ip) = <<About("json", a)>>
        /\ Location(ip) = ip \/ Location(ip) = <<About("location", a)>>
        /\ Fields(ip) = ip \/ Fields(ip) = <<About("fields", a), NL>>
    BY <2>2, <2>3 DEF Lookup, Location, Fields
  <2>. QED
    BY <2>4 DEF ip
<1>3. CASE query = <<>>
  BY <1>3 DEF Respond
<1>4. ASSUME NEW a \in Addresses, query = <<Text(a)>>
      PROVE  \E x \in Tokens : x # NL /\ (Respond(query) = <<x>> \/ Respond(query) = <<x, NL>>)
  <2>1. query # <<>> /\ Head(query) = Text(a) /\ \A p : Head(query) # Prefix(p)
    BY <1>4 DEF Text, Prefix
  <2>2. Respond(query) = Lookup(query)
    BY <2>1 DEF Respond
  <2>. QED
    BY <1>1, <1>2, <1>4, <2>2
<1>5. ASSUME NEW a \in Addresses, NEW p \in {"f", "l", "j"}, query = <<Prefix(p), Text(a)>>
      PROVE  \E x \in Tokens : x # NL /\ (Respond(query) = <<x>> \/ Respond(query) = <<x, NL>>)
  <2>1. query # <<>> /\ Head(query) = Prefix(p) /\ Tail(query) = <<Text(a)>>
    BY <1>5
  <2>2. \A o : Prefix(p) = Prefix(o) => p = o
    BY DEF Prefix
  <2>3. CASE p = "f"
    <3>1. Respond(query) = Fields(<<Text(a)>>)
      BY <2>1, <2>2, <2>3 DEF Respond
    <3>. QED
      BY <1>1, <1>2, <3>1
  <2>4. CASE p = "l"
    <3>1. Respond(query) = Location(<<Text(a)>>)
      BY <2>1, <2>2, <2>4 DEF Respond
    <3>. QED
      BY <1>1, <1>2, <3>1
  <2>5. CASE p = "j"
    <3>1. Respond(query) = Lookup(<<Text(a)>>)
      BY <2>1, <2>2, <2>5 DEF Respond
    <3>. QED
      BY <1>1, <1>2, <3>1
  <2>. QED
    BY <2>3, <2>4, <2>5
<1>. QED
  BY <1>3, <1>4, <1>5, QueryShape

\* Whatever a client sends, the answer is a sequence of tokens.
LEMMA ResponseTyped ==
  ASSUME NEW query \in Seq(Sent)
  PROVE  Respond(query) \in Seq(Tokens)
<1>1. \A ip \in Seq(Sent) : ip \in Seq(Tokens)
  BY SentAreTokens
<1>2. ASSUME NEW ip \in Seq(Sent)
      PROVE  Lookup(ip) \in Seq(Tokens) /\ Location(ip) \in Seq(Tokens) /\ Fields(ip) \in Seq(Tokens)
  <2>1. CASE ~IsKnown(ip)
    BY <1>1, <2>1 DEF Lookup, Location, Fields
  <2>2. CASE IsKnown(ip)
    <3>1. PICK a \in Known : ip = <<Text(a)>>
      BY <2>2 DEF IsKnown
    <3>2. \A form \in {"json", "fields", "location"} : About(form, a) \in Tokens
      BY DEF Tokens, Addresses
    <3>3. ip[1][2] = a
      BY <3>1 DEF Text
    <3>4. NL \in Tokens
      BY SentAreTokens
    <3>. QED
      BY <2>2, <3>2, <3>3, <3>4 DEF Lookup, Location, Fields, Found
  <2>. QED
    BY <2>1, <2>2
<1>3. query # <<>> => Tail(query) \in Seq(Sent)
  OBVIOUS
<1>. QED
  BY <1>1, <1>2, <1>3 DEF Respond

-----------------------------------------------------------------------------
(* What the client makes of what it reads.                                 *)

\* A response on the line: newlines, and at most one token that is none, near the
\* beginning and with two or three newlines behind it.
Frame(line, p) ==
  /\ p \in 0 .. 2
  /\ line \in Seq(Tokens)
  /\ Len(line) = p + 2 \/ Len(line) = p + 3
  /\ AllBut(line, {NL}, p)

\* Whatever of it has been received: two newlines in a row are behind the token, the
\* text up to them is the response, and no more than a newline is left of it.
LEMMA ReturnsResponse ==
  ASSUME NEW c \in Seq(Tokens), NEW t \in Seq(Tokens), NEW p, Frame(c \o t, p), Ends(c) # {}
  PROVE  /\ Without(First(ResponseLength(c), c), {NL}) = IF p = 0 THEN <<>> ELSE <<(c \o t)[p]>>
         /\ t \in Leftovers
<1>. DEFINE line == c \o t
            n == Len(c)
            m == Len(t)
            l == Len(line)
<1>1. /\ n \in Nat /\ m \in Nat /\ p \in 0 .. 2 /\ l = n + m
      /\ \A i \in 1 .. n : line[i] = c[i]
      /\ \A i \in n + 1 .. l : line[i] = t[i - n]
      /\ l = p + 2 \/ l = p + 3
      /\ \A i \in 1 .. l : line[i] = NL <=> i # p
  <2>1. n \in Nat /\ m \in Nat
    BY LenProperties
  <2>2. /\ l = n + m
        /\ \A i \in 1 .. n + m : line[i] = IF i <= n THEN c[i] ELSE t[i - n]
    BY ConcatProperties
  <2>3. /\ p \in 0 .. 2 /\ (l = p + 2 \/ l = p + 3)
        /\ \A i \in 1 .. l : line[i] \in {NL} <=> i # p
    BY DEF Frame, AllBut
  <2>. HIDE DEF line, n, m, l
  <2>4. \A i \in 1 .. n : i \in 1 .. n + m /\ i <= n
    BY <2>1
  <2>5. \A i \in n + 1 .. l : i \in 1 .. n + m /\ ~(i <= n)
    BY <2>1, <2>2
  <2>. QED
    BY <2>1, <2>2, <2>3, <2>4, <2>5
<1>. HIDE DEF line, l, m
<1>2. \A i \in 1 .. n : c[i] = NL <=> i # p
  <2>1. \A i \in 1 .. n : i \in 1 .. l
    BY <1>1 DEF n
  <2>. QED
    BY <1>1, <2>1
<1>3. \A i : i \in Ends(c) <=> i \in 2 .. n /\ i - 1 # p /\ i # p
  <2>1. \A i \in 2 .. n : i \in 1 .. n /\ i - 1 \in 1 .. n
    BY <1>1
  <2>. QED
    BY <1>2, <2>1 DEF Ends
<1>. HIDE DEF n
<1>4. \A i \in Ends(c) : p + 2 <= i /\ i <= n
  BY <1>1, <1>3
<1>5. p + 2 \in Ends(c) /\ p + 2 <= n
  <2>1. p + 2 <= n
    <3>1. PICK i : i \in Ends(c)
      OBVIOUS
    <3>2. p + 2 <= i /\ i <= n /\ i \in 2 .. n
      BY <1>3, <1>4, <3>1
    <3>. QED
      BY <1>1, <3>2
  <2>2. p + 2 \in 2 .. n /\ (p + 2) - 1 # p /\ p + 2 # p
    BY <1>1, <2>1
  <2>. QED
    BY <1>3, <2>1, <2>2
<1>6. ResponseLength(c) = p + 2
  <2>1. \A i \in Ends(c) : (\A j \in Ends(c) : i <= j) <=> i = p + 2
    BY <1>1, <1>3, <1>4, <1>5
  <2>. QED
    BY <1>5, <2>1 DEF ResponseLength
<1>7. Without(First(p + 2, c), {NL}) = IF p = 0 THEN <<>> ELSE <<line[p]>>
  <2>. DEFINE s == First(p + 2, c)
              q == p + 2
  <2>1. q \in 0 .. Len(c)
    BY <1>1, <1>5 DEF n
  <2>2. s \in Seq(Tokens) /\ Len(s) = q /\ \A i \in 1 .. q : s[i] = c[i]
    <3>. HIDE DEF q
    <3>1. /\ First(q, c) \in Seq(Tokens) /\ Len(First(q, c)) = q
          /\ \A i \in 1 .. q : First(q, c)[i] = c[i]
      BY <2>1, Cut
    <3>. QED
      BY <3>1 DEF q
  <2>3. \A i \in 1 .. q : i \in 1 .. n
    BY <1>1, <1>5
  <2>. HIDE DEF s
  <2>4. AllBut(s, {NL}, p) /\ p \in 0 .. Len(s)
    <3>1. \A i \in 1 .. q : s[i] \in {NL} <=> i # p
      BY <1>2, <2>2, <2>3
    <3>2. p \in 0 .. q
      BY <1>1
    <3>. QED
      BY <2>2, <3>1, <3>2 DEF AllBut
  <2>5. Without(s, {NL}) = IF p = 0 THEN <<>> ELSE <<s[p]>>
    BY <2>2, <2>4, WithoutAllBut
  <2>6. p # 0 => s[p] = line[p]
    <3>1. p # 0 => p \in 1 .. q /\ p \in 1 .. n
      BY <1>1, <1>5
    <3>. QED
      BY <1>1, <2>2, <3>1
  <2>. QED
    BY <2>5, <2>6 DEF s
<1>8. t \in Leftovers
  <2>1. CASE m = 0
    BY <2>1, EmptySeq DEF m, Leftovers
  <2>2. CASE m # 0
    <3>1. m = 1 /\ n + 1 \in n + 1 .. l /\ n + 1 \in 1 .. l /\ n + 1 # p /\ (n + 1) - n = 1
      BY <1>1, <1>5, <2>2
    <3>2. t[1] = NL
      BY <1>1, <3>1
    <3>3. Len(t) = 1
      BY <3>1 DEF m
    <3>4. t = <<NL>>
      <4>. DEFINE x == NL
      <4>1. t[1] = x /\ x \in Tokens
        BY <3>2, SentAreTokens
      <4>. HIDE DEF x
      <4>2. <<x>> \in Seq(Tokens) /\ Len(<<x>>) = 1 /\ <<x>>[1] = x
        BY <4>1
      <4>3. \A i \in 1 .. 1 : i = 1
        OBVIOUS
      <4>4. t = <<x>>
        BY <3>3, <4>1, <4>2, <4>3, SeqEqual
      <4>. QED
        BY <4>4 DEF x
    <3>. QED
      BY <3>4 DEF Leftovers
  <2>. QED
    BY <2>1, <2>2
<1>. QED
  BY <1>6, <1>7, <1>8 DEF line

\* What the session sends for a query, with what may be left of the answer before in
\* front: the client makes the answer of it.
LEMMA ResponseFrame ==
  ASSUME NEW query \in Queries, NEW left \in Leftovers, NEW line,
         line = left \o (Respond(query) \o <<NL, NL>>)
  PROVE  \E p : /\ Frame(line, p)
                /\ Without(Respond(query), {NL}) = IF p = 0 THEN <<>> ELSE <<line[p]>>
<1>. DEFINE r == Respond(query)
            ends == <<NL, NL>>
            k == Len(left)
            m == Len(r)
            l == Len(line)
            q == IF m = 0 THEN 0 ELSE 1
            p == IF m = 0 THEN 0 ELSE k + 1
<1>1. /\ r \in Seq(Tokens) /\ m \in 0 .. 2
      /\ \A i \in 1 .. m : r[i] = NL <=> i # 1
      /\ r = <<>> => m = 0
  <2>1. CASE r = <<>>
    BY <2>1, EmptySeq
  <2>2. ASSUME NEW x \in Tokens, x # NL, r = <<x>> \/ r = <<x, NL>>
        PROVE  r \in Seq(Tokens) /\ m \in 1 .. 2 /\ \A i \in 1 .. m : r[i] = NL <=> i # 1
    <3>. DEFINE y == NL
    <3>1. y \in Tokens /\ x # y /\ (r = <<x>> \/ r = <<x, y>>)
      BY <2>2, SentAreTokens
    <3>. HIDE DEF y
    <3>2. /\ <<x>> \in Seq(Tokens) /\ Len(<<x>>) = 1 /\ <<x>>[1] = x
          /\ <<x, y>> \in Seq(Tokens) /\ Len(<<x, y>>) = 2 /\ <<x, y>>[1] = x /\ <<x, y>>[2] = y
      BY <3>1
    <3>. HIDE DEF r
    <3>3. CASE r = <<x>>
      <4>1. \A i \in 1 .. 1 : i = 1
        OBVIOUS
      <4>2. r \in Seq(Tokens) /\ m = 1 /\ r[1] = x
        BY <3>2, <3>3
      <4>. QED
        BY <3>1, <4>1, <4>2 DEF y
    <3>4. CASE r = <<x, y>>
      <4>1. \A i \in 1 .. 2 : i = 1 \/ i = 2
        OBVIOUS
      <4>2. r \in Seq(Tokens) /\ m = 2 /\ r[1] = x /\ r[2] = y
        BY <3>2, <3>4
      <4>. QED
        BY <3>1, <4>1, <4>2 DEF y
    <3>. QED
      BY <3>1, <3>3, <3>4
  <2>3. r = <<>> \/ \E x \in Tokens : x # NL /\ (r = <<x>> \/ r = <<x, NL>>)
    BY ResponseShape
  <2>. HIDE DEF r
  <2>4. CASE r # <<>>
    <3>1. PICK x \in Tokens : x # NL /\ (r = <<x>> \/ r = <<x, NL>>)
      BY <2>3, <2>4
    <3>2. r \in Seq(Tokens) /\ m \in 1 .. 2 /\ \A i \in 1 .. m : r[i] = NL <=> i # 1
      BY <2>2, <3>1
    <3>. QED
      BY <2>4, <3>2
  <2>. QED
    BY <2>1, <2>4
<1>2. /\ left \in Seq(Tokens) /\ k \in 0 .. 1
      /\ \A i \in 1 .. k : left[i] = NL
  <2>. DEFINE y == NL
  <2>1. y \in Tokens /\ (left = <<>> \/ left = <<y>>)
    BY SentAreTokens DEF Leftovers
  <2>. HIDE DEF y
  <2>2. \A i \in 1 .. 1 : i = 1
    OBVIOUS
  <2>3. CASE left = <<>>
    <3>1. left \in Seq(Tokens) /\ k = 0
      BY <2>3, EmptySeq
    <3>. QED
      BY <3>1
  <2>4. CASE left = <<y>>
    <3>1. left \in Seq(Tokens) /\ k = 1 /\ left[1] = y
      BY <2>1, <2>4
    <3>. HIDE DEF k
    <3>2. \A i \in 1 .. k : left[i] = y
      BY <2>2, <3>1
    <3>. QED
      BY <3>1, <3>2 DEF y
  <2>. QED
    BY <2>1, <2>3, <2>4
<1>3. ends \in Seq(Tokens) /\ Len(ends) = 2 /\ \A i \in 1 .. 2 : ends[i] = NL
  <2>. DEFINE y == NL
  <2>1. y \in Tokens
    BY SentAreTokens
  <2>. HIDE DEF y
  <2>2. <<y, y>> \in Seq(Tokens) /\ Len(<<y, y>>) = 2 /\ \A i \in 1 .. 2 : <<y, y>>[i] = y
    <3>1. \A i \in 1 .. 2 : i = 1 \/ i = 2
      OBVIOUS
    <3>. QED
      BY <2>1, <3>1
  <2>. QED
    BY <2>2 DEF y
<1>. HIDE DEF r, ends
<1>4. /\ r \o ends \in Seq(Tokens) /\ Len(r \o ends) = m + 2
      /\ \A i \in 1 .. m + 2 : (r \o ends)[i] = IF i <= m THEN r[i] ELSE ends[i - m]
  <2>1. /\ r \o ends \in Seq(Tokens) /\ Len(r \o ends) = m + Len(ends)
        /\ \A i \in 1 .. m + Len(ends) : (r \o ends)[i] = IF i <= m THEN r[i] ELSE ends[i - m]
    BY ONLY <1>1, <1>3, ConcatProperties
  <2>. QED
    BY <1>3, <2>1
<1>5. \A i \in 1 .. m + 2 : (r \o ends)[i] = NL <=> i # q
  <2>1. \A i \in 1 .. m + 2 : IF i <= m THEN i \in 1 .. m ELSE i - m \in 1 .. 2
    BY <1>1
  <2>2. \A i \in 1 .. m : i # 1 <=> i # q
    BY <1>1
  <2>3. \A i \in 1 .. m + 2 : ~(i <= m) => i # q
    BY <1>1
  <2>. HIDE DEF m, q
  <2>. QED
    BY <1>1, <1>3, <1>4, <2>1, <2>2, <2>3
<1>6. /\ line \in Seq(Tokens) /\ l = k + (m + 2)
      /\ \A i \in 1 .. k + (m + 2) : line[i] = IF i <= k THEN left[i] ELSE (r \o ends)[i - k]
  <2>. DEFINE t == r \o ends
  <2>1. t \in Seq(Tokens) /\ line = left \o t /\ Len(t) = m + 2
    BY <1>4 DEF r, ends
  <2>. HIDE DEF t
  <2>2. /\ line \in Seq(Tokens) /\ l = k + Len(t)
        /\ \A i \in 1 .. k + Len(t) : line[i] = IF i <= k THEN left[i] ELSE t[i - k]
    BY ONLY <1>2, <2>1, ConcatProperties
  <2>. QED
    BY <2>1, <2>2 DEF t
<1>7. \A i \in 1 .. l : line[i] = NL <=> i # p
  <2>1. \A i \in 1 .. l : IF i <= k THEN i \in 1 .. k ELSE i - k \in 1 .. m + 2
    BY <1>1, <1>2, <1>6
  <2>2. \A i \in 1 .. l : i <= k => i # p
    BY <1>1, <1>2
  <2>3. \A i \in 1 .. l : ~(i <= k) => (i - k # q <=> i # p)
    BY <1>1, <1>2, <1>6
  <2>. HIDE DEF k, l, m, p, q
  <2>. QED
    BY <1>2, <1>5, <1>6, <2>1, <2>2, <2>3
<1>8. Frame(line, p)
  <2>1. p \in 0 .. 2 /\ (l = p + 2 \/ l = p + 3)
    <3>1. m \in 0 .. 2 /\ k \in 0 .. 1 /\ l = k + (m + 2)
      BY <1>1, <1>2, <1>6
    <3>. HIDE DEF m, k, l
    <3>. QED
      BY <3>1
  <2>. HIDE DEF p
  <2>. QED
    BY <1>6, <1>7, <2>1 DEF Frame, AllBut
<1>9. Without(r, {NL}) = IF p = 0 THEN <<>> ELSE <<line[p]>>
  <2>1. q \in 0 .. m /\ \A i \in 1 .. m : i # 1 <=> i # q
    BY <1>1
  <2>2. AllBut(r, {NL}, q)
    BY <1>1, <2>1 DEF AllBut
  <2>3. Without(r, {NL}) = IF q = 0 THEN <<>> ELSE <<r[q]>>
    BY <1>1, <2>1, <2>2, WithoutAllBut
  <2>4. (p = 0 <=> q = 0) /\ (p # 0 => p = k + q /\ q = 1 /\ 1 <= m)
    BY <1>1, <1>2
  <2>5. ASSUME p # 0 PROVE line[p] = r[q]
    <3>1. p = k + 1 /\ q = 1 /\ p \in 1 .. k + (m + 2) /\ ~(p <= k) /\ p - k = 1
          /\ 1 \in 1 .. m + 2 /\ 1 <= m
      BY <1>1, <1>2, <2>4, <2>5
    <3>. HIDE DEF p, q, k, m
    <3>2. line[p] = (r \o ends)[1]
      BY <1>6, <3>1
    <3>3. (r \o ends)[1] = r[1]
      BY <1>4, <3>1
    <3>. QED
      BY <3>1, <3>2, <3>3
  <2>. HIDE DEF p, q
  <2>. QED
    BY <2>3, <2>4, <2>5
<1>. QED
  BY <1>8, <1>9 DEF r

-----------------------------------------------------------------------------
(* What the session makes of what it reads.                                *)

\* When a newline has arrived, all of the query has, and nothing else: the line is the
\* query of the client.
LEMMA LineIsQuery ==
  ASSUME NEW query \in Queries, NEW b \in Seq(Sent), NEW t \in Seq(Sent),
         b \o t = query \o <<NL>>, HasLine(b)
  PROVE  /\ t = <<>> /\ LineLength(b) \in 0 .. Len(b)
         /\ Without(First(LineLength(b), b), {NL}) = query
<1>. DEFINE y == NL
            line == query \o <<y>>
            n == Len(query)
            m == Len(b)
            k == Len(t)
<1>1. /\ query \in Seq(Sent) /\ n \in Nat /\ \A i \in 1 .. n : query[i] # y
  BY QueryShape
<1>2. y \in Sent
  BY SentAreTokens
<1>3. m \in Nat /\ k \in Nat /\ b \o t = line /\ DOMAIN b = 1 .. m
  BY LenProperties
<1>. HIDE DEF y
<1>4. Append(query, y) = line
  BY <1>1, <1>2, AppendIsConcat
<1>5. /\ line \in Seq(Sent) /\ Len(line) = n + 1 /\ line[n + 1] = y
      /\ \A i \in 1 .. n : line[i] = query[i]
  <2>1. /\ Append(query, y) \in Seq(Sent) /\ Len(Append(query, y)) = n + 1
        /\ Append(query, y)[n + 1] = y
        /\ \A i \in 1 .. n : Append(query, y)[i] = query[i]
    BY <1>1, <1>2, AppendProperties
  <2>. HIDE DEF line
  <2>. QED
    BY <1>4, <2>1
<1>. HIDE DEF line
<1>6. Len(line) = m + k /\ \A i \in 1 .. m : line[i] = b[i]
  <2>1. /\ Len(b \o t) = m + k
        /\ \A i \in 1 .. m + k : (b \o t)[i] = IF i <= m THEN b[i] ELSE t[i - m]
    BY ONLY b \in Seq(Sent), t \in Seq(Sent), ConcatProperties
  <2>2. \A i \in 1 .. m : i \in 1 .. m + k /\ i <= m
    BY <1>3
  <2>. QED
    BY <1>3, <2>1, <2>2
<1>7. PICK j \in 1 .. m : b[j] = y
  BY <1>3 DEF HasLine, y
<1>8. j = n + 1 /\ m = n + 1 /\ k = 0
  <2>. HIDE DEF m, n, k
  <2>1. line[j] = y /\ j \in 1 .. n + 1
    BY <1>1, <1>3, <1>5, <1>6, <1>7
  <2>2. j \notin 1 .. n
    BY <1>1, <1>5, <2>1
  <2>3. j = n + 1
    BY <1>1, <2>1, <2>2
  <2>. QED
    BY <1>1, <1>3, <1>5, <1>6, <1>7, <2>3
<1>9. t = <<>> /\ b = line
  <2>1. t = <<>>
    BY <1>8, EmptySeq
  <2>. QED
    BY <1>3, <2>1, ConcatEmptySeq
<1>10. LineLength(b) = n + 1
  <2>1. \A i \in 1 .. m : b[i] = y <=> i = n + 1
    <3>1. \A i \in 1 .. m : i = n + 1 \/ i \in 1 .. n
      BY <1>1, <1>8
    <3>. QED
      BY <1>1, <1>5, <1>9, <3>1
  <2>2. n + 1 \in 1 .. m /\ \A i \in 1 .. (n + 1) - 1 : i \in 1 .. m /\ i # n + 1
    BY <1>1, <1>8
  <2>3. LineLength(b) = CHOOSE i \in 1 .. m : b[i] = y /\ \A h \in 1 .. i - 1 : b[h] # y
    BY <1>3 DEF LineLength, y
  <2>4. \A i \in 1 .. m : (b[i] = y /\ \A h \in 1 .. i - 1 : b[h] # y) <=> i = n + 1
    BY <2>1, <2>2
  <2>. QED
    BY <2>2, <2>3, <2>4
<1>11. First(n + 1, b) = b
  BY <1>8, SubSeqFull DEF First
<1>12. Without(line, {y}) = query
  <2>1. Without(Append(query, y), {y}) =
          IF y \in {y} THEN Without(query, {y}) ELSE Append(Without(query, {y}), y)
    BY <1>1, <1>2, WithoutAppend
  <2>2. Without(query, {y}) = query
    BY <1>1, WithoutNone
  <2>. QED
    BY <1>4, <2>1, <2>2
<1>. QED
  BY <1>1, <1>8, <1>9, <1>10, <1>11, <1>12 DEF y

-----------------------------------------------------------------------------
(* Every step keeps the line.                                              *)

\* Init.
LEMMA LineStarts == Init => TcpTyped /\ LineInv
<1>. SUFFICES ASSUME Init PROVE TcpTyped /\ LineInv
  OBVIOUS
<1>1. /\ \A S : <<>> \in Seq(S)
      /\ Len(asked) = 0 /\ Len(answered) = 0
  BY EmptySeq DEF Init
<1>2. 0 <= MaxQueries
  BY SessionAssumption
<1>3. TcpTyped
  BY <1>1, <1>2 DEF Init, TcpTyped
<1>4. \A e : e = <<>> => e \o e = <<>>
  <2>1. <<>> \o <<>> = <<>>
    BY <1>1, ConcatEmptySeq
  <2>. QED
    BY <2>1
<1>5. Up = <<>> /\ cbuffer = <<>> /\ Down = <<>>
  BY <1>4 DEF Init, Up, Down
<1>. QED
  BY <1>1, <1>3, <1>5 DEF LineInv, Idle, Leftovers

\* What TcpTyped says of what is on the way.
LEMMA LineTyped ==
  ASSUME TcpTyped
  PROVE  /\ Up \in Seq(Sent) /\ Down \in Seq(Tokens)
         /\ (IF step = "read" THEN buffer ELSE <<>>) \in Seq(Sent)
         /\ (IF step = "write" THEN buffer ELSE <<>>) \in Seq(Tokens)
         /\ toServer \in Seq(Sent) /\ toClient \in Seq(Tokens) /\ cbuffer \in Seq(Tokens)
         /\ asked \in Seq(Queries) /\ Len(asked) \in Nat
         /\ answered \in Seq(Seq(Tokens)) /\ Len(answered) \in Nat
         /\ Len(asked) # Len(answered) => asked[Len(asked)] \in Queries /\ Len(asked) = Len(answered) + 1
<1>1. /\ toServer \in Seq(Sent) /\ toClient \in Seq(Tokens) /\ cbuffer \in Seq(Tokens)
      /\ asked \in Seq(Queries) /\ answered \in Seq(Seq(Tokens))
      /\ Len(answered) <= Len(asked) /\ Len(asked) <= Len(answered) + 1
  BY DEF TcpTyped
<1>2. /\ (IF step = "read" THEN buffer ELSE <<>>) \in Seq(Sent)
      /\ (IF step = "write" THEN buffer ELSE <<>>) \in Seq(Tokens)
  BY EmptySeq DEF TcpTyped
<1>3. Len(asked) \in Nat /\ Len(answered) \in Nat
  BY <1>1, LenProperties
<1>4. Up \in Seq(Sent)
  BY <1>1, <1>2, ConcatProperties DEF Up
<1>5. Down \in Seq(Tokens)
  <2>1. cbuffer \o toClient \in Seq(Tokens)
    BY <1>1, ConcatProperties
  <2>. QED
    BY <1>2, <2>1, ConcatProperties DEF Down
<1>6. Len(asked) # Len(answered) => Len(asked) \in 1 .. Len(asked) /\ Len(asked) = Len(answered) + 1
  BY <1>1, <1>3
<1>. QED
  BY <1>1, <1>2, <1>3, <1>4, <1>5, <1>6, ElementOfSeq

\* A client asks when nothing is under way.
LEMMA AskKeeps ==
  ASSUME TcpTyped, LineInv, NEW query \in Queries, Ask(query)
  PROVE  TcpTyped' /\ LineInv'
<1>. DEFINE n == Len(asked)
            got == IF step = "read" THEN buffer ELSE <<>>
<1>1. /\ open /\ n < MaxQueries /\ n = Len(answered) /\ asked' = Append(asked, query)
      /\ toServer' = toServer \o query \o <<NL>>
      /\ UNCHANGED <<answered, cbuffer, open, buffer, step, toClient>>
  BY DEF Ask, session
<1>2. /\ asked' \in Seq(Queries) /\ Len(asked') = n + 1 /\ asked'[n + 1] = query /\ n \in Nat
  BY <1>1, LineTyped, AppendProperties
<1>3. Up = <<>> /\ cbuffer = <<>> /\ Down \in Leftovers
  BY <1>1 DEF LineInv, Idle
<1>4. got = <<>> /\ toServer = <<>>
  <2>1. got \in Seq(Sent) /\ toServer \in Seq(Sent) /\ got \o toServer = <<>>
    BY <1>3, LineTyped DEF Up
  <2>. HIDE DEF got
  <2>. QED
    BY <2>1, ConcatEqualIffEmpty
<1>5. query \in Seq(Sent) /\ <<NL>> \in Seq(Sent)
  <2>1. \A x \in Sent : <<x>> \in Seq(Sent)
    OBVIOUS
  <2>. QED
    BY <2>1, QueryShape, SentAreTokens
<1>6. query \o <<NL>> \in Seq(Sent)
  BY <1>5, ConcatProperties
<1>7. toServer' = query \o <<NL>>
  BY <1>1, <1>4, <1>5, ConcatEmptySeq
<1>8. Up' = query \o <<NL>>
  <2>1. Up' = <<>> \o (query \o <<NL>>)
    BY <1>1, <1>4, <1>7 DEF Up
  <2>. QED
    BY <1>6, <2>1, ConcatEmptySeq
<1>9. Down' = Down
  BY <1>1 DEF Down
<1>10. TcpTyped'
  <2>1. n + 1 <= MaxQueries /\ n <= n + 1
    BY <1>1, <1>2, SessionAssumption
  <2>. HIDE DEF n, got
  <2>. QED
    BY <1>1, <1>2, <1>6, <1>7, <2>1 DEF TcpTyped
<1>11. LineInv'
  <2>1. Len(asked') # Len(answered') /\ asked'[Len(asked')] = query
    BY <1>1, <1>2
  <2>2. (Up = query \o <<NL>> /\ Down \in Leftovers)'
    BY <1>3, <1>8, <1>9 DEF Leftovers
  <2>. QED
    BY <2>1, <2>2 DEF LineInv, Waiting
<1>. QED
  BY <1>10, <1>11

\* The line does not change.
LEMMA SameLine ==
  ASSUME LineInv, UNCHANGED <<asked, answered, open>>, Up' = Up, Down' = Down,
         Len(asked) = Len(answered) => cbuffer' = cbuffer
  PROVE  LineInv'
BY DEF LineInv, Idle, Waiting, Leftovers

\* What is read is no longer under way, and the other way round.
LEMMA ReadSomeKeeps == ASSUME TcpTyped, LineInv, ReadSome PROVE TcpTyped' /\ LineInv'
<1>1. PICK n \in 1 .. Len(toServer) :
        buffer' = buffer \o First(n, toServer) /\ toServer' = Rest(n, toServer)
  BY DEF ReadSome
<1>2. step = "read" /\ UNCHANGED <<asked, answered, cbuffer, open, step, toClient>>
  BY DEF ReadSome, client
<1>3. n \in 0 .. Len(toServer) /\ toServer \in Seq(Sent) /\ buffer \in Seq(Sent)
  BY <1>2, LineTyped
<1>. DEFINE f == First(n, toServer)
            r == Rest(n, toServer)
<1>4. f \in Seq(Sent) /\ r \in Seq(Sent) /\ f \o r = toServer
  BY <1>3, Cut
<1>. HIDE DEF f, r
<1>5. buffer' = buffer \o f /\ toServer' = r
  BY <1>1 DEF f, r
<1>6. buffer \o f \in Seq(Sent)
  BY <1>3, <1>4, ConcatProperties
<1>7. Up' = Up
  <2>1. buffer \o (f \o r) = (buffer \o f) \o r
    <3>1. buffer \in Seq(Sent) /\ f \in Seq(Sent) /\ r \in Seq(Sent)
      BY <1>3, <1>4
    <3>. QED
      BY ONLY <3>1, Regroup, SMTT(30)
  <2>. QED
    BY <1>2, <1>4, <1>5, <2>1 DEF Up
<1>8. Down' = Down
  BY <1>2 DEF Down
<1>9. TcpTyped'
  BY <1>2, <1>4, <1>5, <1>6, SentAreTokens DEF TcpTyped
<1>. QED
  BY <1>2, <1>7, <1>8, <1>9, SameLine

\* The session answers the query of the client, whatever doWrite commits behind it: all
\* that was under way has been taken, and the response is.
LEMMA DoWriteKeeps == ASSUME TcpTyped, LineInv, DoWrite PROVE TcpTyped' /\ LineInv'
<1>. DEFINE query == Without(First(LineLength(buffer), buffer), {NL})
            ends == <<NL, NL>>
<1>1. /\ step = "read" /\ HasLine(buffer) /\ step' = "write"
      /\ buffer' = (<<>> \o Respond(query)) \o ends
      /\ UNCHANGED <<asked, answered, cbuffer, open, toServer, toClient>>
  BY DEF DoWrite, Kept, client, wires
<1>2. buffer \in Seq(Sent) /\ toServer \in Seq(Sent) /\ cbuffer \in Seq(Tokens) /\ toClient \in Seq(Tokens)
  BY <1>1, LineTyped
<1>3. LineLength(buffer) \in 0 .. Len(buffer)
  <2>1. Len(buffer) \in Nat /\ DOMAIN buffer = 1 .. Len(buffer)
    BY <1>2, LenProperties
  <2>. DEFINE Lines == {i \in Nat : i \in DOMAIN buffer /\ buffer[i] = NL}
  <2>2. \E i \in DOMAIN buffer : buffer[i] = NL /\ \A j \in 1 .. i - 1 : buffer[j] # NL
    <3>1. PICK i \in Lines : \A j \in Lines : ~(j < i)
      <4>1. Lines # {} /\ Lines \subseteq Nat
        BY <1>1, <2>1 DEF HasLine
      <4>. HIDE DEF Lines
      <4>. QED
        BY <4>1, LeastNumber
    <3>2. i \in 1 .. Len(buffer) /\ buffer[i] = NL
      BY <2>1, <3>1
    <3>3. ASSUME NEW j \in 1 .. i - 1 PROVE buffer[j] # NL
      <4>1. j \in Nat /\ j < i /\ j \in DOMAIN buffer
        BY <2>1, <3>2
      <4>. QED
        BY <3>1, <4>1
    <3>. QED
      BY <2>1, <3>2, <3>3
  <2>3. LineLength(buffer) \in DOMAIN buffer
    BY <2>2 DEF LineLength
  <2>. QED
    BY <2>1, <2>3
<1>4. query \in Seq(Sent)
  <2>1. First(LineLength(buffer), buffer) \in Seq(Sent)
    BY <1>2, <1>3, Cut
  <2>. QED
    BY <2>1, WithoutType
<1>5. Respond(query) \in Seq(Tokens) /\ ends \in Seq(Tokens)
  <2>1. \A x \in Tokens : <<x, x>> \in Seq(Tokens)
    OBVIOUS
  <2>. QED
    BY <1>4, <2>1, ResponseTyped, SentAreTokens
<1>. HIDE DEF query, ends
<1>6. Respond(query) \o ends \in Seq(Tokens) /\ buffer' = Respond(query) \o ends
  BY <1>1, <1>5, ConcatProperties, ConcatEmptySeq
<1>7. TcpTyped'
  BY <1>1, <1>6 DEF TcpTyped
<1>8. LineInv'
  <2>. SUFFICES ASSUME open PROVE LineInv'
    BY <1>1 DEF LineInv
  <2>1. Up = buffer \o toServer
    BY <1>1 DEF Up
  <2>2. buffer # <<>>
    BY <1>1, EmptySeq DEF HasLine
  <2>3. Up # <<>>
    BY <1>2, <2>1, <2>2, ConcatEqualIffEmpty
  <2>. DEFINE last == asked[Len(asked)]
  <2>4. /\ Len(asked) # Len(answered) /\ last \in Queries
        /\ Up = last \o <<NL>> /\ Down \in Leftovers
    BY <2>3, LineTyped DEF LineInv, Idle, Waiting
  <2>5. toServer = <<>> /\ query = last
    <3>1. buffer \o toServer = last \o <<NL>>
      BY <2>1, <2>4
    <3>. HIDE DEF last
    <3>. QED
      BY <1>1, <1>2, <2>4, <3>1, LineIsQuery DEF query
  <2>6. Up' = <<>>
    <3>1. Up' = <<>> \o <<>>
      BY <1>1, <2>5 DEF Up
    <3>. QED
      BY <3>1
  <2>7. Down' = Down \o (Respond(query) \o ends)
    <3>. DEFINE came == cbuffer \o toClient
    <3>1. came \in Seq(Tokens)
      BY <1>2, ConcatProperties
    <3>2. Down = came \o <<>> /\ Down' = came \o (Respond(query) \o ends)
      BY <1>1, <1>6 DEF Down
    <3>. QED
      BY <3>1, <3>2, ConcatEmptySeq
  <2>8. Waiting(last)'
    <3>1. \E left \in Leftovers : Down' = left \o (Respond(last) \o <<NL, NL>>)
      BY <2>4, <2>5, <2>7 DEF ends
    <3>2. last' = last
      BY <1>1
    <3>. QED
      BY <2>6, <3>1, <3>2 DEF Waiting, Leftovers
  <2>. QED
    BY <1>1, <2>4, <2>8 DEF LineInv
<1>. QED
  BY <1>7, <1>8

\* What async_write hands to the network is no longer in the buffer.
LEMMA WriteSomeKeeps == ASSUME TcpTyped, LineInv, WriteSome PROVE TcpTyped' /\ LineInv'
<1>1. PICK n \in 1 .. Len(buffer) :
        toClient' = toClient \o First(n, buffer) /\ buffer' = Rest(n, buffer)
  BY DEF WriteSome
<1>2. step = "write" /\ UNCHANGED <<asked, answered, cbuffer, open, step, toServer>>
  BY DEF WriteSome, client
<1>. DEFINE f == First(n, buffer)
            r == Rest(n, buffer)
<1>3. /\ buffer \in Seq(Tokens) /\ toClient \in Seq(Tokens) /\ cbuffer \in Seq(Tokens)
      /\ n \in 0 .. Len(buffer)
  BY DEF TcpTyped
<1>4. f \in Seq(Tokens) /\ r \in Seq(Tokens) /\ f \o r = buffer
  BY <1>3, Cut
<1>. HIDE DEF f, r
<1>5. toClient' = toClient \o f /\ buffer' = r
  BY <1>1 DEF f, r
<1>6. toClient \o f \in Seq(Tokens)
  BY <1>3, <1>4, ConcatProperties
<1>7. Down' = Down
  <2>1. cbuffer \in Seq(Tokens) /\ toClient \in Seq(Tokens) /\ f \in Seq(Tokens) /\ r \in Seq(Tokens)
    BY <1>3, <1>4
  <2>2. cbuffer \o (toClient \o f) = (cbuffer \o toClient) \o f
    BY ONLY <2>1, Regroup, SMTT(30)
  <2>3. cbuffer \o toClient \in Seq(Tokens)
    BY <2>1, ConcatProperties
  <2>4. (cbuffer \o toClient) \o (f \o r) = ((cbuffer \o toClient) \o f) \o r
    <3>. DEFINE came == cbuffer \o toClient
    <3>1. came \in Seq(Tokens) /\ f \in Seq(Tokens) /\ r \in Seq(Tokens)
      BY <2>1, <2>3
    <3>. HIDE DEF came
    <3>2. came \o (f \o r) = (came \o f) \o r
      BY ONLY <3>1, Regroup, SMTT(30)
    <3>. QED
      BY <3>2 DEF came
  <2>5. Down = (cbuffer \o toClient) \o (f \o r)
    BY <1>2, <1>4 DEF Down
  <2>6. Down' = (cbuffer \o (toClient \o f)) \o r
    BY <1>2, <1>5 DEF Down
  <2>. QED
    BY <2>2, <2>4, <2>5, <2>6
<1>8. Up' = Up
  BY <1>2 DEF Up
<1>9. TcpTyped'
  BY <1>2, <1>4, <1>5, <1>6 DEF TcpTyped
<1>. QED
  BY <1>2, <1>7, <1>8, <1>9, SameLine

\* doRead starts with an empty buffer.
LEMMA DoReadKeeps == ASSUME TcpTyped, LineInv, DoRead PROVE TcpTyped' /\ LineInv'
<1>1. /\ step = "write" /\ buffer = <<>> /\ buffer' = <<>> /\ step' = "read"
      /\ UNCHANGED <<asked, answered, cbuffer, open, toServer, toClient>>
  BY DEF DoRead, DoReadFrom, client, wires
<1>2. Up' = Up /\ Down' = Down
  BY <1>1 DEF Up, Down
<1>3. TcpTyped'
  BY <1>1, EmptySeq DEF TcpTyped
<1>. QED
  BY <1>1, <1>2, <1>3, SameLine

\* A client that closes, and the session that ends after it.
LEMMA LeaveKeeps ==
  ASSUME TcpTyped, LineInv, Close \/ End \/ UNCHANGED vars
  PROVE  TcpTyped' /\ LineInv'
<1>1. CASE Close
  BY <1>1 DEF Close, session, wires, TcpTyped, LineInv
<1>2. CASE End
  BY <1>2 DEF End, client, wires, TcpTyped, LineInv
<1>3. CASE UNCHANGED vars
  <2>1. UNCHANGED <<asked, answered, cbuffer, open, buffer, step, toServer, toClient>>
    BY <1>3 DEF vars, client, session, wires
  <2>2. Up' = Up /\ Down' = Down
    BY <2>1 DEF Up, Down
  <2>. QED
    BY <2>1, <2>2, SameLine DEF TcpTyped
<1>. QED
  BY <1>1, <1>2, <1>3

\* The client reads what was under way.
LEMMA ReceiveKeeps == ASSUME TcpTyped, LineInv, Receive PROVE TcpTyped' /\ LineInv'
<1>1. PICK n \in 1 .. Len(toClient) :
        cbuffer' = cbuffer \o First(n, toClient) /\ toClient' = Rest(n, toClient)
  BY DEF Receive
<1>2. Len(answered) < Len(asked) /\ UNCHANGED <<asked, answered, open, buffer, step, toServer>>
  BY DEF Receive, session
<1>. DEFINE f == First(n, toClient)
            r == Rest(n, toClient)
<1>3. /\ toClient \in Seq(Tokens) /\ cbuffer \in Seq(Tokens) /\ n \in 0 .. Len(toClient)
      /\ Len(asked) # Len(answered)
  BY <1>2, LineTyped
<1>4. f \in Seq(Tokens) /\ r \in Seq(Tokens) /\ f \o r = toClient
  BY <1>3, Cut
<1>. HIDE DEF f, r
<1>5. cbuffer' = cbuffer \o f /\ toClient' = r
  BY <1>1 DEF f, r
<1>6. cbuffer \o f \in Seq(Tokens)
  BY <1>3, <1>4, ConcatProperties
<1>7. Down' = Down
  <2>1. cbuffer \in Seq(Tokens) /\ f \in Seq(Tokens) /\ r \in Seq(Tokens)
    BY <1>3, <1>4
  <2>2. cbuffer \o (f \o r) = (cbuffer \o f) \o r
    BY ONLY <2>1, Regroup, SMTT(30)
  <2>. QED
    BY <1>2, <1>4, <1>5, <2>2 DEF Down
<1>8. Up' = Up
  BY <1>2 DEF Up
<1>9. TcpTyped'
  BY <1>2, <1>4, <1>5, <1>6 DEF TcpTyped
<1>. QED
  BY <1>2, <1>3, <1>7, <1>8, <1>9, SameLine

\* execute returns the answer to the query it has sent, and leaves at most a newline.
LEMMA ReturnKeeps ==
  ASSUME TcpTyped, LineInv, Return
  PROVE  /\ TcpTyped' /\ LineInv' /\ Len(asked) = Len(answered) + 1 /\ asked[Len(asked)] \in Queries
         /\ answered' = Append(answered, Without(Respond(asked[Len(asked)]), {NL}))
<1>. DEFINE query == asked[Len(asked)]
            text == Without(First(ResponseLength(cbuffer), cbuffer), {NL})
            out == IF step = "write" THEN buffer ELSE <<>>
            rest == toClient \o out
<1>1. /\ open /\ Len(answered) < Len(asked) /\ Ends(cbuffer) # {}
      /\ answered' = Append(answered, text) /\ cbuffer' = <<>>
      /\ UNCHANGED <<asked, open, buffer, step, toServer, toClient>>
  BY DEF Return, session, wires
<1>2. /\ Len(asked) # Len(answered) /\ query \in Queries /\ Len(asked) = Len(answered) + 1
      /\ Waiting(query)
      /\ cbuffer \in Seq(Tokens) /\ toClient \in Seq(Tokens) /\ out \in Seq(Tokens)
  BY <1>1, LineTyped DEF LineInv
<1>. HIDE DEF out, text
<1>3. rest \in Seq(Tokens) /\ Down = cbuffer \o rest
  <2>1. Down = (cbuffer \o toClient) \o out
    BY DEF Down, out
  <2>2. cbuffer \o (toClient \o out) = (cbuffer \o toClient) \o out
    BY ONLY <1>2, Regroup, SMTT(30)
  <2>. QED
    BY <1>2, <2>1, <2>2, ConcatProperties
<1>. HIDE DEF rest
<1>4. Down \notin Leftovers
  <2>1. Len(cbuffer) \in Nat /\ Len(rest) \in Nat
    BY <1>2, <1>3, LenProperties
  <2>2. Len(cbuffer \o rest) = Len(cbuffer) + Len(rest)
    BY ONLY <1>2, <1>3, ConcatProperties
  <2>3. 2 <= Len(cbuffer)
    <3>1. PICK i : i \in Ends(cbuffer)
      BY <1>1
    <3>. QED
      BY <1>2, <3>1, LenProperties DEF Ends
  <2>4. \A line \in Leftovers : Len(line) <= 1
    <3>1. Len(<<>>) = 0 /\ \A y : Len(<<y>>) = 1
      OBVIOUS
    <3>2. Len(<<>>) <= 1 /\ \A y : Len(<<y>>) <= 1
      BY <3>1
    <3>. QED
      BY <3>2 DEF Leftovers
  <2>5. ~(Len(Down) <= 1)
    BY <1>3, <2>1, <2>2, <2>3
  <2>. QED
    BY <2>4, <2>5
<1>5. PICK left \in Leftovers : Up = <<>> /\ Down = left \o (Respond(query) \o <<NL, NL>>)
  BY <1>2, <1>4 DEF Waiting
<1>6. PICK p : /\ Frame(Down, p)
               /\ Without(Respond(query), {NL}) = IF p = 0 THEN <<>> ELSE <<Down[p]>>
  <2>. HIDE DEF query
  <2>. QED
    BY <1>2, <1>5, ResponseFrame
<1>7. text = Without(Respond(query), {NL}) /\ rest \in Leftovers
  <2>. HIDE DEF query
  <2>1. Frame(cbuffer \o rest, p)
    BY <1>3, <1>6
  <2>. QED
    BY <1>1, <1>2, <1>3, <1>6, <2>1, ReturnsResponse DEF text
<1>8. text \in Seq(Tokens)
  <2>1. query \in Seq(Sent)
    BY <1>2, QueryShape
  <2>. HIDE DEF query
  <2>. QED
    BY <1>7, <2>1, ResponseTyped, WithoutType
<1>9. answered' \in Seq(Seq(Tokens)) /\ Len(answered') = Len(answered) + 1 /\ Len(answered) \in Nat
  BY <1>1, <1>8, LineTyped, AppendProperties
<1>10. TcpTyped'
  <2>1. Len(asked') = Len(answered')
    BY <1>1, <1>2, <1>9
  <2>2. Len(asked') \in Nat
    BY <1>2, <1>9, <2>1
  <2>. QED
    BY <1>1, <1>9, <2>1, <2>2, EmptySeq DEF TcpTyped
<1>11. LineInv'
  <2>1. Up' = <<>> /\ cbuffer' = <<>>
    BY <1>1, <1>5 DEF Up
  <2>2. Down' = rest
    <3>1. Down' = (<<>> \o toClient) \o out
      BY <1>1 DEF Down, out
    <3>. QED
      BY <1>2, <3>1, ConcatEmptySeq DEF rest
  <2>3. Len(asked') = Len(answered')
    BY <1>1, <1>2, <1>9
  <2>. QED
    BY <1>7, <2>1, <2>2, <2>3 DEF LineInv, Idle, Leftovers
<1>. QED
  BY <1>1, <1>2, <1>7, <1>10, <1>11

\* Every step of the session, of the network and of the client keeps the line.
LEMMA LineStep == TcpTyped /\ LineInv /\ [Next]_vars => (TcpTyped /\ LineInv)'
BY AskKeeps, ReadSomeKeeps, DoWriteKeeps, WriteSomeKeeps, DoReadKeeps, LeaveKeeps, ReceiveKeeps,
  ReturnKeeps DEF Next, Handle, Execute

\* The type invariant of the TCP session: in particular, it never waits for a query with
\* an answer half sent.
THEOREM TcpTypeCorrect == Spec => []TypeOK
<1>1. TcpTyped => TypeOK
  <2>. SUFFICES ASSUME TcpTyped PROVE TypeOK
    OBVIOUS
  <2>1. \A x \in Sent : x[1] \in {"newline", "prefix", "text"}
    <3>1. NL[1] = "newline" /\ \A a : Text(a)[1] = "text" /\ Prefix(a)[1] = "prefix"
      BY DEF NL, Text, Prefix
    <3>. QED
      BY <3>1 DEF Sent
  <2>2. step = "read" => \A i \in DOMAIN buffer : buffer[i] \in Sent
    BY LenProperties, ElementOfSeq DEF TcpTyped
  <2>3. toServer \in Seq(Tokens)
    BY SentAreTokens DEF TcpTyped
  <2>. QED
    BY <2>1, <2>2, <2>3 DEF TcpTyped, TypeOK
<1>. QED
  BY <1>1, LineStarts, LineStep, PTL DEF Spec

\* The dispatch is the same for the abstract service.
LEMMA SameDispatch ==
  /\ Abstract!Queries = Queries
  /\ \A query : Abstract!Trimmed(Abstract!Respond(query)) = Without(Respond(query), {NL})
BY DEF Abstract!Trimmed, Abstract!Respond, Abstract!Fields, Abstract!Lookup, Abstract!Location,
  Abstract!Found, Abstract!IsKnown, Abstract!About, Abstract!Text, Abstract!Prefix, Abstract!NL,
  Abstract!Queries, Abstract!Addresses, Abstract!Without,
  Respond, Fields, Lookup, Location, Found, IsKnown, About, Text, Prefix, NL,
  Queries, Addresses, Without

\* Each query of a TCP client gets its own answer, once and in order, however the network
\* cuts the stream, whatever doWrite commits behind the line, and although a response
\* may have a newline more than execute waits for.
THEOREM TcpImplementsQueryService == Spec => ImplementsQueryService
<1>1. Init => Abstract!Init
  BY DEF Init, Abstract!Init
<1>2. TcpTyped /\ LineInv /\ [Next]_vars => [Abstract!Next]_(Abstract!absVars)
  <2>. SUFFICES ASSUME TcpTyped, LineInv, [Next]_vars
                PROVE  Abstract!Next \/ UNCHANGED Abstract!absVars
    OBVIOUS
  <2>1. ASSUME NEW query \in Queries, Ask(query) PROVE Abstract!Next
    <3>1. Len(asked) < Len(answered) + 1
      BY <2>1, LineTyped DEF Ask
    <3>2. Abstract!Ask(query)
      BY <2>1, <3>1 DEF Ask, Abstract!Ask
    <3>. QED
      BY <3>2, SameDispatch DEF Abstract!Next
  <2>2. CASE Return
    <3>1. /\ Len(asked) = Len(answered) + 1 /\ asked' = asked
          /\ answered' = Append(answered, Without(Respond(asked[Len(asked)]), {NL}))
      BY <2>2, ReturnKeeps DEF Return
    <3>2. Len(answered) < Len(asked)
      BY <2>2 DEF Return
    <3>3. Abstract!Answer
      BY <3>1, <3>2, SameDispatch DEF Abstract!Answer
    <3>. QED
      BY <3>3 DEF Abstract!Next
  <2>3. CASE Handle \/ Receive \/ Close \/ UNCHANGED vars
    <3>1. UNCHANGED <<asked, answered>>
      BY <2>3 DEF Handle, ReadSome, DoWrite, WriteSome, DoRead, DoReadFrom, End, Receive,
        Close, vars, client
    <3>. QED
      BY <3>1 DEF Abstract!absVars
  <2>. QED
    BY <2>1, <2>2, <2>3 DEF Next, Execute
<1>. QED
  BY <1>1, <1>2, LineStarts, LineStep, PTL DEF Spec, ImplementsQueryService, Abstract!Spec

-----------------------------------------------------------------------------
(* The WebSocket session.                                                  *)

Responses == {Respond(query) : query \in Queries}

\* The message that the coroutine has read and not answered yet.
InHand == IF place \in {"respond", "write"} THEN 1 ELSE 0
Working == place # "gone" /\ ~failed

\* What has been answered, and what the client has not received of it.
AnswerInv ==
  /\ answers \in Seq(Responses) /\ outgoing \in Seq(Responses)
  /\ Len(answers) + Len(outgoing) <= Len(messages)
  /\ \A i \in 1 .. Len(answers) : answers[i] = Respond(messages[i])
  /\ \A i \in 1 .. Len(outgoing) : outgoing[i] = Respond(messages[Len(answers) + i])

\* What has not been answered, as long as the stream is whole.
Taken == Len(answers) + Len(outgoing) + InHand
WorkInv ==
  Working =>
    /\ Taken + Len(incoming) = Len(messages)
    /\ \A i \in 1 .. Len(incoming) : incoming[i] = messages[Taken + i]
    /\ buffer_ = IF InHand = 1 THEN messages[Taken] ELSE <<>>
    /\ place = "write" => response = Respond(buffer_)

PipeInv == AnswerInv /\ WorkInv

\* The client and the loop see the same kind of messages.
LEMMA QueriesAreSeqs ==
  Queries \subseteq
    Seq({Text(a) : a \in Addresses} \cup {Prefix(p) : p \in {"f", "l", "j"}})
<1>. DEFINE T == {Text(a) : a \in Addresses} \cup {Prefix(p) : p \in {"f", "l", "j"}}
<1>1. \A a \in Addresses : Text(a) \in T
  OBVIOUS
<1>2. \A p \in {"f", "l", "j"} : Prefix(p) \in T
  OBVIOUS
<1>. HIDE DEF T
<1>3. <<>> \in Seq(T)
  OBVIOUS
<1>4. \A a \in Addresses : <<Text(a)>> \in Seq(T)
  BY <1>1
<1>5. \A a \in Addresses, p \in {"f", "l", "j"} : <<Prefix(p), Text(a)>> \in Seq(T)
  BY <1>1, <1>2
<1>6. ASSUME NEW query \in Queries PROVE query \in Seq(T)
  <2>1. CASE query = <<>>
    BY <1>3, <2>1
  <2>2. CASE \E a \in Addresses : query = <<Text(a)>>
    BY <1>4, <2>2
  <2>3. CASE \E p \in {"f", "l", "j"}, a \in Addresses : query = <<Prefix(p), Text(a)>>
    BY <1>5, <2>3
  <2>. QED
    BY <2>1, <2>2, <2>3 DEF Queries
<1>. QED
  BY <1>6 DEF T

\* Init.
LEMMA PipeStarts == WebSocketInit => WebSocketTypeOK /\ PipeInv
<1>. SUFFICES ASSUME WebSocketInit PROVE WebSocketTypeOK /\ PipeInv
  OBVIOUS
<1>. USE DEF WebSocketInit
<1>1. /\ \A S : <<>> \in Seq(S)
      /\ Len(messages) = 0 /\ Len(answers) = 0 /\ Len(outgoing) = 0 /\ Len(incoming) = 0
  OBVIOUS
<1>2. WebSocketTypeOK
  <2>1. Len(messages) <= MaxMessages /\ Len(answers) <= Len(messages)
    BY <1>1, WebSocketAssumption
  <2>2. /\ failed \in BOOLEAN /\ connected \in BOOLEAN
        /\ failed => place \in {"respond", "write", "gone"}
    OBVIOUS
  <2>3. messages \in Seq(Queries) /\ incoming \in Seq(Queries)
    BY <1>1
  <2>4. place \in {"accept", "read", "respond", "write", "gone"}
    OBVIOUS
  <2>. HIDE DEF WebSocketInit
  <2>. QED
    BY <2>1, <2>2, <2>3, <2>4 DEF WebSocketTypeOK
<1>3. AnswerInv
  BY <1>1 DEF AnswerInv
<1>4. WorkInv
  BY <1>1 DEF WorkInv, Taken, InHand
<1>. QED
  BY <1>2, <1>3, <1>4 DEF PipeInv

\* What the pipeline looks like where a step is taken.
LEMMA PipeFacts ==
  ASSUME WebSocketTypeOK, PipeInv
  PROVE  /\ messages \in Seq(Queries) /\ incoming \in Seq(Queries) /\ answers \in Seq(Responses)
         /\ outgoing \in Seq(Responses)
         /\ Len(messages) \in Nat /\ Len(incoming) \in Nat /\ Len(answers) \in Nat /\ Len(outgoing) \in Nat
         /\ InHand \in {0, 1} /\ Taken = Len(answers) + Len(outgoing) + InHand /\ Taken \in Nat
         /\ Len(answers) + Len(outgoing) <= Len(messages)
<1>1. /\ messages \in Seq(Queries) /\ incoming \in Seq(Queries) /\ answers \in Seq(Responses)
      /\ outgoing \in Seq(Responses) /\ Len(answers) + Len(outgoing) <= Len(messages)
  BY DEF WebSocketTypeOK, PipeInv, AnswerInv
<1>2. Len(messages) \in Nat /\ Len(incoming) \in Nat /\ Len(answers) \in Nat /\ Len(outgoing) \in Nat
  BY <1>1, LenProperties
<1>3. InHand \in {0, 1}
  BY DEF InHand
<1>. QED
  BY <1>1, <1>2, <1>3 DEF Taken

\* A query that is asked goes to the end of the pipeline.
LEMMA AskPipes ==
  ASSUME WebSocketTypeOK, PipeInv, NEW query \in Queries, Send(query)
  PROVE  WebSocketTypeOK' /\ PipeInv'
<1>. USE PipeFacts
<1>. DEFINE n == Len(messages)
            m == Len(incoming)
<1>1. /\ messages' = Append(messages, query) /\ incoming' = Append(incoming, query)
      /\ UNCHANGED <<answers, connected, place, failed, buffer_, response, outgoing>>
      /\ n < MaxMessages
  BY DEF Send, coroutine
<1>2. /\ messages' \in Seq(Queries) /\ Len(messages') = n + 1 /\ messages'[n + 1] = query
      /\ \A i \in 1 .. n : messages'[i] = messages[i]
  BY <1>1, AppendProperties
<1>3. /\ incoming' \in Seq(Queries) /\ Len(incoming') = m + 1 /\ incoming'[m + 1] = query
      /\ \A i \in 1 .. m : incoming'[i] = incoming[i]
  BY <1>1, AppendProperties
<1>4. n \in Nat /\ m \in Nat
  OBVIOUS
<1>. HIDE DEF n, m
<1>5. WebSocketTypeOK'
  <2>1. Len(messages') <= MaxMessages
    BY <1>1, <1>2, <1>4, WebSocketAssumption
  <2>2. Len(answers) <= Len(messages')
    BY <1>2, <1>4 DEF n
  <2>. QED
    BY <1>1, <1>2, <1>3, <2>1, <2>2 DEF WebSocketTypeOK
<1>6. AnswerInv'
  <2>1. /\ \A i \in 1 .. Len(answers) : i \in 1 .. n
        /\ \A i \in 1 .. Len(outgoing) : Len(answers) + i \in 1 .. n
        /\ Len(answers) + Len(outgoing) <= n + 1
    BY DEF n
  <2>. QED
    BY <1>1, <1>2, <2>1 DEF PipeInv, AnswerInv
<1>7. WorkInv'
  <2>. SUFFICES ASSUME Working
                PROVE  /\ Taken + Len(incoming') = Len(messages')
                       /\ \A i \in 1 .. Len(incoming') : incoming'[i] = messages'[Taken + i]
                       /\ buffer_ = IF InHand = 1 THEN messages'[Taken] ELSE <<>>
                       /\ place = "write" => response = Respond(buffer_)
    BY <1>1 DEF WorkInv, Working, Taken, InHand
  <2>1. /\ Taken + m = n
        /\ \A i \in 1 .. m : incoming[i] = messages[Taken + i]
        /\ buffer_ = IF InHand = 1 THEN messages[Taken] ELSE <<>>
        /\ place = "write" => response = Respond(buffer_)
    BY DEF PipeInv, WorkInv, m, n
  <2>0. Taken \in Nat
    OBVIOUS
  <2>2. Taken + Len(incoming') = Len(messages')
    BY ONLY <1>2, <1>3, <1>4, <2>0, <2>1
  <2>3. ASSUME NEW i \in 1 .. Len(incoming') PROVE incoming'[i] = messages'[Taken + i]
    <3>1. CASE i = m + 1
      <4>1. Taken + i = n + 1
        BY ONLY <1>4, <2>0, <2>1, <3>1
      <4>. QED
        BY <1>2, <1>3, <3>1, <4>1
    <3>2. CASE i # m + 1
      <4>1. i \in 1 .. m /\ Taken + i \in 1 .. n
        BY ONLY <1>3, <1>4, <2>0, <2>1, <3>2
      <4>. QED
        BY <1>2, <1>3, <2>1, <4>1
    <3>. QED
      BY <3>1, <3>2
  <2>4. InHand = 1 => messages'[Taken] = messages[Taken]
    <3>1. InHand = 1 => Taken \in 1 .. n
      BY <1>4, <2>1
    <3>. QED
      BY <1>2, <3>1
  <2>. QED
    BY <2>1, <2>2, <2>3, <2>4
<1>. QED
  BY <1>5, <1>6, <1>7 DEF PipeInv

\* A message that is read is the next one, and the buffer was empty before.
LEMMA ReadPipes == ASSUME WebSocketTypeOK, PipeInv, Read PROVE WebSocketTypeOK' /\ PipeInv'
<1>. USE PipeFacts
<1>1. /\ place = "read" /\ place' = "respond" /\ incoming # <<>>
      /\ buffer_' = buffer_ \o Head(incoming) /\ incoming' = Tail(incoming)
      /\ UNCHANGED <<failed, response, messages, answers, connected, outgoing>>
  BY DEF Read, peer
<1>2. ~failed /\ Working /\ InHand = 0 /\ InHand' = 1 /\ Working'
  BY <1>1 DEF WebSocketTypeOK, Working, InHand
<1>3. /\ Taken = Len(answers) + Len(outgoing) /\ Taken' = Taken + 1
      /\ Taken + Len(incoming) = Len(messages) /\ buffer_ = <<>>
      /\ \A i \in 1 .. Len(incoming) : incoming[i] = messages[Taken + i]
  BY <1>1, <1>2 DEF PipeInv, WorkInv, Taken
<1>4. /\ Len(incoming) >= 1 /\ incoming' \in Seq(Queries) /\ Len(incoming') = Len(incoming) - 1
      /\ Head(incoming) = incoming[1] /\ Head(incoming) \in Queries
      /\ \A i \in 1 .. Len(incoming) - 1 : incoming'[i] = incoming[i + 1]
  <2>1. Len(incoming) >= 1
    BY <1>1
  <2>. QED
    BY <1>1, <2>1, HeadTailProperties
<1>5. buffer_' = messages[Taken']
  <2>1. Head(incoming) = messages[Taken + 1]
    BY <1>3, <1>4
  <2>2. <<>> \o Head(incoming) = Head(incoming)
    BY <1>4, QueriesAreSeqs, ConcatEmptySeq
  <2>. QED
    BY <1>1, <1>3, <2>1, <2>2
<1>6. ASSUME NEW i \in 1 .. Len(incoming') PROVE incoming'[i] = messages[Taken' + i]
  <2>1. i \in 1 .. Len(incoming) - 1 /\ i + 1 \in 1 .. Len(incoming) /\ Taken' + i = Taken + (i + 1)
    BY <1>3, <1>4
  <2>. QED
    BY <1>3, <1>4, <2>1
<1>7. Taken' + Len(incoming') = Len(messages)
  <2>. DEFINE k == Len(incoming)
              l == Len(incoming')
              n == Len(messages)
              t == Taken
  <2>1. t \in Nat /\ k \in Nat /\ l = k - 1 /\ t + k = n /\ Taken' = t + 1
    BY <1>3, <1>4
  <2>. HIDE DEF k, l, n, t
  <2>2. t + 1 + l = n
    BY ONLY <2>1
  <2>. QED
    BY <2>1, <2>2 DEF l, n
<1>8. WebSocketTypeOK'
  BY <1>1, <1>4 DEF WebSocketTypeOK
<1>9. AnswerInv'
  BY <1>1 DEF PipeInv, AnswerInv
<1>10. WorkInv'
  BY <1>1, <1>2, <1>5, <1>6, <1>7 DEF WorkInv
<1>. QED
  BY <1>8, <1>9, <1>10 DEF PipeInv

\* The answer that is written is the one to the message in hand.
LEMMA WritePipes == ASSUME WebSocketTypeOK, PipeInv, Write PROVE WebSocketTypeOK' /\ PipeInv'
<1>. USE PipeFacts
<1>. DEFINE c == Len(outgoing)
<1>1. /\ place = "write" /\ place' = "read" /\ ~failed /\ outgoing' = Append(outgoing, response)
      /\ buffer_' = <<>> /\ UNCHANGED <<failed, response, messages, answers, connected, incoming>>
  BY DEF Write, WriteTo, peer
<1>2. Working /\ InHand = 1 /\ InHand' = 0 /\ Working'
  BY <1>1 DEF Working, InHand
<1>3. /\ Taken = Len(answers) + c + 1 /\ Taken + Len(incoming) = Len(messages)
      /\ \A i \in 1 .. Len(incoming) : incoming[i] = messages[Taken + i]
      /\ buffer_ = messages[Taken] /\ response = Respond(messages[Taken])
  BY <1>1, <1>2 DEF PipeInv, WorkInv
<1>4. Taken \in 1 .. Len(messages) /\ messages[Taken] \in Queries
  <2>1. Taken \in 1 .. Len(messages)
    BY <1>3
  <2>. QED
    BY <2>1, ElementOfSeq
<1>5. response \in Responses
  BY <1>3, <1>4 DEF Responses
<1>6. /\ outgoing' \in Seq(Responses) /\ Len(outgoing') = c + 1 /\ outgoing'[c + 1] = response
      /\ \A i \in 1 .. c : outgoing'[i] = outgoing[i]
  BY <1>1, <1>5, AppendProperties
<1>7. Taken' = Taken
  BY <1>1, <1>2, <1>3, <1>6 DEF Taken
<1>8. WebSocketTypeOK'
  BY <1>1 DEF WebSocketTypeOK
<1>9. AnswerInv'
  <2>1. ASSUME NEW i \in 1 .. Len(outgoing')
        PROVE  outgoing'[i] = Respond(messages[Len(answers) + i])
    <3>1. CASE i = c + 1
      <4>1. Len(answers) + i = Taken
        BY <1>3, <3>1
      <4>. QED
        BY <1>3, <1>6, <3>1, <4>1
    <3>2. CASE i # c + 1
      <4>1. i \in 1 .. c
        BY <1>6, <3>2
      <4>. QED
        BY <1>6, <4>1 DEF PipeInv, AnswerInv
    <3>. QED
      BY <3>1, <3>2
  <2>2. Len(answers) + Len(outgoing') <= Len(messages)
    BY <1>3, <1>6
  <2>. QED
    BY <1>1, <1>6, <2>1, <2>2 DEF PipeInv, AnswerInv
<1>10. WorkInv'
  BY <1>1, <1>2, <1>3, <1>7 DEF WorkInv
<1>. QED
  BY <1>8, <1>9, <1>10 DEF PipeInv

\* The client receives the answer to the first query it has no answer to.
LEMMA ReceivePipes ==
  ASSUME WebSocketTypeOK, PipeInv, ReceiveAnswer
  PROVE  /\ WebSocketTypeOK' /\ PipeInv'
         /\ Len(answers) < Len(messages)
         /\ answers' = Append(answers, Respond(messages[Len(answers) + 1]))
<1>. USE PipeFacts
<1>. DEFINE n == Len(answers)
            c == Len(outgoing)
<1>1. /\ outgoing # <<>> /\ answers' = Append(answers, Head(outgoing)) /\ outgoing' = Tail(outgoing)
      /\ UNCHANGED <<messages, connected, place, failed, buffer_, response, incoming>>
  BY DEF ReceiveAnswer, coroutine
<1>2. /\ c >= 1 /\ outgoing' \in Seq(Responses) /\ Len(outgoing') = c - 1
      /\ Head(outgoing) = outgoing[1] /\ Head(outgoing) \in Responses
      /\ \A i \in 1 .. c - 1 : outgoing'[i] = outgoing[i + 1]
  <2>1. c >= 1
    BY <1>1
  <2>. QED
    BY <1>1, <2>1, HeadTailProperties
<1>3. /\ answers' \in Seq(Responses) /\ Len(answers') = n + 1 /\ answers'[n + 1] = Head(outgoing)
      /\ \A i \in 1 .. n : answers'[i] = answers[i]
  BY <1>1, <1>2, AppendProperties
<1>4. Head(outgoing) = Respond(messages[n + 1])
  BY <1>2 DEF PipeInv, AnswerInv
<1>5. n < Len(messages) /\ n + 1 <= Len(messages)
  BY <1>2
<1>6. WebSocketTypeOK'
  BY <1>1, <1>3, <1>5 DEF WebSocketTypeOK
<1>7. AnswerInv'
  <2>1. ASSUME NEW i \in 1 .. Len(answers') PROVE answers'[i] = Respond(messages[i])
    <3>1. i = n + 1 \/ i \in 1 .. n
      BY <1>3
    <3>. QED
      BY <1>3, <1>4, <3>1 DEF PipeInv, AnswerInv
  <2>2. ASSUME NEW i \in 1 .. Len(outgoing')
        PROVE  outgoing'[i] = Respond(messages[Len(answers') + i])
    <3>1. i \in 1 .. c - 1 /\ i + 1 \in 1 .. c /\ Len(answers') + i = n + (i + 1)
      BY <1>2, <1>3
    <3>. QED
      BY <1>2, <3>1 DEF PipeInv, AnswerInv
  <2>3. Len(answers') + Len(outgoing') <= Len(messages)
    BY <1>2, <1>3
  <2>. QED
    BY <1>1, <1>2, <1>3, <2>1, <2>2, <2>3 DEF AnswerInv
<1>8. WorkInv'
  <2>1. InHand' = InHand /\ Working' = Working
    BY <1>1 DEF InHand, Working
  <2>2. Taken' = Taken
    BY <1>1, <1>2, <1>3, <2>1 DEF Taken
  <2>. QED
    BY <1>1, <2>1, <2>2 DEF PipeInv, WorkInv
<1>. QED
  BY <1>1, <1>4, <1>5, <1>6, <1>7, <1>8 DEF PipeInv

\* The other steps of the loop, and the client that closes, leave what is asked and
\* answered as it is.
LEMMA OthersPipe ==
  ASSUME WebSocketTypeOK, PipeInv,
         \/ Accept \/ ReadFails \/ Closed \/ Answer \/ WriteFails \/ CloseStream
         \/ UNCHANGED webSocketVars
  PROVE  WebSocketTypeOK' /\ PipeInv'
<1>1. UNCHANGED <<messages, answers, outgoing, incoming>>
  BY DEF Accept, ReadFails, ReadFailsTo, Closed, Answer, WriteFails,
    WriteFailsTo, CloseStream, webSocketVars, peer, coroutine, frames
<1>2. WebSocketTypeOK'
  <2>1. /\ place' \in {"accept", "read", "respond", "write", "gone"}
        /\ failed' \in BOOLEAN /\ connected' \in BOOLEAN
        /\ failed' => place' \in {"respond", "write", "gone"}
    <3>1. CASE Accept \/ Closed
      BY <3>1 DEF Accept, Closed, WebSocketTypeOK, peer
    <3>2. CASE ReadFails
      BY <3>2 DEF ReadFails, ReadFailsTo, WebSocketTypeOK, peer
    <3>3. CASE Answer \/ WriteFails
      BY <3>3 DEF Answer, WriteFails, WriteFailsTo, WebSocketTypeOK, peer
    <3>4. CASE CloseStream \/ UNCHANGED webSocketVars
      <4>1. place' = place /\ failed' = failed /\ (connected' = FALSE \/ connected' = connected)
        BY <3>4 DEF CloseStream, webSocketVars, coroutine, peer
      <4>2. /\ place \in {"accept", "read", "respond", "write", "gone"} /\ failed \in BOOLEAN
            /\ connected \in BOOLEAN /\ (failed => place \in {"respond", "write", "gone"})
        BY DEF WebSocketTypeOK
      <4>. QED
        BY ONLY <4>1, <4>2, Zenon
    <3>. QED
      BY <3>1, <3>2, <3>3, <3>4
  <2>. QED
    BY <1>1, <2>1 DEF WebSocketTypeOK
<1>3. AnswerInv'
  BY <1>1 DEF PipeInv, AnswerInv
<1>4. WorkInv'
  <2>1. CASE Accept
    BY <2>1 DEF Accept, peer, frames, PipeInv, WorkInv, Working, Taken, InHand
  <2>2. CASE Answer
    BY <2>2 DEF Answer, peer, frames, PipeInv, WorkInv, Working, Taken, InHand
  <2>3. CASE ReadFails \/ Closed \/ WriteFails
    BY <2>3 DEF ReadFails, ReadFailsTo, Closed, WriteFails, WriteFailsTo,
      WorkInv, Working
  <2>4. CASE CloseStream \/ UNCHANGED webSocketVars
    BY <2>4 DEF CloseStream, webSocketVars, peer, coroutine, frames, PipeInv, WorkInv,
      Working, Taken, InHand
  <2>. QED
    BY <2>1, <2>2, <2>3, <2>4
<1>. QED
  BY <1>2, <1>3, <1>4 DEF PipeInv

\* The loop and the client keep the pipeline.
LEMMA PipeStep ==
  WebSocketTypeOK /\ PipeInv /\ [WebSocketNext]_webSocketVars => (WebSocketTypeOK /\ PipeInv)'
BY AskPipes, ReadPipes, WritePipes, ReceivePipes, OthersPipe DEF WebSocketNext, Loop

\* The type invariant of the WebSocket session: also after errors, however they fall.
THEOREM WebSocketTypeCorrect == WebSocketSpec => []WebSocketTypeOK
BY PipeStarts, PipeStep, PTL DEF WebSocketSpec

\* The dispatch is the same for the abstract service.
LEMMA SameMessageDispatch ==
  /\ AbstractMessages!Queries = Queries
  /\ \A query :
       AbstractMessages!Trimmed(AbstractMessages!Respond(query)) = WithoutNewlines(Respond(query))
BY DEF AbstractMessages!Trimmed, AbstractMessages!Respond, AbstractMessages!Fields,
  AbstractMessages!Lookup, AbstractMessages!Location, AbstractMessages!Found,
  AbstractMessages!IsKnown, AbstractMessages!About, AbstractMessages!Text,
  AbstractMessages!Prefix, AbstractMessages!NL, AbstractMessages!Queries,
  AbstractMessages!Addresses, AbstractMessages!Without, WithoutNewlines, Respond, Fields,
  Lookup, Location, Found, IsKnown, About, Text, Prefix, NL, Queries, Addresses, Without

\* Each message of a WebSocket client gets its own answer, once and in order, with as
\* many under way as Window says: the coroutine answers one message after the other
\* and clears its buffer between them, and after an error it writes nothing more.
THEOREM WebSocketImplementsQueryService == WebSocketSpec => MessagesImplementQueryService
<1>. DEFINE seen == [i \in DOMAIN answers |-> WithoutNewlines(answers[i])]
<1>1. WebSocketInit => AbstractMessages!Init
  BY DEF WebSocketInit, AbstractMessages!Init
<1>2. WebSocketTypeOK /\ PipeInv /\ [WebSocketNext]_webSocketVars
        => [AbstractMessages!Next]_(AbstractMessages!absVars)
  <2>. SUFFICES ASSUME WebSocketTypeOK, PipeInv, [WebSocketNext]_webSocketVars
                PROVE  AbstractMessages!Next \/ UNCHANGED AbstractMessages!absVars
    OBVIOUS
  <2>1. answers \in Seq(Responses) /\ Len(answers) \in Nat /\ DOMAIN answers = 1 .. Len(answers)
    BY PipeFacts, LenProperties
  <2>2. Len(seen) = Len(answers)
    BY <2>1
  <2>3. ASSUME NEW query \in Queries, Send(query) PROVE AbstractMessages!Next
    <3>1. AbstractMessages!Ask(query)
      BY <2>2, <2>3 DEF Send, AbstractMessages!Ask
    <3>. QED
      BY <3>1, SameMessageDispatch DEF AbstractMessages!Next
  <2>4. CASE ReceiveAnswer
    <3>. DEFINE n == Len(answers)
                a == Respond(messages[n + 1])
    <3>1. n < Len(messages) /\ answers' = Append(answers, a) /\ messages' = messages
      BY <2>4, ReceivePipes DEF ReceiveAnswer
    <3>. HIDE DEF a
    <3>2. seen' = Append(seen, WithoutNewlines(a))
      <4>1. /\ Len(answers') = n + 1 /\ DOMAIN answers' = 1 .. n + 1 /\ answers'[n + 1] = a
            /\ \A i \in 1 .. n : answers'[i] = answers[i]
        BY <2>1, <3>1
      <4>2. seen' = [i \in 1 .. n + 1 |-> WithoutNewlines(answers'[i])]
        BY <4>1
      <4>3. Append(seen, WithoutNewlines(a)) =
              [i \in 1 .. n + 1 |-> IF i = n + 1 THEN WithoutNewlines(a) ELSE seen[i]]
        BY <2>1, <2>2
      <4>. QED
        BY <2>1, <4>1, <4>2, <4>3
    <3>3. WithoutNewlines(a) = AbstractMessages!Trimmed(AbstractMessages!Respond(messages[n + 1]))
      BY SameMessageDispatch DEF a
    <3>4. AbstractMessages!Answer
      BY <2>2, <3>1, <3>2, <3>3 DEF AbstractMessages!Answer
    <3>. QED
      BY <3>4 DEF AbstractMessages!Next
  <2>5. CASE Loop \/ CloseStream \/ UNCHANGED webSocketVars
    <3>1. UNCHANGED <<messages, answers>>
      BY <2>5 DEF Loop, Accept, Read, ReadFails, ReadFailsTo, Closed,
        Answer, Write, WriteTo, WriteFails, WriteFailsTo, CloseStream, webSocketVars,
        peer
    <3>. QED
      BY <3>1 DEF AbstractMessages!absVars
  <2>. QED
    BY <2>3, <2>4, <2>5 DEF WebSocketNext
<1>. QED
  BY <1>1, <1>2, PipeStarts, PipeStep, PTL DEF WebSocketSpec, MessagesImplementQueryService,
    AbstractMessages!Spec
=============================================================================
