---------------------------- MODULE CommandLine -----------------------------
(***************************************************************************)
(* The command line of the service: clara's TokenStream, Opt and Parser    *)
(* (src/util/clara.h) with the options main gives it (src/main.cpp) and    *)
(* the Configuration they write to (src/util/config.h).                    *)
(*                                                                         *)
(* A text is <<"number", n>>, that is the digits of n and no more, or      *)
(* <<"prefix", n>>, with something behind these as in "80x", or            *)
(* <<"word", w>>.                                                          *)
(* An argument is what loadBuffer sees in a string of argv: the names it   *)
(* has behind its dash (several in "-cn", none in a plain word) and the    *)
(* text behind a delimiter, or the plain word itself.                      *)
(***************************************************************************)
EXTENDS Integers, Sequences, SequencesExt

CONSTANTS
  Args,        \* the arguments a user may type
  NoText,      \* an argument without a text
  Cores,       \* std::thread::hardware_concurrency(), 0 where it is not known
  MaxArgs      \* bound: arguments on the command line

Argument(names, text) == [names |-> names, text |-> text]

\* The greatest std::uint16_t.
USHRT_MAX == 65535

Texts == ({"number", "prefix"} \X Int) \cup ({"word"} \X STRING)

ASSUME CommandLineAssumption ==
  /\ Args \subseteq [names : Seq(STRING), text : {NoText} \cup Texts]
  /\ Cores \in 0 .. USHRT_MAX /\ MaxArgs \in Nat

VARIABLES
  argv,        \* the arguments
  it,          \* TokenStream: the arguments from the current one on
  buffer,      \* TokenStream::m_tokenBuffer
  used,        \* the options that were matched; each may be once
  settings,    \* what the options are bound to
  result       \* parsing, or how the parse has ended: ok, help, error

parser == <<argv, it, buffer, used, settings, result>>

\* The names of the options, and what an option of a name sets.
Helps == {"-?", "-h", "--help"}
Names ==
  [wsport |-> {"-p", "--websocket-port"}, tcpport |-> {"-t", "--tcp-port"},
   threads |-> {"-n", "--threads"}, file |-> {"-f", "--file"}, console |-> {"-c", "--console"},
   logLevel |-> {"-l", "--log-level"}, dir |-> {"-o", "--dir"}, help |-> Helps]
Option ==
  [n \in UNION {Names[o] : o \in DOMAIN Names} |-> CHOOSE o \in DOMAIN Names : n \in Names[o]]

Word(w) == <<"word", w>>

Defaults ==
  [wsport |-> 8010, tcpport |-> 2010, threads |-> Cores, file |-> Word(""),
   console |-> FALSE, logLevel |-> Word("info"), dir |-> Word("logs/")]

\* The types, and what TokenStream asserts: while there are tokens, there is a front.
ParserTypeOK ==
  /\ used \subseteq DOMAIN Defaults
  /\ settings.wsport \in Int /\ settings.tcpport \in Int
  /\ settings.threads \in 0 .. USHRT_MAX /\ settings.console \in BOOLEAN
  /\ result \in {"parsing", "ok", "help", "error"}
  /\ it # <<>> => buffer # <<>>

-----------------------------------------------------------------------------
(* convertInto: a port is an int, and a number that is none is a word      *)
(* here; the threads have 16 bits, into which a negative number wraps.     *)
(* Both are read from a stream, which leaves what is behind the digits; a  *)
(* flag is compared as a whole.                                            *)

True == {Word("true"), Word("yes"), Word("on"), Word("y"), <<"number", 1>>}
False == {Word("false"), Word("no"), Word("off"), Word("n"), <<"number", 0>>}

Converts(o, text) ==
  CASE o \in {"wsport", "tcpport"} -> text[1] \in {"number", "prefix"}
    [] o = "threads" -> text[1] \in {"number", "prefix"} /\ text[2] \in -USHRT_MAX .. USHRT_MAX
    [] o = "console" -> text \in True \cup False
    [] OTHER -> TRUE

Converted(o, text) ==
  CASE o \in {"wsport", "tcpport"} -> text[2]
    [] o = "threads" -> text[2] % (USHRT_MAX + 1)
    [] o = "console" -> text \in True
    [] OTHER -> text

-----------------------------------------------------------------------------
(* TokenStream.                                                            *)

Tokens(arg) ==
  [i \in DOMAIN arg.names |-> [type |-> "Option", token |-> arg.names[i]]]
  \o IF arg.text = NoText THEN <<>> ELSE <<[type |-> "Argument", token |-> arg.text]>>

Empty(arg) == Tokens(arg) = <<>>

\* loadBuffer skips empty strings and splits the argument it is at.
Load(rest) ==
  LET full == {i \in DOMAIN rest : ~Empty(rest[i])}
      at == IF full = {} THEN <<>> ELSE SubSeq(rest, CHOOSE i \in full : \A j \in full : i <= j, Len(rest))
  IN  [it |-> at, buffer |-> IF at = <<>> THEN <<>> ELSE Tokens(Head(at))]

More(stream) == stream.buffer # <<>> \/ stream.it # <<>>

AdvanceWith(least, stream) ==
  IF Len(stream.buffer) >= least THEN [stream EXCEPT !.buffer = Tail(@)]
  ELSE Load(IF stream.it = <<>> THEN <<>> ELSE Tail(stream.it))

\* Slip: an option's value in the same string is lost.
AdvanceEarly(stream) == AdvanceWith(3, stream)

Advance(stream) == AdvanceWith(2, stream)

-----------------------------------------------------------------------------
(* Parser::parse: one action is one round of its loop.                     *)

ParserInit ==
  /\ argv \in UNION {[1 .. n -> Args] : n \in 0 .. MaxArgs}
  /\ it = Load(argv).it /\ buffer = Load(argv).buffer
  /\ used = {} /\ settings = Defaults /\ result = "parsing"

Stream == [it |-> it, buffer |-> buffer]
At(stream, type) == More(stream) /\ Head(stream.buffer).type = type
Matches(o) ==
  /\ At(Stream, "Option") /\ Head(buffer).token \in DOMAIN Option
  /\ Option[Head(buffer).token] = o /\ o \notin used

\* Help is the one flag: it ends the parse at once.
ParseHelp ==
  /\ result = "parsing" /\ Matches("help")
  /\ result' = "help"
  /\ UNCHANGED <<argv, it, buffer, used, settings>>

\* The token behind the option is its value.
HasValue(o) ==
  LET next == Advance(Stream) IN At(next, "Argument") /\ Converts(o, Head(next.buffer).token)

ParseOption(o) ==
  /\ result = "parsing" /\ Matches(o) /\ HasValue(o)
  /\ LET next == Advance(Stream)
     IN  /\ settings' = [settings EXCEPT ![o] = Converted(o, Head(next.buffer).token)]
         /\ it' = Advance(next).it /\ buffer' = Advance(next).buffer
  /\ used' = used \cup {o}
  /\ UNCHANGED <<argv, result>>

\* No option takes the token, or the one that does finds no value behind it.
ParseFails ==
  /\ result = "parsing" /\ More(Stream)
  /\ ~Matches("help") /\ ~\E o \in DOMAIN Defaults : Matches(o) /\ HasValue(o)
  /\ result' = "error"
  /\ UNCHANGED <<argv, it, buffer, used, settings>>

ParseEnds ==
  /\ result = "parsing" /\ ~More(Stream)
  /\ result' = "ok"
  /\ UNCHANGED <<argv, it, buffer, used, settings>>

Parse == ParseHelp \/ (\E o \in DOMAIN Defaults : ParseOption(o)) \/ ParseFails \/ ParseEnds

-----------------------------------------------------------------------------
(* What a command line means, without a stream.                            *)

Spelled(args) == FlattenSeq([i \in DOMAIN args |-> Tokens(args[i])])

Target(tokens, i) == Option[tokens[2 * i - 1].token]
Value(tokens, i) == tokens[2 * i].token

\* The first 2 * n tokens are n options with a value each, no option twice.
Pairs(tokens, n) ==
  /\ 2 * n <= Len(tokens)
  /\ \A i \in 1 .. n :
       /\ tokens[2 * i - 1].type = "Option" /\ tokens[2 * i - 1].token \in DOMAIN Option \ Helps
       /\ tokens[2 * i].type = "Argument" /\ Converts(Target(tokens, i), Value(tokens, i))
       /\ \A j \in 1 .. i - 1 : Target(tokens, j) # Target(tokens, i)

\* After these there are no tokens, or it is help that comes next, or something else.
Outcome(tokens, n) ==
  IF Len(tokens) = 2 * n THEN "ok"
  ELSE IF tokens[2 * n + 1].type = "Option" /\ tokens[2 * n + 1].token \in Helps THEN "help"
  ELSE "error"

\* These options are set, and no others.
Sets(tokens, n) ==
  /\ \A i \in 1 .. n : settings[Target(tokens, i)] = Converted(Target(tokens, i), Value(tokens, i))
  /\ \A o \in DOMAIN Defaults \ {Target(tokens, i) : i \in 1 .. n} : settings[o] = Defaults[o]

\* However it is spelled (with a blank, "=" or ":", with empty strings in between), a
\* command line of options with values is accepted and sets just these options; help
\* is found behind such options only; everything else is an error.
ParsesAsSpelled ==
  LET tokens == Spelled(argv)
      n == CHOOSE k \in 0 .. Len(tokens) : Pairs(tokens, k) /\ ~Pairs(tokens, k + 1)
  IN  result # "parsing" =>
        /\ result = Outcome(tokens, n)
        /\ result = "ok" => Sets(tokens, n)
=============================================================================
