----------------------------- MODULE MCStartup ------------------------------
(* Instances of Startup for TLC. *)
EXTENDS Startup

TheDatabase == Word("geo.mmdb")
MCDatabases == {TheDatabase}
MCEphemeral == {40000}
Cluster(n, m) == Argument(<<n, m>>, NoText)
Name(n) == Argument(<<n>>, NoText)
Text(t) == Argument(<<>>, t)
With(n, t) == Argument(<<n>>, t)

\* Options apart from their values and with them, an empty string, options that are
\* run together, words no option takes, numbers that do not fit, and 1 as it is and
\* with something behind, which a port takes and a flag does not.
Spellings ==
  {Text(NoText), Text(<<"number", 1>>), Text(<<"prefix", 1>>), Text(TheDatabase),
   Name("-p"), Name("-c"), Name("--file"),
   With("-p", <<"number", 65536 + 8010>>), With("--tcp-port", <<"number", 8010>>),
   With("-t", <<"number", 0>>), With("-n", <<"number", 0>>), With("--threads", <<"number", -1>>),
   With("-f", TheDatabase), Cluster("-c", "-p"), Name("--help")}
=============================================================================
