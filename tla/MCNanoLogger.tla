---------------------------- MODULE MCNanoLogger ----------------------------
(* Instances of NanoLogger for TLC. *)
EXTENDS NanoLogger, TLC

CONSTANTS w1, w2

OneWorker == {w1}
TwoWorkers == {w1, w2}

\* The last line a worker logs, and the first of main, are LOG_DEBUGs.
SomeQuiet == (Workers \X {MaxLines}) \cup {<<Main, 1>>}
=============================================================================
