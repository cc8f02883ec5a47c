----------------------------- MODULE MCService ------------------------------
(* Instances of Service for TLC. *)
EXTENDS Service, TLC

CONSTANTS t1, t2, c1, w1

TwoThreads == {t1, t2}
OneConn == {c1}
OneWsConn == {w1}
=============================================================================
