------------------------------ MODULE LogQueue ------------------------------
(***************************************************************************)
(* What the guaranteed logger promises its callers (NanoLog.h, the         *)
(* GuaranteedLogger comment): every line a thread logs is accepted once,   *)
(* keeps its place in one total order that respects the order of each      *)
(* thread, and is handed to the log writer once, in that order.  A line    *)
(* whose producer has its place but has not finished storing it holds up   *)
(* the lines behind it.                                                    *)
(***************************************************************************)
EXTENDS Naturals, Sequences, FiniteSets

CONSTANT Producers      \* the threads that log

VARIABLES
  order,       \* the accepted lines, in the order of their places
  ready,       \* the accepted lines whose producer has stored them
  delivered    \* the lines handed to the log writer

absVars == <<order, ready, delivered>>

NextLine(p) == <<p, Cardinality({i \in DOMAIN order : order[i][1] = p}) + 1>>

Init ==
  /\ order = <<>>
  /\ ready = {}
  /\ delivered = <<>>

Accept(p) ==
  /\ order' = Append(order, NextLine(p))
  /\ UNCHANGED <<ready, delivered>>

Store(i) ==
  /\ order[i] \notin ready
  /\ ready' = ready \cup {order[i]}
  /\ UNCHANGED <<order, delivered>>

Deliver ==
  /\ Len(delivered) < Len(order)
  /\ order[Len(delivered) + 1] \in ready
  /\ delivered' = Append(delivered, order[Len(delivered) + 1])
  /\ UNCHANGED <<order, ready>>

Next ==
  \/ \E p \in Producers : Accept(p)
  \/ \E i \in DOMAIN order : Store(i)
  \/ Deliver

Spec == Init /\ [][Next]_absVars
=============================================================================
