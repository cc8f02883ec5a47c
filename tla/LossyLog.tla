------------------------------ MODULE LossyLog ------------------------------
(***************************************************************************)
(* What NonGuaranteedLogger promises (NanoLog.h): the ring holds at most   *)
(* Size lines, a new line may push one out, and whatever is handed to the  *)
(* log writer was logged and is handed over once.  Nothing is said of the  *)
(* order.                                                                  *)
(***************************************************************************)
EXTENDS Naturals, Sequences, FiniteSets

CONSTANTS
  Lines,       \* the lines that may be logged
  Size         \* the slots of the ring

VARIABLES
  seen,        \* the lines that were put into the ring
  held,        \* the lines in the ring
  delivered    \* the lines handed to the log writer

absVars == <<seen, held, delivered>>

Init == seen = {} /\ held = {} /\ delivered = <<>>

\* At most one line makes way for the new one.
Put(l) ==
  /\ l \notin seen
  /\ seen' = seen \cup {l}
  /\ \E dropped \in SUBSET held :
       /\ Cardinality(dropped) <= 1
       /\ held' = (held \ dropped) \cup {l}
  /\ Cardinality(held') <= Size
  /\ UNCHANGED delivered

Deliver(l) ==
  /\ l \in held
  /\ held' = held \ {l}
  /\ delivered' = Append(delivered, l)
  /\ UNCHANGED seen

Next == \E l \in Lines : Put(l) \/ Deliver(l)

Spec == Init /\ [][Next]_absVars
=============================================================================
