--------------------------- MODULE MCQueueBuffer ----------------------------
(* Instances of QueueBuffer for TLC. *)
EXTENDS QueueBuffer, TLC

CONSTANTS p1, p2, p3

TwoProducers == {p1, p2}
ThreeProducers == {p1, p2, p3}
Symmetry == Permutations(Producers)
=============================================================================
