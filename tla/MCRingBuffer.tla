---------------------------- MODULE MCRingBuffer ----------------------------
(* Instances of RingBuffer for TLC. *)
EXTENDS RingBuffer, TLC

CONSTANTS p1, p2, p3

OneProducer == {p1}
TwoProducers == {p1, p2}
ThreeProducers == {p1, p2, p3}
Symmetry == Permutations(Producers)
=============================================================================
