------------------------------- MODULE MCPool -------------------------------
(* Instances of Pool for TLC. *)
EXTENDS Pool, TLC

CONSTANTS u1, u2, u3

TwoClients == {u1, u2}
ThreeClients == {u1, u2, u3}
Symmetry == Permutations(Clients)
=============================================================================
