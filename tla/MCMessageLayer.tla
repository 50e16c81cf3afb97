--------------------------- MODULE MCMessageLayer ---------------------------
(* Instances of MessageLayer for TLC. *)
EXTENDS MessageLayer, TLC

CONSTANTS a, b, p1, p2

TwoNodes == {a, b}
TwoPorts == {p1, p2}

TwoRestarts == [open |-> 2, send |-> 2, dup |-> 1, restart |-> 2]

Symmetry == Permutations(TwoNodes) \cup Permutations(TwoPorts)
=============================================================================
