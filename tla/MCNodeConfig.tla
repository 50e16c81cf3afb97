---------------------------- MODULE MCNodeConfig ----------------------------
(* Instances of NodeConfig for TLC. *)
EXTENDS NodeConfig, TLC

CONSTANTS p1, p2

TwoProcs == {p1, p2}
TwoNums == {0, 1}
TwoDigits == {"a", "b"}
OneDigit == {"a"}
OnePort == {5550}

Symmetry == Permutations(TwoProcs)
=============================================================================
