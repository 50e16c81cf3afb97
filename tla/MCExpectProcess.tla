-------------------------- MODULE MCExpectProcess --------------------------
(* Instances of ExpectProcess for TLC. *)
EXTENDS ExpectProcess, TLC

CONSTANTS t1, t2

TwoTexts == {t1, t2}

Symmetry == Permutations(TwoTexts)
=============================================================================
