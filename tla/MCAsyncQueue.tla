---------------------------- MODULE MCAsyncQueue ----------------------------
(* An instance of AsyncQueue for TLC. *)
EXTENDS AsyncQueue

CONSTANTS v1, v2

TwoValues == {v1, v2}
=============================================================================
