--------------------------- MODULE MCPaseSession ---------------------------
(***************************************************************************)
(* Instances of PaseSession for TLC.  Handshakes and session ids are model *)
(* values; the ids are interchangeable in runs without liveness.           *)
(***************************************************************************)
EXTENDS PaseSession, TLC

CONSTANTS e1, e2, i1, i2

OneExchange == {e1}
TwoExchanges == {e1, e2}
OneId == {i1}
TwoIds == {i1, i2}
AllFaults == [e \in OneExchange |-> {"loss", "timeout"}]
NoFaults == [e \in OneExchange |-> {}]
\* A handshake that may suffer anything, beside one that suffers nothing.
FaultyAndClean == (e1 :> {"loss", "timeout"}) @@ (e2 :> {})
IdSymmetry == Permutations(TwoIds)
=============================================================================
