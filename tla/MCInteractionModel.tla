------------------------- MODULE MCInteractionModel -------------------------
(* Instances of InteractionModel for TLC. *)
EXTENDS InteractionModel

CONSTANTS p1, t1, x1, x2

OnePeer == {p1}
OneTestPeer == {t1}
TwoIds == {1, 2}
TwoExchanges == {x1, x2}
\* Each kind of handler, lists that go on after an await, and lists in which a
\* handler throws, at once or after its await.
EachKind ==
    {<<"AttestationRequest", "CsrRequest">>,
     <<"CsrRequest", "CommissioningComplete">>,
     <<"CsrRequest", "MfgSpecificPing">>,
     <<"CertificateChainRequest", "CsrRequest">>,
     <<"WriteRequest">>,
     <<"AddNoc">>}
OnlyReads == {<<"ReadRequest">>}
=============================================================================
