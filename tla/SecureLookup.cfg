CONSTANTS
    p1 = p1
    t1 = t1
    x1 = x1
    x2 = x2
    TestKey = TestKey
    None = None
    Peers <- OnePeer
    TestPeers <- OneTestPeer
    SessionIds <- TwoIds
    ExchangeIds <- TwoExchanges
    Requests <- OnlyReads
    MaxRequests = 2
    MaxExchanges = 2
    MaxRestarts = 0
SPECIFICATION Spec
INVARIANTS
    MatchesSession
CHECK_DEADLOCK FALSE
