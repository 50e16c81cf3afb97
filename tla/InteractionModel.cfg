CONSTANTS
    p1 = p1
    t1 = t1
    x1 = x1
    x2 = x2
    TestKey = TestKey
    None = None
    Peers <- OnePeer
    TestPeers <- OneTestPeer
    SessionIds <- TwoIds
    ExchangeIds <- TwoExchanges
    Requests <- EachKind
    MaxRequests = 2
    MaxExchanges = 3
    MaxRestarts = 1
SPECIFICATION FairSpec
INVARIANTS
    TypeOK
    HandledOnce
    AnswersItsRequest
    CounterUsedOnce
    CommandsInOrder
PROPERTIES
    CsrAnswered
CHECK_DEADLOCK FALSE
