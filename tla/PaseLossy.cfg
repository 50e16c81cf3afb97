SPECIFICATION FairSpec
CONSTANTS
    e1 = e1
    e2 = e2
    i1 = i1
    i2 = i2
    None = None
    Exchanges <- TwoExchanges
    SessionIds <- TwoIds
    Faults <- FaultyAndClean
    MaxDup = 0
    MaxRestarts = 1
    AwaitYields = TRUE
INVARIANTS
    ServerKeyConfirmed
    ClientKeyNegotiated
    ServerSurvives
PROPERTIES
    NoHang
    HandshakeCompletes
CHECK_DEADLOCK FALSE
