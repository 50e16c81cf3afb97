CONSTANTS
    a = a
    b = b
    p1 = p1
    p2 = p2
    None = None
    Nodes <- TwoNodes
    Ports <- TwoPorts
    Limit <- TwoRestarts
SPECIFICATION Spec
SYMMETRY Symmetry
INVARIANTS
    TypeOK
    RepliesReachRequester
    RequestsSeparated
    NoReplyDropped
    AckNamesReceived
CHECK_DEADLOCK FALSE
