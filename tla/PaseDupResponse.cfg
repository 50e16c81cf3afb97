SPECIFICATION Spec
CONSTANTS
    e1 = e1
    e2 = e2
    i1 = i1
    i2 = i2
    None = None
    Exchanges <- OneExchange
    SessionIds <- OneId
    Faults <- NoFaults
    MaxDup = 1
    MaxRestarts = 0
    AwaitYields = FALSE
INVARIANTS
    ClientKeyNegotiated
CHECK_DEADLOCK FALSE
