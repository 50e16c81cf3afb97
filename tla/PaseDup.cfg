SPECIFICATION Spec
CONSTANTS
    e1 = e1
    e2 = e2
    i1 = i1
    i2 = i2
    None = None
    Exchanges <- OneExchange
    SessionIds <- TwoIds
    Faults <- AllFaults
    MaxDup = 2
    MaxRestarts = 1
    AwaitYields = FALSE
SYMMETRY IdSymmetry
INVARIANTS
    TypeOK
    SessionIdsMirror
    NoKeyReuse
CHECK_DEADLOCK FALSE
