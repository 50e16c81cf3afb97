CONSTANTS
    v1 = v1
    v2 = v2
    Pending = Pending
    Values <- TwoValues
    MaxCalls = 6
SPECIFICATION Spec
INVARIANTS
    TypeOK
    NeverBothWaiting
    IsEmptyExact
PROPERTIES
    ImplementsFifo
CHECK_DEADLOCK FALSE
