CONSTANTS
    p1 = p1
    p2 = p2
    None = None
    Procs <- TwoProcs
    Nums <- TwoNums
    Digits <- OneDigit
    ManualPorts <- OnePort
    MaxLaunches = 2
    MaxSets = 1
SPECIFICATION Spec
SYMMETRY Symmetry
INVARIANTS
    ManualPortUsed
CHECK_DEADLOCK FALSE
