CONSTANTS
    p1 = p1
    p2 = p2
    None = None
    Procs <- TwoProcs
    Nums <- TwoNums
    Digits <- TwoDigits
    ManualPorts <- OnePort
    MaxLaunches = 3
    MaxSets = 1
SPECIFICATION Spec
SYMMETRY Symmetry
INVARIANTS
    TypeOK
    ConfigDurable
    AdvertisesItself
PROPERTIES
    NumberedNodesCoexist
    StartKeepsSettings
CHECK_DEADLOCK FALSE
