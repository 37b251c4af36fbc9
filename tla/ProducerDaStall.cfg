CONSTANTS
    p1 = p1
    p2 = p2
    none = none
    Caller <- MCCaller
    NoHolder <- none
    MaxHeight = 3
    MaxDa = 4
    DaCost <- MCDaCost
    DaTxs <- MCDaTxs
    GasLimit = 2
    TxLimit = 2
    MaxFailures = 1
    PredefinedDa <- MCNoPredefined
SPECIFICATION LiveSpec
PROPERTY ChainGrows
CHECK_DEADLOCK FALSE
