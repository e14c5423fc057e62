SPECIFICATION MatchSpec
CONSTANTS
    a = a
    b = b
    c = c
    Host = {a, b, c}
    Pairs <- MCPairs
    PimK = 2
    IterLimit = 2
    SelectMinIters = 1
    EpochLength = 4
    MaxArrivals = 1
    MaxSize = 2
    MaxEpoch = 1
    MaxLate = 1
INVARIANTS
    
    ReceiverPaced
    
CHECK_DEADLOCK FALSE
