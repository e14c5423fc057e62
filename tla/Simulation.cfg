SPECIFICATION RunSpec
CONSTANTS
    K = 4
    NumHosts = 4
    NumAgg = 2
    NumCore = 1
    Generator = {"PoissonLocal", "Permutation", "Incast", "Outcast", "RackScale", "DcScale", "Reader"}
    NumFlows = 2
    Incast = 2
    Outcast = 2
    NumHostTypes = 3
    RackSize = 4
    Gap = {0, 2}
    Table <- MCTable
    Draws = {1, 2, 6}
    Trace <- MCTrace
    MaxEarly = 1
    MaxSkips = 1
    Mss = 2
    Hdr = 1
    AccessTime = 2
    CoreTime = 1
    Propagation = 1
    Congestion = {0, 3}
    Timeout = 20
    MayStick = {FALSE, TRUE}
    MayTwice = {FALSE}
INVARIANTS
    MatrixAsPromised
    EndsComplete
    
PROPERTIES
    RunEnds
CHECK_DEADLOCK FALSE
