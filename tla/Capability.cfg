SPECIFICATION Spec
CONSTANTS
    long = long
    short = short
    Flow = {long, short}
    Size <- MCSize
    CapabilityInitial = 1
    Window = 2
    Lossy = {"capability", "data"}
    MaxFaults = 2
INVARIANT GoalKept
PROPERTY ImplementsAckedTransfer
CHECK_DEADLOCK FALSE
