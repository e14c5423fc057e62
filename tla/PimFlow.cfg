SPECIFICATION Spec
CONSTANTS
    long = long
    short = short
    Flow = {long, short}
    Size <- MCSize
    TokenInitial = 1
    TokenWindow = 2
    K = 2
    Lossy = {"token", "data"}
    RtsFirst = TRUE
    MaxFaults = 1
INVARIANTS
    TokensWithinGoal
    LinkAwake
PROPERTY
    ImplementsAckedTransfer
CHECK_DEADLOCK FALSE
