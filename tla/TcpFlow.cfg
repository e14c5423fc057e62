\* Flows of five packets; two DATA packets are lost, ACKs are late.
SPECIFICATION FairSpec
CONSTANTS
    N = 5
    ShortLast = FALSE
    InitialCwnd = 2
    MaxCwnd = 4
    Lossy = {"DATA"}
    MaxLoss = 2
    MaxNet = 4
INVARIANTS
    AckedIsReceived
    OneTimer
PROPERTY
    ImplementsAckedTransfer
CHECK_DEADLOCK FALSE
