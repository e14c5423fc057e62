\* Flows with and without reservations; two slots, one loss, timeouts that
\* may come before the answer.
SPECIFICATION FairSpec
CONSTANTS
    Size = 4
    Mss = 2
    SizeInPkt = 2
    AckEvery = 2
    DataPerAck = 2
    Synced = TRUE
    WorstRtt = 3
    Waits = {1}
    AgeCap = 3
    MaxMsgId = 3
    MaxLoss = 1
INVARIANTS
    StopMeansFinished
    BytesCountedOnce
    ReservationKept
    ReleasedOnTime

    
