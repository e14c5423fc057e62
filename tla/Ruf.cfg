\* Two flows of one source.  Flow b is short: it needs tokens only after its resend
\* timeout, and competes for the source then.
SPECIFICATION RufSpec
CONSTANTS
    s1 = s1
    s2 = s2
    r1 = r1
    r2 = r2
    a = a
    b = b
    c = c
    NoHost = none
    Host = {s1, s2, r1, r2}
    Flow = {a, b}
    Tor <- MCTor
    Src <- MCSrc
    Dst <- MCDst
    Size <- MCSize
    TorLimit = 1
    Localize = FALSE
    LimitConns = TRUE
    Grant = {2, 3}
    Round = {0, 1, 2, 3, 4, 5}
    TokenInitial = 1
    TokenWindow = 1
    Lead = 1
    IdleLong = TRUE
    Faults <- FaultKinds
    MaxFaults = 1
INVARIANTS SourceShared ConnectionsKept GrantsInUse
 
CHECK_DEADLOCK FALSE
