\* Packets of any class at any time; room for two headers and one DATA packet,
\* and for two waiting SIMs.
SPECIFICATION FairSpec
CONSTANTS
    HdrSize = 1
    DataSize = 2
    LimitBytes = 4
    ParamB = 2
    HdrTicks = 1
    DataTicks = 2
    FillTicks = 2
    Chains = {1, 2, 3, 4}
    MaxArrivals = 5
INVARIANTS
    TokensNeverIdle
    ClassOrder
PROPERTY
    Drains
