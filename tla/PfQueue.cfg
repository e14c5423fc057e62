\* Packets of three flows at any time; room for two long ones.
SPECIFICATION FairSpec
CONSTANTS
    Kinds <- MCKinds
    LimitBytes = 4
    HdrTicks = 1
    PropTicks = 1
    CutThrough = FALSE
    EventIds = {1, 2, 3, 4, 5}
    MaxArrivals = 4
INVARIANTS
    OnePlace
    NoInversion
    FlowOrder
PROPERTY
    Drains
