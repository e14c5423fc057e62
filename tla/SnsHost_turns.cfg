\* Three flows of one collective that come and finish at any time.
SPECIFICATION FairSpec
CONSTANTS
    f1 = f1
    f2 = f2
    f3 = f3
    Flows = {f1, f2, f3}
    NoFlow = NoFlow
    collective_id <- OneCollective
    NumData = 2
    HdrTicks = 1
    DataTicks = 1
    SimTicks = 1
    MaxPackets = 1
    MaxPasses = 2
INVARIANTS FlowsTakeTurns TurnsPaced
PROPERTY FlowsServed
