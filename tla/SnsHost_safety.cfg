SPECIFICATION Spec
CONSTANTS
    f1 = f1
    f2 = f2
    f3 = f3
    Flows = {f1, f3}
    NoFlow = NoFlow
    collective_id <- WithDirect
    NumData = 1
    HdrTicks = 1
    DataTicks = 3
    SimTicks = 2
    MaxPackets = 3
    MaxPasses = 2
INVARIANTS SimsOnTime LineRateKept ProbesServed
