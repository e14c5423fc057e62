SPECIFICATION Spec
CONSTANTS
    K = 4
    NumHosts = 6
    NumAgg = 3
    NumCore = 2
    Topology = {"SnsFatTree", "FatTree", "SnsLeafSpine", "LeafSpine"}
    LoadBalancing = {0, 1, 3}
    Source = {0, 1, 5, 6, 7, 10, 15, 16}
    FlowId = {0, 1}
    Exchanges = 1
INVARIANTS
    NoneAstray
    DataOnSimPath
    LinksPaired
CHECK_DEADLOCK FALSE
