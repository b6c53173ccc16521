SPECIFICATION HistoryFairSpec
CONSTANTS
    Node = {n1}
    Lists <- MCLists
    Nil = Nil
    MaxGeneration = 3
    FaultKinds = {"fetch", "report", "agent"}
    MaxFaults = 1
INVARIANTS
    NoLostWakeup
PROPERTIES
    FeedSpec
    AgentCatchesUp
    ReportsConverge
