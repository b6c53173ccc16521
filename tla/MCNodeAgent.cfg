SPECIFICATION FairSpec
CONSTANTS
    Node = {n1}
    Dataset = {"d1", "d2"}
    MaxVersion = 3
    Lists <- MCSteps
    NoPV <- MCOneHasNoPV
    Rollbacks = FALSE
    None = None
    MaxGeneration = 3
    FaultKinds = {"step", "cleanup", "agent", "shutdown", "server"}
    MaxFaults = 2
INVARIANTS
    ServedBacked
    ActiveIsReal
    
PROPERTIES
    
    Converges
CHECK_DEADLOCK FALSE
