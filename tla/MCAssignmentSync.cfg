SPECIFICATION SyncFairSpec
CONSTANTS
    Node = {n1}
    Lists <- MCUpgrade
    Nil = Nil
    Dataset = {"d1"}
    NodeLabel = {"worker"}
    DatasetLabel = {"hot", "cold"}
    StartLabels <- MCHot
    Binding <- MCBindOne
    MaxGeneration = 3
    FaultKinds = {"sync", "controlplane"}
    MaxFaults = 1
    MaxChanges = 1

    
PROPERTY
    AgentsConvergeInOneLife
