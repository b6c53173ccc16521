SPECIFICATION FairSpec
CONSTANTS
    MaxVersion = 2
    Named = {2}
    MaxLag = 1
    Retention = 1
    FaultKinds = {"api", "restart", "build", "delete"}
    MaxFaults = 1
INVARIANTS OneActiveWhenFresh SuccessorRemains ActiveBacked 
PROPERTIES VersionsSettle
