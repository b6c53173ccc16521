SPECIFICATION FairSpec
CONSTANTS
    NPartitions = 2
    Record = {"a1", "a2", "b1"}
    PartOf <- MCPartOf
    Formats = {"v4", "v5"}
    Options = {"plain", "dict"}
    Dicts = {1, 2}
    FaultKinds = {"crash", "source", "write", "rerun"}
    MaxFaults = 3
INVARIANTS
    
    SealedUniform
    
PROPERTY
    LoadSeals
CHECK_DEADLOCK FALSE
