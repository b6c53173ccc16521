SPECIFICATION Spec
CONSTANTS
    NPartitions = 2
    Record = {"a1", "a2", "b1"}
    PartOf <- MCPartOf
    Formats = {"v4"}
    Options = {"plain", "dict"}
    Dicts = {1, 2}
    FaultKinds = {"crash"}
    MaxFaults = 1
INVARIANT
    SealedHoldsAll
CHECK_DEADLOCK FALSE
