SPECIFICATION FairSpec
CONSTANTS
    Key = {1, 2, 3}
    Units <- MCUnits
    MaxHash = 8
    Hashings <- MCHashings
    MaxRecords = 6
    MaxPsl = 3
    MaxOffset = 7
    GroupSize = 3
INVARIANTS
    FindsWhatWasWritten
PROPERTY BuildEnds
