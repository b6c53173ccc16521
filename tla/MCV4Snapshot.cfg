CONSTANTS
    Key <- MCKey
    Hash <- MCHash
    NPartitions = 2
    Lengths = {52, 53, 4085}
    MaxRecords = 3
    Word = 16384
    MaxOffset = 65
    MaxChain = 2
    GroupSize = 8
    Drivers = {"writer", "builder"}
    MaxCrashes = 1
SPECIFICATION FairSpec
INVARIANTS OffsetsNameValues  
PROPERTY BuildResumes
