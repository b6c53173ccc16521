SPECIFICATION SparseSpec
CONSTANTS
    Key <- MCKey
    FpOf <- MCFpOf
    FpRange = 8
    LowHalf = 2
    Value <- MCValue
    MaxValueLen = 17
    MinBlock = 16
    MaxAutoBlock = 32
    Overrides = {0, 16}
    Modes = {"none", "zstd-dict"}
    MinCompressLen = 2
    SampleWords = 26
    BucketWords = 20
    MaxBuckets = 2
    FalsePositive = {5}
    MaxRecords = 3
    MaxFailures = 1
INVARIANTS
    EveryRecordPlacedOnce
    
CHECK_DEADLOCK FALSE
