SPECIFICATION FairSpec
CONSTANTS
    Args <- MCArgs
    Feed <- MCFeed
    NPartitions = 2
    ChannelCapacity = 1
    BlockingThreads = 2
    NoLimit = NoLimit
    FaultKinds = {"open", "source", "write"}
    MaxFaults = 1
INVARIANTS
    RowCapKept
    ScatteredWhole
    StreamOrderKept
PROPERTY PipelineEnds
