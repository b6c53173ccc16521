SPECIFICATION ServerFairSpec
CONSTANTS
    c1 = c1
    c2 = c2
    Conn = {c1, c2}
    MaxWrites = 3
    Unopenable = {2}
    Capacity = 1
    MaxCrashes = 1
    Args <- MCArgs
    Entries <- MCEntries
    Unparsable = {}
    Closed = {}
    Answer <- MCAnswer
    Keys <- MCKeys
    NotUtf8 = {"?"}
    Dir = "v1"
    Transport <- MCTransport
    MaxLookups = 2
    MaxPanics = 1
INVARIANTS
    GenerationNamesCatalog
    AnswersRight
    MetricsTrue
PROPERTIES
    ConfirmedSticks
    WatchedWritesLoaded
