SPECIFICATION FairSpec
CONSTANTS
    Keys = {1, 2}
    BodyLengths = {0, 2}
    Outcomes = {"VA", "SERVER_ERROR"}
    MaxCommands = 3
INVARIANTS
    InSync
    AnswersInOrder
PROPERTY EveryCommandAnswered
CHECK_DEADLOCK FALSE
