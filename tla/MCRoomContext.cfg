SPECIFICATION FairSpec
CONSTANTS
    Agent = {a1, a2}
    a1 = a1
    a2 = a2
    Owner = a1
    Size <- MCSize
    Soft = 3
    Hard = 4
    SummarySize = 1
    InputBudget = 2
    Retain = 2
    MaxReplyDepth = 1
    MaxPasses = 2
    CompactionAttempts = 2
    RollupAttempts = 2
    MaxPosted = 3
    MaxQueued = 1
    MaxFaults = 1
    MaxCommands = 1
    MaxRestarts = 1
    MaxRollupFaults = 1
    MaxTroubles = 1
    MaxEdits = 1
INVARIANTS ContextIsWhole FoldedOnce
CHECK_DEADLOCK FALSE
PROPERTIES PreparesEnd SourcesAreFolded
