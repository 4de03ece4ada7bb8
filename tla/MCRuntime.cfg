SPECIFICATION FairSpec
CONSTANTS
    a1 = a1
    a2 = a2
    AgentOrder <- MCOrder
    Several <- MCSeveral
    StartAttempts = 2
    MaxLaunches = 4
    MaxEvents = 3
INVARIANTS SessionsAreBacked LifecycleIsCleared RestartsAreReal
PROPERTIES ContinuityIsKept RestartAndCloseEnd
CHECK_DEADLOCK FALSE
