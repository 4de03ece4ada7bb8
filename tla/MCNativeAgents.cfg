SPECIFICATION Spec
CONSTANTS MaxTurns = 2 MaxLaunches = 1 MaxFaults = 1 MaxPipe = 1
INVARIANTS OneOwnOutcome NoOrphan
PROPERTIES PromptsEnd
CHECK_DEADLOCK FALSE
