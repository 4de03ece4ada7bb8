SPECIFICATION Spec
CONSTANTS
    MaxTurns = 2
    MaxMemories = 2
    Click = {1, 2}
    RecentLimit = 3
    PageSize = 1
    MaxDrafts = 2
    MaxLoads = 2
    MaxEffort = 5
    Content = {c1}
INVARIANTS OncePerDraft TurnsAreCurrent CardsAreCurrent NoStreamBesideAnswer
CONSTRAINTS OneTopic OneStream WithinEffort
CHECK_DEADLOCK FALSE
