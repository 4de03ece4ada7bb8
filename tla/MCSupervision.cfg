SPECIFICATION SupervisionSpec
CONSTANTS
    Turn = {t1, t2, t3}
    First = t1
    NoTurn = NoTurn
    Waiter = {c1, c2}
    Watcher = {o1}
    Flight = {s1, s2}
    Command = {k1}
    SteerLimit = 2
    MaxCursor = 1
SYMMETRY Symmetric
INVARIANTS
    NoMissedEnd
    TerminalWaitIsTrue
    WatchMissesNothing
    OneTurnPerSteer
    GuidanceReachesPair
CHECK_DEADLOCK FALSE
