SPECIFICATION Spec
CONSTANTS
    Turn = {t1, t2}
    NoTurn = NoTurn
PROPERTY QueuedTurnsSurviveShutdown
