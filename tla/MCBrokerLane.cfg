SPECIFICATION FairSpec
CONSTANTS
    Turn = {t1, t2}
    NoTurn = NoTurn
INVARIANTS
    ActiveTurnIsExecuted
    RecoveryFindsNoLiveTurn
    NoLostWakeup
PROPERTIES
    ImplementsTurnProtocol
    QueuedTurnsEnd
    CancelledTurnsEnd
