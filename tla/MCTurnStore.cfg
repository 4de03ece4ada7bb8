SPECIFICATION Spec
CONSTANTS
    a1 = a1
    a2 = a2
    t1 = t1
    t2 = t2
    t3 = t3
    Actor = {a1}
    Turn = {t1, t2}
    Attempt = {x1, x2, x3}
    TargetOf <- MCTargetOf
    QueuePerActor = 2
    MaxSeq = 2
    NoTurn = NoTurn
SYMMETRY Symmetric
INVARIANTS
    OneActiveTurnPerActor
    OpenAttemptIsTheActiveTurns
    PromptAtMostOnce
    FifoPerActor
    CursorIsWhatWasDelivered
PROPERTIES
    ImplementsTurnProtocol
