SPECIFICATION Spec
CONSTANTS
    a1 = a1
    a2 = a2
    t1 = t1
    t2 = t2
    t3 = t3
    Actor = {a1, a2}
    Turn = {t1, t2, t3}
    Attempt = {x1, x2}
    TargetOf <- MCTargetOf
    QueuePerActor = 1
    MaxSeq = 1
    NoTurn = NoTurn
SYMMETRY Symmetric
INVARIANTS
    QueueWithinLimit
