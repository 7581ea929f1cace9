SPECIFICATION Spec
CONSTANTS
    Callers = {c1, c2, c3}
    Keys = {k1, k2}
    Transfers = {t1, t2, t3}
    Limits = {0, 1}
    None = None
SYMMETRY Symmetry
INVARIANTS
    TypeOK
    SlotAccounting
    QueueIsUnstarted
    QueueHasDonor
    OneTransferPerKey
    WatchedIsAlive
    ReleasedIsUnwatched
PROPERTY
    StartsWithinLimit
