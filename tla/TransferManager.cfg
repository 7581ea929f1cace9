SPECIFICATION FairSpec
CONSTANTS
    Callers = {c1, c2}
    Keys = {k1, k2}
    Transfers = {t1, t2}
    Limits = {1}
    None = None
INVARIANTS
    SlotAccounting
    QueueHasDonor
    OneTransferPerKey
    WatchedIsAlive
PROPERTIES
    StartsWithinLimit
    QueuedStarts
    ImplementsShared
    TransferReturns
    UnwatchedIsReleased
