SPECIFICATION FairSpec
CONSTANTS
    Procs = {p1, p2, p3}
    Names = {n1, n2}
    Ctrs = {l1, l2, l3}
    None = None
INVARIANTS
    NoStaleLocks
PROPERTIES
    ImplementsNamedMutex
    LockReturns
