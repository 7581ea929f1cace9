SPECIFICATION FairSpec
CONSTANTS
    Callers = {t1, t2}
    Hashes = {h1}
    Base = base
    MaxDeviceID = 3
    Modes <- ThinPool
    Faults = {"crash", "shutdown"}
    Uses = {"remove", "mount"}
    MaxTid = 5
    MaxStarts = 2
    None = None
CHECK_DEADLOCK FALSE
PROPERTIES
    CallReturns
    DeferredIsDeleted
