SPECIFICATION Spec
CONSTANTS
    Callers = {t1, t2}
    Hashes = {h1, h2}
    Base = base
    MaxDeviceID = 3
    Modes <- TwoModes
    Faults = {"crash"}
    Uses = {"remove", "mount"}
    MaxTid = 4
    MaxStarts = 2
    None = None
SYMMETRY Symmetry
CHECK_DEADLOCK FALSE
INVARIANTS
    TypeOK
    CommittedIsKept
    CrashConsistent
    FreeIsUnused
