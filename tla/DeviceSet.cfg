SPECIFICATION Spec
CONSTANTS
    Callers = {t1}
    Hashes = {h1, h2}
    Base = base
    MaxDeviceID = 3
    Modes <- TwoModes
    Faults = {"write", "dm", "tid", "crash", "reboot"}
    Uses = {"remove", "mount"}
    MaxTid = 4
    MaxStarts = 2
    None = None
SYMMETRY Symmetry
CHECK_DEADLOCK FALSE
INVARIANTS
    CommittedIsKept
    CrashConsistent
    FreeIsUnused
