SPECIFICATION Spec
CONSTANTS
    Callers = {t1}
    Hashes = {h1, h2, h3}
    Base = base
    MaxDeviceID = 3
    Modes <- ThinPool
    Faults = {"crash"}
    Uses = {"remove"}
    MaxTid = 5
    MaxStarts = 2
    None = None
CHECK_DEADLOCK FALSE
INVARIANT
    DeviceIsKept
