SPECIFICATION FairSpec
CONSTANTS
    Stoppers = {p1}
    Monitors = {1, 2, 3}
    Retries = 1
    Faults = {}
    MaxRuns = 1
    MaxProbes = 1
    MaxNotes = 0
    None = None
PROPERTY
    StopReturns
CHECK_DEADLOCK FALSE
