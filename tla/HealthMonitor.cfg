SPECIFICATION Spec
CONSTANTS
    Stoppers = {p1, p2}
    Monitors = {1, 2, 3, 4, 5}
    Retries = 2
    Faults = {"create", "todisk"}
    MaxRuns = 2
    MaxProbes = 2
    MaxNotes = 1
    None = None
SYMMETRY Symmetry
INVARIANTS
    OneMonitor
    ResultsOfThisRun
    NoMonitorAtRest
CHECK_DEADLOCK FALSE
