SPECIFICATION FairSpec
CONSTANTS
    Callers = {p1, p2}
    Ops = {"start", "stop", "rmf", "pause", "unpause"}
    Policy = "on-failure"
    Codes = {0, 1}
    MaxRetry = 1
    Faults = {"create", "remove"}
    Prompt = TRUE
    MaxRuns = 2
    None = None
PROPERTIES
    ExitIsNoticed
    PauseReturns
CHECK_DEADLOCK FALSE
