SPECIFICATION Spec
CONSTANTS
    Callers = {p1, p2}
    Ops = {"start", "stop", "restart", "kill", "rm", "rmf", "pause", "unpause", "wait", "stopneg"}
    Policy = "always"
    Codes = {0}
    MaxRetry = 0
    Faults = {"create", "remove"}
    Prompt = TRUE
    MaxRuns = 3
    None = None
SYMMETRY Symmetry
INVARIANTS
    RemovedIsGone
    StateIsTrue
    NoLostWakeup
PROPERTIES
    DeadStaysDead
    OneProcess
CHECK_DEADLOCK FALSE
