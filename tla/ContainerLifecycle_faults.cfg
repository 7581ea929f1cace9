SPECIFICATION Spec
CONSTANTS
    Callers = {p1, p2}
    Ops = {"start", "stop", "stopneg", "kill", "rmf", "wait", "pause", "unpause"}
    Policy = "on-failure"
    Codes = {0, 1}
    MaxRetry = 1
    Faults = {"create", "remove", "spec", "todisk"}
    Prompt = FALSE
    MaxRuns = 2
    None = None
SYMMETRY Symmetry
INVARIANTS
    NoLostWakeup
CHECK_DEADLOCK FALSE
