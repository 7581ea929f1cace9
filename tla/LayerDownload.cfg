SPECIFICATION Spec
CONSTANTS
    a = a
    b = b
    Pulls = {p1, p2}
    Stacks <- Images
    Transfers = {1, 2, 3, 4}
    MaxAttempts = 2
    Faults = {"net", "disk"}
    None = None
SYMMETRY Symmetry
INVARIANTS
    ReturnedIsStored
    NothingIsKept
PROPERTIES
    LostIsForsaken
