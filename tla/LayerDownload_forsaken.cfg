SPECIFICATION Spec
CONSTANTS
    a = a
    b = b
    Pulls = {p1, p2}
    Stacks <- TwoLayers
    Transfers = {1, 2, 3, 4}
    MaxAttempts = 1
    Faults = {}
    None = None
SYMMETRY Symmetry
INVARIANTS
    ForsakenGoesOn
