SPECIFICATION Spec
CONSTANTS
    base = base
    left = left
    right = right
    None = None
    Procs = {p1, p2}
    Chains <- TreeChains
    Parent <- LineParent
    MaxDepth = 2
    Mounts = {m1}
    Ids = {i1, i2, i3}
    Refs = {r1, r2, r3}
    Faults <- AllFaults
SYMMETRY Symmetry
INVARIANTS
    CountIsExact
    NeverPanics
    HeldIsIntact
PROPERTY
    MountKeepsParent
