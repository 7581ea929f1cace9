SPECIFICATION Spec
CONSTANTS
    base = base
    left = left
    right = right
    None = None
    Procs = {p1, p2}
    Chains <- TreeChains
    Parent <- TreeParent
    MaxDepth = 3
    Mounts = {m1}
    Ids = {i1, i2, i3, i4, i5}
    Refs = {r1, r2, r3, r4}
    Faults <- CleanFaults
SYMMETRY Symmetry
INVARIANTS
    NoOrphanData
