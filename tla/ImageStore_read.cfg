SPECIFICATION Spec
CONSTANTS
    base = base
    child = child
    other = other
    l1 = l1
    l2 = l2
    None = None
    Procs = {p1, p2}
    Images <- MCImages
    Layers <- MCLayers
    LayerOf <- MCLayerOf
    Parents <- MCParents
    MaxLeaks = 1
    Faults = {}
SYMMETRY Symmetry
INVARIANT
    CreatedIsReadable
