SPECIFICATION Spec
CONSTANTS
    Clients = {p1}
    Containers = {c1, c2}
    Dests = {d1}
    Tmpfs = {}
    Names = {n1, n2}
    Drivers = {local, plugin}
    Local = local
    None = None
    Uses = {}
    Faults = {"kill"}
SYMMETRY Symmetry
INVARIANT RunningHasVolumes
