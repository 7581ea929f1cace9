SPECIFICATION Spec
CONSTANTS
    Clients = {p1}
    Containers = {c1, c2}
    Dests = {d1, d2}
    Tmpfs = {d2}
    Names = {n1, n2}
    Drivers = {local}
    Local = local
    None = None
    Uses = {}
    Faults = {"driver", "db", "restart"}
SYMMETRY Symmetry
INVARIANTS
    NoStaleRefs
    InUseIsKept
