SPECIFICATION Spec
CONSTANTS
    Clients = {p1}
    Containers = {c1, c2}
    Dests = {d1}
    Tmpfs = {}
    Names = {n1, n2}
    Drivers = {local}
    Local = local
    None = None
    Uses = {"from", "hostconfig"}
    Faults = {"driver", "db", "relabel", "link", "kill", "restart"}
SYMMETRY Symmetry
INVARIANTS
    CacheIsFresh
    NoStaleRefs
    InUseIsKept
