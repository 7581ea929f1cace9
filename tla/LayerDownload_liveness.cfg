SPECIFICATION FairSpec
CONSTANTS
    a = a
    b = b
    Pulls = {p1, p2}
    Stacks <- Images
    Transfers = {1, 2, 3, 4}
    MaxAttempts = 1
    Faults = {}
    None = None
INVARIANTS
    ReturnedIsStored
    NothingIsKept
PROPERTIES
    DownloadReturns
