SPECIFICATION FairSpec
CONSTANTS
    Watchers = {w1, w2}
    MaxProgress = 2
INVARIANTS
    EndedIsCaughtUp
PROPERTIES
    WritesAreFresh
    ReleaseEnds
