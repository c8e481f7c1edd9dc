\* One run in depth: what it may still do after a cancel, how it ends, that it ends.
SPECIFICATION FairSpec
CONSTANTS
    Runs = {r1}
    Perms = {p1, p2}
    NoPerm = NoPerm
    MaxTurns = 3
    MaxRetries = 1
    MaxTools = 1
PROPERTIES
    EveryRunEnds
    ShutdownExits
INVARIANTS
    BoundedWorkAfterCancel
    NothingLeftDangling
