\* Two runs side by side: permissions and cancels of one against the other.
SPECIFICATION Spec
CONSTANTS
    Runs = {r1, r2}
    Perms = {p1, p2}
    NoPerm = NoPerm
    MaxTurns = 1
    MaxRetries = 0
    MaxTools = 1
SYMMETRY Symmetry
INVARIANTS
    GrantedMeansApproved
    NoOrphanPermission
    OnlyOwnRunDenied
PROPERTY KeepsLifecycle
