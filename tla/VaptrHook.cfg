\* One key, a huge page of two pages, compaction, splits and a restart.
SPECIFICATION Spec
CONSTANTS
    Pages = 2
    Frames = 3
    Pids = {p1, p2}
    MaxServers = 2
    p1 = p1
    p2 = p2
    k1 = k1
    Keys = {k1}
    NumKeys = 1
    Configured = {}
SYMMETRY MCSymmetry
INVARIANTS
    CacheOnlyCurrent
PROPERTIES
    NoFalseIdle
    NoFalseAccess
    ResolveRecovers
\* The server may be gone for good.
CHECK_DEADLOCK FALSE
