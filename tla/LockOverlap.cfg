SPECIFICATION Spec
CONSTANTS
    Procs = {p1, p2, p3}
    Invocations = {i1}
    Inodes = {n1, n2, n3, n4}
    None = None
    MaxDepth = 1
    StrictCalls = {FALSE}
    OverlapRecovery = TRUE
    ReuseInodes = FALSE
CHECK_DEADLOCK FALSE
SYMMETRY Symmetry
INVARIANT MutualExclusion
