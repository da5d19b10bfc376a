SPECIFICATION WaitsSpec
CONSTANTS
    Procs = {p1, p2}
    Invocations = {i1}
    Inodes = {n1, n2, n3}
    None = None
    MaxDepth = 2
    StrictCalls = {TRUE, FALSE}
    OverlapRecovery = TRUE
    ReuseInodes = TRUE
    Reviewers = {c1, c2}
    Reads = {i1, i2}
    Workers = {w1, w2}
    Items = 3
    Calls = {t1, t2}
    NoCall = NoCall
    MaxTurns = 2
CHECK_DEADLOCK FALSE
INVARIANTS LaneLeavesNothing EvidenceOnce BatchReportIsTrue BrowserOnlyInBudget OverlapOnlyInterrupted
PROPERTIES LiveLockKept IsProjectLock DeadOwnerRecovered LaneReturns BatchAnswers RouteNeverGoesBack CallsAnswered
