SPECIFICATION Spec
CONSTANTS
    Procs = {p1, p2}
    None = None
    Torn = Torn
    Routes = {page, other}
    Studio = {page}
    FirstRoute = other
    Files = {f1, f2}
    Contents = {a, b}
    Start = a
    Feedbacks = {v1, v2}
    Findings = {x}
    MaxIterations = 2
    MaxReviews = 3
    MaxEdits = 2
    MaxRestores = 1
    MaxCrashes = 1
SYMMETRY Symmetry
CHECK_DEADLOCK FALSE
INVARIANTS CheckpointIsWhatWasMeasured VerdictOnItsIteration VerdictIsCurrent EvidenceJudgedOnce FindingsAnswered NewPageReviewedOnce
PROPERTIES RestoreIsWhole
