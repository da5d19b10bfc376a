SPECIFICATION SessionsSpec
CONSTANTS
    Procs = {p1, p2}
    Sessions = {s1, s2}
    None = None
    MaxActions = 2
    MaxEvents = 5
    MaxCrashes = 0
    Verbs = {"browse", "end"}
    EarlyCommands = FALSE
SYMMETRY Symmetry
INVARIANTS SealedSessionVerifies DeadSessionRecoverable
