SPECIFICATION Spec
CONSTANTS
    Procs = {p1}
    Sessions = {s1}
    None = None
    MaxActions = 1
    MaxEvents = 5
    MaxCrashes = 1
    Verbs = {"browse", "end"}
    EarlyCommands = FALSE
SYMMETRY Symmetry
INVARIANTS DeadSessionRecoverable
