SPECIFICATION Spec
CONSTANTS
    Procs = {p1, p2}
    Sessions = {s1, s2}
    None = None
    MaxActions = 1
    MaxEvents = 4
    MaxCrashes = 0
    Verbs = {"browse", "end"}
    EarlyCommands = FALSE
SYMMETRY Symmetry
PROPERTIES CycleNeverFalls
