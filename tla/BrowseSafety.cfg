SPECIFICATION BrowsersSpec
CONSTANTS
    Procs = {p1, p2}
    Sessions = {s1}
    None = None
    MaxActions = 1
    MaxEvents = 3
    MaxCrashes = 1
    Verbs = {"keep", "end"}
    EarlyCommands = TRUE
INVARIANTS AckedIsPublished PublicationRedoable ProfileOutlivesBrowser
PROPERTIES IsResearchLog PendingResolved LeaseEnds
