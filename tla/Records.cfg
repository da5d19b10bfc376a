SPECIFICATION RecordsSpec
CONSTANTS
    Procs = {p1, p2}
    None = None
    Sources = {s1, s2}
    MaxEdits = 2
    MaxObservations = 2
    MaxSeals = 2
    MaxReviews = 2
    Finishes = {host, shell}
    Host = host
    NoRecord = NoRecord
    MaxChanges = 2
    MaxKills = 1
    Commands = {p1, p2}
    Developments = {dev}
    HeldOuts = {h1, h2, h3}
    MinHeldOuts = 2
    Promoted = 2
    Pins = {i1, i2}
    Nothing = Nothing
    MaxWrites = 2
    MaxDamaged = 1
    Clis = {p1, p2, p3}
    NoKey = NoKey
    TornKey = TornKey
    Promoters = {p1, p2}
    Projects = {i1, i2}
    NoProject = NoProject
    Propositions = 2
    MaxNotes = 1
    MaxPromotions = 3
SYMMETRY Symmetry
CHECK_DEADLOCK FALSE
INVARIANTS FinalRestsOnReview SequentialStoreReadable ReceiptSpentOnce ConclusionsInTurn
PROPERTIES OnlyOwnerSettles PublishedIsCurrent CompletedIsBacked GateDoesNotLoop PublishedWasActive
