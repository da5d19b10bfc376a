SPECIFICATION StudioSpec
CONSTANTS
    Finishes = {host}
    Host = host
    NoRecord = NoRecord
    MaxChanges = 1
    MaxKills = 0
CHECK_DEADLOCK FALSE
INVARIANT RetainIsOfThisPage
