SPECIFICATION AuthSpec
CONSTANTS
    Clis = {p1, p2}
    NoKey = NoKey
    TornKey = TornKey
CHECK_DEADLOCK FALSE
INVARIANT KeysAreOnePair
