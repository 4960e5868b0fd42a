\* An app in the middle of a turn is left and returned to.
CONSTANTS
    Sessions = {s1, s2}
    Old = {}
    MaxPrompts = 2
    Serial = TRUE
    Lossy = FALSE
    Replays = FALSE
    WireCap = 2
    Domains = 1
    Budget = 1
    MaxApps = 2
SPECIFICATION Spec
INVARIANT WindowCovered
CHECK_DEADLOCK FALSE
