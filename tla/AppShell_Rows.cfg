\* Two prompts of a session are mapped at once.
CONSTANTS
    Sessions = {s1, s2}
    Old = {}
    MaxPrompts = 2
    Serial = TRUE
    Lossy = FALSE
    Replays = FALSE
    WireCap = 2
    Domains = 1
    Budget = 1
    MaxApps = 2
SPECIFICATION Spec
INVARIANT RowsReachTheirTurn
CHECK_DEADLOCK FALSE
