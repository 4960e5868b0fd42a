\* The shell over a transport that loses commands, with turns enough for
\* every repair its budgets allow and one more.
CONSTANTS
    Sessions = {s1, s2}
    Old = {}
    MaxPrompts = 4
    Serial = TRUE
    Lossy = TRUE
    Replays = FALSE
    WireCap = 2
    Domains = 1
    Budget = 1
    MaxApps = 2
SPECIFICATION Spec
INVARIANTS ShellTypeOK CanRecover OneOwner RepairBounded
CONSTRAINT Bounds
SYMMETRY Symmetry
CHECK_DEADLOCK FALSE
