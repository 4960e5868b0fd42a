\* The chat list's ledgers, the development loop and the monitor, each alone.
SPECIFICATION Spec
CONSTANTS
    Ledgers = {l1, l2}
    RefusedCards = {l2}
    Refs = {r1}
    NoCard = NoCard
    MaxLands = 2
    MaxTaps = 1
    MaxMessages = 1
    MaxSwitches = 1
    Cap = 3
    MaxRounds = 3
    MaxHost = 1
    Loggers = {h1, h2}
    Jobs = {j1, j2}
    LogCap = 3
    Backlog = 2
    PipeCap = 2
    OutCap = 3
    MaxOut = 4
    MaxLines = 5
    MaxTries = 2
    Best = 2
INVARIANTS HostTypeOK OutputIsWhole 
PROPERTIES   DevTurnsAreGivenUp TailCatchesUp
CHECK_DEADLOCK FALSE
