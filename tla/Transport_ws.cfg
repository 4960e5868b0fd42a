\* A WebSocket that breaks once: two calls to a server that may be out of
\* reach, or two sessions followed across the reconnect.
SPECIFICATION Spec
CONSTANTS
    Transports = {"ws"}
    Sessions = {s1, s2}
    FreshSessions = {}
    Calls = {k1, k2}
    CmdCap = 2
    EvtCap = 1
    MaxExp = 1
    Budget = 1
    Seed = 0
    MaxRequests = 3
    MaxCursor = 2
    MaxDrops = 1
    NetCap = 1
INVARIANTS TypeOK RepliesMatch LiveMeansOpened 
CONSTRAINT Bounds
SYMMETRY Symmetry
CHECK_DEADLOCK FALSE
