\* A call whose connection breaks before the answer.
SPECIFICATION FairSpec
CONSTANTS
    Transports = {"ws"}
    Sessions = {s1}
    FreshSessions = {}
    Calls = {k1}
    CmdCap = 1
    EvtCap = 8
    MaxExp = 0
    Budget = 0
    Seed = 0
    MaxRequests = 1
    MaxCursor = 0
    MaxDrops = 1
    NetCap = 1
PROPERTY CallsSettle
CHECK_DEADLOCK FALSE
