\* Two calls over a connection that breaks once, to a server that may be out
\* of reach, under the fairness of the runtime.
SPECIFICATION FairSpec
CONSTANTS
    Transports = {"ws", "stdio"}
    Sessions = {s1}
    FreshSessions = {s1}
    Calls = {k1, k2}
    CmdCap = 1
    EvtCap = 1
    MaxExp = 1
    Budget = 1
    Seed = 0
    MaxRequests = 2
    MaxCursor = 1
    MaxDrops = 1
    NetCap = 1
PROPERTIES  StdioCallsSettle
CHECK_DEADLOCK FALSE
