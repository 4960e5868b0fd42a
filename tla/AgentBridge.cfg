\* The bridge under an app that sends and cancels at will, a transport that
\* loses commands and replays notifications, and interleaved turns.
CONSTANTS
    Sessions = {s1, s2}
    MaxPrompts = 2
    Serial = FALSE
    Lossy = TRUE
    Replays = TRUE
    WireCap = 2
SPECIFICATION BridgeSpec
INVARIANTS TypeOK InterruptsOwner
PROPERTY NothingAfterTheEnd
SYMMETRY Symmetry
CHECK_DEADLOCK FALSE
