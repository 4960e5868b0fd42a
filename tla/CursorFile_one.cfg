\* One transport on the file, two sessions, two cursor positions.
SPECIFICATION Spec
CONSTANTS
    NoOp = NoOp
    Writers = {w1}
    Sessions = {s1, s2}
    MaxCursor = 1
    DirFsyncs = TRUE
INVARIANTS TypeOK HydrationFaithful
PROPERTIES AtomicUpdates
CHECK_DEADLOCK FALSE
