\* Two transports on the same file, each with its own lock.
SPECIFICATION Spec
CONSTANTS
    NoOp = NoOp
    Writers = {w1, w2}
    Sessions = {s1}
    MaxCursor = 2
    DirFsyncs = FALSE

PROPERTY NeverTorn
CHECK_DEADLOCK FALSE
