CONSTANTS
    Conns = {c1}
    NoConn = none
    MaxMsgs = 1
    MaxReqs = 0
    CutPlanned = FALSE
    ModeClose = TRUE
    Drops = FALSE
    Delays = FALSE
    MayStop = FALSE
SPECIFICATION Spec
INVARIANT StatusFirst
CHECK_DEADLOCK FALSE
