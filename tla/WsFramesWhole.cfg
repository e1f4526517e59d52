CONSTANTS
    Conns = {c1}
    NoConn = none
    MaxMsgs = 1
    MaxReqs = 0
    CutPlanned = FALSE
    ModeClose = TRUE
    Drops = FALSE
    Delays = FALSE
    MayStop = FALSE
SPECIFICATION Spec
PROPERTY FramesWhole
CHECK_DEADLOCK FALSE
