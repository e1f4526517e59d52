CONSTANTS
    Conns = {c1}
    NoConn = none
    MaxMsgs = 2
    MaxReqs = 1
    CutPlanned = TRUE
    ModeClose = TRUE
    Drops = TRUE
    Delays = TRUE
    MayStop = TRUE
SPECIFICATION FairSpec
PROPERTIES BroadcastReturns SeveredLeaves StopReturns
\* the server stops, and a freed record is the end
CHECK_DEADLOCK FALSE
