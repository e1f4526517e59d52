CONSTANTS
    Conns = {c1, c2}
    NoConn = none
    MaxMsgs = 2
    MaxReqs = 0
    CutPlanned = TRUE
    ModeClose = TRUE
    Drops = TRUE
    Delays = FALSE
    MayStop = TRUE
SYMMETRY Sym
SPECIFICATION Spec
INVARIANTS TypeOK Owned EveryClientServed NoDuplicate LostReachNoOne
\* bounded connections and messages run out, and a freed record is the end
CHECK_DEADLOCK FALSE
