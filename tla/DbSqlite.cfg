CONSTANTS
    Clients = {c1, c2}
    MotorCols = 2
    MaxRows = 3
    MaxTime = 3
    ClockBack = TRUE
    DefaultLimit = 1
    LimitMax = 2
    MaxFaults = 1
    MaxCrashes = 1
SPECIFICATION Spec
INVARIANTS TypeOK VersionHonest ReplyIsWindow
PROPERTY OpenSucceeds
\* a gateway that is off may never be started again, and every row may be in
CHECK_DEADLOCK FALSE
