CONSTANTS
    MaxSeq = 3
    MaxSockets = 2
    MaxReqs = 1
    LastN = 2
SPECIFICATION Spec
VIEW Heard
INVARIANTS TypeOK OneSocket AskedOnce NeverStuck Recovered LiveInOrder
\* sockets and samples run out
CHECK_DEADLOCK FALSE
