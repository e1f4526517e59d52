CONSTANTS
    MaxRx = 3
    BatchSize = 2
    MaxLives = 2
    MaxFaults = 2
    Faults <- MCAll
SPECIFICATION Spec
INVARIANTS TypeOK InOrder NoLeak JoinedUseOpen NoLostWakeup FirstDecides
