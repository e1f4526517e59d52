CONSTANTS
    MaxRx = 2
    BatchSize = 2
    MaxLives = 1
    MaxFaults = 1
    Faults <- MCInsert
SPECIFICATION Spec
INVARIANT PersistedBeforeLive
