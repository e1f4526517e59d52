CONSTANTS
    MaxRx = 3
    BatchSize = 2
    MaxLives = 2
    MaxFaults = 1
    Faults <- MCHonest
SPECIFICATION FairSpec
INVARIANT SettledWhole
PROPERTIES StoreRefined StopTerminates QueuedPersists
