CONSTANTS
    KeyLengths <- MCKeyLengths
    FrameLengths <- MCFrameLengths
    Masks <- MCMasks
    Numbers <- MCNumbers
    Tenths <- MCTenths
    Steps = {1, 4, 8}
    Published = 5
    Repeats = 2
SPECIFICATION Spec
INVARIANTS AcceptKeyRight FramesAgree InputsRespected MissingFound
\* one input is picked
CHECK_DEADLOCK FALSE
