CONSTANTS
    Updates <- MCUpdates
    MaxNet = 1
    MaxFails = 1
SPECIFICATION FairSpec
INVARIANTS TypeOK SeqNamesState NoThreadOutlives
PROPERTIES FeedRefined ShutsDown UpdateArrives
\* the process ends
CHECK_DEADLOCK FALSE
