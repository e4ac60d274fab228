SPECIFICATION FairSpec
CONSTANTS
    Enabled = {1, 3}
    MaxIds = 3
    MaxStarts = 2
INVARIANT OneAtATime
INVARIANT UpMeansAllAttached
INVARIANT NamesRightUnlessEarly
PROPERTY AttachedIsReported
CHECK_DEADLOCK FALSE
