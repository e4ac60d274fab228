SPECIFICATION Spec
CONSTANTS
    Grid = 2
    K = 2
    MaxAttempts = 2
    MaxFaults = 1
    MaxRelabels = 1
INVARIANT CompletedIsWhole
INVARIANT TrainingIsThere
PROPERTY CompletedStays
PROPERTY EndsClean
CHECK_DEADLOCK FALSE
