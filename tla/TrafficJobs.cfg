SPECIFICATION FairSpec
CONSTANTS
    j1 = j1
    j2 = j2
    j3 = j3
    u1 = u1
    u2 = u2
    Jobs = {j1, j2}
    UEs = {u1}
    UeOf <- MCUeOf
    Continuous = {j1}
    Http = {j1}
    MaxRequests = 2
    FaultKinds = {"restart", "lost", "refused", "denied"}
    MaxFaults = 1
CHECK_DEADLOCK FALSE
INVARIANTS
    FinalMeansNoHelper
    HelperOwned
    OneBatchUnlessRaced
    StopsTakeEffect
PROPERTIES
    WorkersEnd
