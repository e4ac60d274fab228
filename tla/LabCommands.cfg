SPECIFICATION MCSpec
CONSTANTS
    c0 = c0
    r1 = r1
    Runs = {r1}
    Baseline = base
    None = none
    Cmds = {c0, c1, c2}
    Components <- MCComponents
    Wrapped <- MCWrapped
    Ported <- MCPorted
    FaultKinds = {"crash", "orphan", "write", "reboot"}
    OverlapKinds = {"crash"}
    MaxFaults = 1
    MaxBusy = 2
SYMMETRY MCSymmetry
INVARIANT NothingLeaks
INVARIANT RecoversSameRun
PROPERTY ForeignSpared
PROPERTY ImplementsController
CHECK_DEADLOCK FALSE
