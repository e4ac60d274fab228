SPECIFICATION Spec
CONSTANTS
    Runs = {r1, r2}
    Handlers = {h1}
    Workers = {w1, w2}
    Controllers = {c1, c2}
    Baseline = Baseline
    None = None
    FaultKinds = {}
    MaxFaults = 0
CHECK_DEADLOCK FALSE
INVARIANTS RunningOwnsStack
