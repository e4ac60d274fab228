SPECIFICATION Spec
CONSTANTS
    Runs = {r1, r2}
    Handlers = {h1, h2}
    Workers = {w1, w2, w3}
    Controllers = {c1}
    Baseline = Baseline
    None = None
    FaultKinds = {"restart", "reboot", "crash", "timeout"}
    MaxFaults = 2
CHECK_DEADLOCK FALSE
SYMMETRY Symmetry
INVARIANTS HasWorkerUnlessSkipped
PROPERTIES ImplementsContract OnlyForward
