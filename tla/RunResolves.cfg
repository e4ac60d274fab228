SPECIFICATION FairSpec
CONSTANTS
    Runs = {r1, r2}
    Handlers = {h1}
    Workers = {w1, w2}
    Controllers = {c1, c2}
    Baseline = Baseline
    None = None
    FaultKinds = {"restart", "reboot", "crash", "timeout"}
    MaxFaults = 1
CHECK_DEADLOCK FALSE
PROPERTIES Resolves
