SPECIFICATION SerialSpec
CONSTANTS
    Runs = {r1, r2, r3}
    Handlers = {h1, h2}
    Workers = {w1, w2}
    Controllers = {c1, c2}
    Baseline = Baseline
    None = None
    FaultKinds = {"restart", "reboot", "crash", "timeout"}
    MaxFaults = 3
CHECK_DEADLOCK FALSE
SYMMETRY Symmetry
INVARIANTS LostMeansGone RunningOwnsStack StoppedIsDown
