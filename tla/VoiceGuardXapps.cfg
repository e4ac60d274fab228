SPECIFICATION FairSpec
CONSTANTS
    Handlers = {h1, h2}
    MaxXapps = 2
    MaxFaults = 2
INVARIANT StatusNamesXapp
INVARIANT UnpacedWhenOff
PROPERTY EndsWithRun
CHECK_DEADLOCK FALSE
