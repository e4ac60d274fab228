SPECIFICATION Spec
CONSTANTS
    Enabled = {1, 3}
    MaxIds = 3
    MaxStarts = 1
INVARIANT NamesRight
CHECK_DEADLOCK FALSE
