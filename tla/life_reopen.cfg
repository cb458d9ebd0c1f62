SPECIFICATION Spec
CONSTANTS
    Requests = {r1, r2, r3}
    Keys = {k1}
    Workers = {w1, w2}
    None = None
    MaxFaults = 0
INVARIANT NeverOpenToEveryone
CHECK_DEADLOCK FALSE
SYMMETRY Symmetry
