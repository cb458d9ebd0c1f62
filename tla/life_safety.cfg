SPECIFICATION Spec
CONSTANTS
    Requests = {r1, r2, r3}
    Keys = {k1}
    Workers = {w1, w2}
    None = None
    MaxFaults = 1
INVARIANTS TypeOK OpenedOnlyAfterClosing AgreesUnlessRaced
    OncePerKeyUnlessConcurrent
CHECK_DEADLOCK FALSE
SYMMETRY Symmetry
