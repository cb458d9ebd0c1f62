SPECIFICATION Spec
CONSTANTS
    Routes = {r1}
    Workers = {w1, w2}
    None = None
    TicksPerSecond = 3
    GlobalCapacity = 2
    GlobalRefillRate = 2
    DefaultRouteCapacity = 1
    TakeBuffer = 1
    HeaderBuffer = 1
    PenaltyBuffer = 4
    MaxPenalty = 3
    RetryAfters = {0, 5}
    DefaultRetryAfter = 1
    Remainings <- SomeRemainings
    Resets <- SomeResets
    MaxLag = 1
    MaxTime = 5
SYMMETRY Symmetry
CHECK_DEADLOCK FALSE
INVARIANTS TypeOK WithinBudget PenaltyHolds WaitIsExact
PROPERTY IsTokenBucket
