SPECIFICATION Spec
CONSTANTS
    Merchants = {m1}
    Workers = {w1, w2}
    Relays = {r1, r2}
    Categories = {c1}
    DefaultCategory = None
    None = None
    Locking = FALSE
    Stalls = TRUE
    MaxRetry = 2
    MaxChannels = 4
    MaxFaults = 3
INVARIANTS TypeOK AppliedIsBacked ExtraChannelsNeedFaults StampedWasEnqueued
CHECK_DEADLOCK FALSE
SYMMETRY Symmetry
