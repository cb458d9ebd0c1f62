SPECIFICATION Spec
CONSTANTS
    Merchants = {m1}
    Workers = {w1}
    Relays = {r1}
    Categories = {c1}
    DefaultCategory = None
    None = None
    Locking = TRUE
    Stalls = FALSE
    MaxRetry = 2
    MaxChannels = 1
    MaxFaults = 0
INVARIANT EnqueuedPayloadComplete
CHECK_DEADLOCK FALSE
