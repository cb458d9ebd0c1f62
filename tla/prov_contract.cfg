SPECIFICATION FairSpec
CONSTANTS
    Merchants = {m1}
    Workers = {w1, w2}
    Relays = {r1, r2}
    Categories = {c1, c2}
    DefaultCategory = c2
    None = None
    Locking = TRUE
    Stalls = FALSE
    MaxRetry = 2
    MaxChannels = 4
    MaxFaults = 2
INVARIANT CompletedMeansApplied
PROPERTIES KeepsContract AppliedIsFinal CommittedIsSettled
CHECK_DEADLOCK FALSE
