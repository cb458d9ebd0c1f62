SPECIFICATION FairSpec
CONSTANTS
    u1 = u1
    u2 = u2
    d1 = d1
    d2 = d2
    d3 = d3
    Users = {u1, u2}
    DiscordIds = {d1, d2}
    CanLink <- OwnAccounts
    Workers = {w1, w2}
    None = None
    Locking = FALSE
    Expiry = FALSE
    ManualEdits = TRUE
    MaxRequests = 2
    MaxFaults = 1
PROPERTY Converges
