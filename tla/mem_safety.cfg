SPECIFICATION Spec
CONSTANTS
    u1 = u1
    u2 = u2
    d1 = d1
    d2 = d2
    d3 = d3
    Users = {u1, u2}
    DiscordIds = {d1, d2, d3}
    CanLink <- SharedAccount
    Workers = {w1, w2}
    None = None
    Locking = FALSE
    Expiry = TRUE
    ManualEdits = FALSE
    MaxRequests = 2
    MaxFaults = 1
INVARIANTS TypeOK SweepSparesSteadyMembers OnlyInvitedHaveAccess
SYMMETRY Symmetry
