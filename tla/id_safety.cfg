SPECIFICATION Spec
CONSTANTS
    Users = {u1, u2}
    Emails = {e1}
    Accounts = {d1, d2}
    States = {s1, s2}
    Requests = {q1, q2, q3, q4}
    Workers = {w1, w2}
    None = None
    Runes = {"a", " "}
    Names <- RuneStrings
    NickMax = 4
    MaxRetry = 1
    MaxFaults = 1
INVARIANTS TypeOK StateRedeemedOnce TokenMatchesLink EmailResolvedOnce RoleMatchesRoster NicknameMarks
PROPERTY RoleChangesInOrder
SYMMETRY Symmetry
CHECK_DEADLOCK FALSE
