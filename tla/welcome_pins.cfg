SPECIFICATION Spec
CONSTANTS
    Requests = {q1, q2}
    Keys = {k1}
    Texts = {t1}
    Workers = {w1, w2}
    None = None
    MaxMessages = 3
    MaxFaults = 1
SYMMETRY Symmetry
CHECK_DEADLOCK FALSE
INVARIANTS TypeOK RecordedIsPinned ExtraPinsNeedCause RecordedShowsLastText
    JobsFollowRuns
