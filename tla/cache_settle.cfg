SPECIFICATION FairSpec
CONSTANTS
    MaxSpaces = 1
    Readers = {r1, r2}
    None = None
    Filters = {"archived"}
    PageSize = 1
    MaxCommits = 2
    MaxFaults = 1
INVARIANTS TypeOK FilteredListsKeepTheirFilter NewSpaceListed
PROPERTY Settles
