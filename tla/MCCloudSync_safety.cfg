SPECIFICATION FairSpec
CONSTANTS
    Recs = {p, q}
    RuleSets = {q}
    Syncs = {s1, s2}
    MaxRetry = 1
    MaxChange = 2
    MaxTime = 2
INVARIANTS
    TokenCovers
PROPERTIES
    NeverOlder
    SyncEnds
CHECK_DEADLOCK FALSE
