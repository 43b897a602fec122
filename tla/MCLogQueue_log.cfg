SPECIFICATION Spec
CONSTANTS
    Timestamps = {1, 2, 3, 4}
    Seqs = {0}
    Terms = {1, 2}
    PruneMaxAge = 1
    PruneMaxCount = 2
    MsPerSecond = 2
    Forwarding = FALSE
    MaxBatch = 2
    MaxUpdates = 3
    MaxCommits = 2
    MaxNow = 5
INVARIANTS
    SortedLogs
    UncommittedInLatest
PROPERTY UpdateKeepsEntries
CHECK_DEADLOCK FALSE
