SPECIFICATION FairSpec
CONSTANTS
    Requests = {r1, r2, r3}
    PoolSize = 2
    MaxPoolSize = 1
    Resizes = 1
    MaxSize = 3
    MaxIterations = 2
INVARIANTS
    EntryFindsConnection
    ActiveCountsInFlight
    AtMostOneLate
PROPERTY GeneratorResumes
\* The last run is over.
CHECK_DEADLOCK FALSE
