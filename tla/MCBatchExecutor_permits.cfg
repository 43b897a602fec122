CONSTANTS
    MaxPool = 4
    MaxStages = 6
SPECIFICATION FairSpec
INVARIANTS
    BatchesFillPool
    OvercommitBounded
    StrandedOnlyByFailure
PROPERTIES
    BatchesComplete
    CallEnds
\* The call has ended.
CHECK_DEADLOCK FALSE
