SPECIFICATION FairSpec
CONSTANTS
    Requests = 3
    Losses = 2
    Duplicates = 1
    Overtakes = 2
INVARIANTS
    OwnResponse
    AnswersNotOlder
\* Everything was sent and has returned.
CHECK_DEADLOCK FALSE
