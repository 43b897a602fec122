SPECIFICATION Spec
CONSTANTS
    Events = {a, b}
    Requests = 3
    MaxConcurrency = 2
    Faults = 1
INVARIANTS
    OwnEvent
    
PROPERTIES
    AnsweredAlone
\* All requests are over.
CHECK_DEADLOCK FALSE
