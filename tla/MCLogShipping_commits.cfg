SPECIFICATION Spec
CONSTANTS
    Members = {m1}
    Self = n1
    Other = n2
    PollRetries = 2
    MaxEntries = 3
    MaxTerms = 3
    MaxInFlight = 2

    
PROPERTIES
    CommitAdvances
    SubmissionsEnd
