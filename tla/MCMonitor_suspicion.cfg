SPECIFICATION MonitorSpec
CONSTANTS
    Peers = {p1, p2}
    Bootstrap = p1
    Shared = {}
    CheckNodes = 1
    MaxSuspicions = 2
    MaxRequests = 1
    MaxRounds = 2
INVARIANTS
    SuspectProbed
PROPERTIES
    
    SuspicionEnds
CHECK_DEADLOCK FALSE
