SPECIFICATION Spec
CONSTANTS
    n1 = n1
    n2 = n2
    n3 = n3
    NoNode = NoNode
    Late = {n1}
    Nodes <- MCNodes
    Host <- MCHost
    Port <- MCPort
    Instance <- MCInstance
    MaxTasks = 2
    MaxSubmissions = 2
    MaxSuspicions = 1
    MaxCrashes = 1
    MaxInFlight = 2
INVARIANTS
    LeaderUnique
    ActiveHasElection
    LeaderCanLog
    TermWasWon
CHECK_DEADLOCK FALSE
