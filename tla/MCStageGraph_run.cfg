SPECIFICATION GraphSpec
CONSTANTS
    N = 4
    Shapes <- FourStages
    Kinds <- FourKinds
    Pool = 4
    Retries = {0, 2}
INVARIANTS
    
    RunsOnce
    ExitZeroMeansAll
    AllocationFits
