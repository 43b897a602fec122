SPECIFICATION FairSpec
CONSTANTS
    Tasks = {t1, t2, t3, t4, t5}
    Value = 2
INVARIANTS
    PermitConservation
    NoStrandedWaiter
PROPERTIES
    ImplementsPermitPool
    EventuallyServed
\* Every task is done or gone.
CHECK_DEADLOCK FALSE
