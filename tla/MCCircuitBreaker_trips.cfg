SPECIFICATION BreakerSpec
CONSTANTS
    Window = 3
    Threshold = 20
    MaxRunning = 2
    MaxCompleted = 4
INVARIANTS
    OverdueOnce
    TripsOnOldFailures
PROPERTIES
    OpenHolds
    Recovers
