SPECIFICATION Spec
CONSTANTS
    Configurations <- Accepted
    MaxRuns = 2
    MaxFaults = 2
INVARIANTS
    HelperLeftForAReason
    FailedLeavesNothing
    HandsOverOnce
PROPERTIES
    TouchesOnlyItsOwn
    RunEnds
