SPECIFICATION Spec
CONSTANTS
    page = page
    inner = inner
    Frames <- MCFrames
    MaxSets = 2
    MaxLoads = 3
    MaxRestarts = 1
    MaxFaults = 1
SYMMETRY Symmetry
INVARIANTS
    Converged
    LastChoiceStands
    NothingLeftOver
CHECK_DEADLOCK FALSE
