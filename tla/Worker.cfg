SPECIFICATION FairSpec
CONSTANTS
    N = 2
    Threads = {t1, t2}
    MaxOptions = 2
    CallbacksThrow = TRUE
INVARIANTS
    InOrder
    ApplicationsBounded
    DoneIsComplete
PROPERTIES
    ImplementsPipeline
    RoundEnds
