SPECIFICATION FairSpec
CONSTANTS
    A = A
    B = B
    caller1 = caller1
    caller2 = caller2
    Scopes <- MCScopes
    NoScope = NoScope
    Keys = {k}
    NoKey = NoKey
    Callers <- MCCallers
    MaxMoves = 1
CHECK_DEADLOCK FALSE
INVARIANTS
    OneQuestion
PROPERTIES
    ConsentNeeded
    DeclineSticks
    RequestsEnd
