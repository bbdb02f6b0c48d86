SPECIFICATION FairSpec
CONSTANTS
    top = top
    inner = inner
    NoFrame = NoFrame
    Frames <- MCFrames
    Top = top
    Below <- MCBelow
    MaxContexts = 2
    Ids = {1, 2, 3}
    Reused = FALSE
    Width = 3
    Tries = 2
    InjectBlank = FALSE
    Kinds = {"site"}
    MaxTrouble = 1
PROPERTIES
    TopGetsBundle
