SPECIFICATION Spec
CONSTANTS
    top = top
    inner = inner
    NoFrame = NoFrame
    Frames <- MCFrames
    Top = top
    Below <- MCBelow
    MaxContexts = 2
    Ids = {1, 2}
    Reused = TRUE
    Width = 3
    Tries = 2
    InjectBlank = FALSE
    Kinds = {"site"}
    MaxTrouble = 2
INVARIANTS
    TableSound
    CreditIsDue
    BundleRunsOnce
    SettingsReach
