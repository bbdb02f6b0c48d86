SPECIFICATION Spec
CONSTANTS
    Clients = {"packed", "plain", "wide"}
    Traits <- MCTraits
    Dlls = {"winmm", "version", "kernel32"}
    KnownDlls = {"kernel32"}
    MaxScans = 2
INVARIANTS
    CancelKeepsList
CHECK_DEADLOCK FALSE
