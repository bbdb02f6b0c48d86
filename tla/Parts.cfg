SPECIFICATION Spec
CONSTANTS
    Pids = {1, 2, 3}
    Slots = {1, 2}
    MaxSeen = 3
    MaxTime = 4
    Hosts = {1, 2}
    Values <- MCValues
    MaxWrites = 3
    CommonOrder <- MCCommonOrder
    FullOrder <- MCFullOrder
    MaxFound = 2
    MaxChanges = 1
    MaxErrors = 1
    Clients = {"packed", "plain", "wide"}
    Traits <- MCTraits
    Dlls = {"winmm", "version", "kernel32"}
    KnownDlls = {"kernel32"}
    MaxScans = 2
    Documents <- MCDocuments
    Arguments <- MCArguments
    MaxArguments = 2
    Keys <- MCKeys
    Addresses = {1, 2}
    SharedKeys = {"a", "b"}
    OtherKeys = {"x"}
    MaxFaults = 1
    Services = {1, 2}
    MaxTroubles = 1
    Bases = {1, 2}
    MaxChallenges = 2
INVARIANTS
    OwnProcesses
    DpiKept
    NoClientMissed
    CachedListTrue
    ChoiceIsTheUsers
    SettingsObeyed
    
    PackageIsOurs
    AnswersTheAsker
PROPERTIES
    FileStaysWhole
CHECK_DEADLOCK FALSE
