SPECIFICATION Spec
CONSTANTS
    Sessions = {1, 2}
    Settings = {1, 2}
    Slots = {1, 2}
    MaxTroubles = 1
INVARIANTS
    SessionsHeld
    SettingsAsAsked
PROPERTIES
    SelectionKept
    ExitEnds
