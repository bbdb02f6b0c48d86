SPECIFICATION ConfirmationSpec
CONSTANTS
    cards = cards
    frameA = frameA
    frameB = frameB
    a = a
    b = b
    Sessions <- MCSessions
    Windows <- MCWindows
    Above <- MCAbove
    Frame <- MCFrame
    Foreign <- MCForeign
    Tagged <- MCTagged
    MaxDoc = 2
INVARIANTS
    ClicksItsOwn
