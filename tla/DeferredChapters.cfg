SPECIFICATION Spec
CONSTANTS
    quiz = quiz
    exam = exam
    r1 = r1
    r2 = r2
    Turns <- MCTurns
    Jobs <- MCJobs
    Tabs = {1, 2}
    Tab <- MCTab
    MaxAttempts = 2
    MaxMissing = 1
SYMMETRY Symmetry
INVARIANTS
    AbandonedForReason
    AttemptsCovered
PROPERTIES
    TerminalIsFinal
