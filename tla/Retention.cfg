CONSTANTS
    None = None
    Pruners = {p1, p2}
    KeepRecent = 1
    MaxCreated = 3
    MaxReports = 1
SPECIFICATION Spec
INVARIANTS
    TypeOK
    StrippedAreFlagged
PROPERTIES
    PinnedUntouched
    RunningUntouched
    OldestGoFirst
