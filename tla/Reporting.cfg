CONSTANTS
    Nodes = {t1, t2}
    None = None
SPECIFICATION Spec
CHECK_DEADLOCK FALSE
SYMMETRY Symmetry
INVARIANTS
    TypeOK
    TrackingMatchesRows
    FailuresMatchPytest
    EntriesHideNoFailure
    OrdinaryRunsAgree
