CONSTANTS
    None = None
    t1 = t1
    t2 = t2
    Nodes <- MCNodes
    Reports <- MCReports
    Uuids = {a, b}
    ClientIds = {0}
    CommitResults = {"ok"}
    Deletable = {"completed", "interrupted"}
    MaxCreated = 2
    MaxReports = 3
SYMMETRY Symmetry
SPECIFICATION Spec
INVARIANTS
    TypeOK
    LiveSessionsAreMapped
    TrackingMatchesReports
    CountersMatchReports
    OverviewAgainstHistory
    HistoryMatchesCounters
