CONSTANTS
    None = None
    t1 = t1
    t2 = t2
    Nodes <- MCNodes
    Reports <- TwoReports
    Uuids = {a, b}
    ClientIds = {0}
    CommitResults = {"ok"}
    Deletable = {"in_progress", "completed", "interrupted"}
    MaxCreated = 3
    MaxReports = 2
SPECIFICATION Spec
INVARIANT ReportsBelongToRun
