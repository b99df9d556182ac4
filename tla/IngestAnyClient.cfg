CONSTANTS
    None = None
    t1 = t1
    t2 = t2
    Nodes <- MCNodes
    Reports <- OneReport
    Uuids = {a, None}
    ClientIds = {0, 1}
    CommitResults = {"ok", "commit_fails", "refresh_fails"}
    Deletable = {"in_progress", "completed", "interrupted"}
    MaxCreated = 3
    MaxReports = 2
SPECIFICATION Spec
INVARIANTS
    IdOrderIsCreationOrder
PROPERTIES
    HistoryOnlyGrows
