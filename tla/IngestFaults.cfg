CONSTANTS
    None = None
    t1 = t1
    t2 = t2
    Nodes <- MCNodes
    Reports <- OneReport
    Uuids = {a, b}
    ClientIds = {0}
    CommitResults = {"ok", "commit_fails"}
    Deletable = {"completed", "interrupted"}
    MaxCreated = 3
    MaxReports = 2
SPECIFICATION Spec
INVARIANTS
    MappedSessionsAreLive
    ReportsBelongToRun
PROPERTIES
    EndedSessionsAreFrozen
    ImplementsLedger
