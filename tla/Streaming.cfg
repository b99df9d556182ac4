CONSTANTS
    None = None
    t1 = t1
    t2 = t2
    Nodes <- MCNodes
    Reports <- MCReports
    Script <- MCScript
    Uuids = {a}
    ClientIds = {0}
    CommitResults = {"ok", "commit_fails", "refresh_fails"}
    Deletable = {}
    MaxCreated = 2
    MaxReports = 4
SPECIFICATION FailSoftSpec
INVARIANTS
    StreamingTypeOK
    SentReportsAreStored
    OneSessionPerRun
    CleanRunsAreRecorded
PROPERTIES
    RunsEnd
