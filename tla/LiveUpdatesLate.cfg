CONSTANTS
    None = None
    Pages = {p1}
    Sessions = {1}
    Running = {1}
    CommitResults = {"ok"}
    Deletable = {}
    MaxFaults = 0
    MaxReports = 3
    MaxMessages = 2
SPECIFICATION LiveSpec
PROPERTY LivePagesReload
