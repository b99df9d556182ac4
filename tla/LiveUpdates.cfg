CONSTANTS
    None = None
    Pages = {p1, p2}
    Sessions = {1}
    Running = {1}
    CommitResults = {"ok", "commit_fails", "refresh_fails"}
    Deletable = {1}
    MaxFaults = 1
    MaxReports = 3
    MaxMessages = 2
SPECIFICATION LiveSpec
INVARIANTS
    TypeOK
    ChannelsAreStreams
    NothingLostOrReordered
PROPERTIES
    PagesNeverGoBack
    ListenersSeeTheFinish
    EntriesCatchUp
