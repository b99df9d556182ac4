CONSTANTS
    None = None
    Callers = {c1}
    Runs = {r1, r2}
    Columns = {logs_pruned}
    MaxPids = 2
SPECIFICATION LiveSpec
INVARIANTS
    TypeOK
    PidFileNamesTheServer
    OneServerAtATime
    SessionsFollowTheServer
PROPERTIES
    StartedServersServe
