CONSTANTS
    None = None
    Callers = {c1}
    Runs = {r1}
    Columns = {logs_pruned}
    MaxPids = 2
SPECIFICATION Spec
PROPERTY MarkedSessionsAreStale
