\* Liveness over two crashes, of a main process, of a worker, or of each.
CONSTANTS
    Mains = {m1}
    Workers = {w1}
    Jobs = {j1}
    Executions = {e1}
    MaxCrashes = 2
    None = None
SPECIFICATION LiveSpec
CHECK_DEADLOCK FALSE
PROPERTY InProgressEnds
