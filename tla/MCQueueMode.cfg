\* Safety: two calls for one execution, new or found waiting; jobs that stall.
CONSTANTS
    Mains = {m1}
    Workers = {w1}
    Jobs = {j1, j2}
    Executions = {e1}
    MaxCrashes = 0
    None = None
SPECIFICATION Spec
SYMMETRY Symmetry
CHECK_DEADLOCK FALSE
INVARIANT TypeOK
INVARIANT OneWorkerPerExecution
INVARIANT EntryHasCall
PROPERTY SuccessLostToStaleReadsOnly
