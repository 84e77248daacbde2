\* Safety of the lifecycle: two executions, one slot, three calls, one process.
CONSTANTS
    Calls = {c1, c2, c3}
    Executions = {e1, e2}
    productionLimit = 1
    evaluationLimit <- Unlimited
    ModeOf <- Webhooks
    MaxRestarts = 0
    None = None
SPECIFICATION Spec
SYMMETRY SymmetricExecutions
CONSTRAINT OneStopOneError
CHECK_DEADLOCK FALSE
INVARIANT TypeOK
INVARIANT OneEnginePerExecution
INVARIANT UnsettledIsWorkedOn
INVARIANT RemovedNeverRuns
PROPERTY ThrottledStayDuringShutdown
PROPERTY UsesConcurrencyControl
