\* Executions that were enqueued when the process ended.
CONSTANTS
    Calls = {c1, c2}
    Executions = {e1, e2}
    productionLimit = 1
    evaluationLimit <- Unlimited
    ModeOf <- Webhooks
    MaxRestarts = 1
    None = None
SPECIFICATION Spec
SYMMETRY SymmetricExecutions
CHECK_DEADLOCK FALSE
INVARIANT EnqueuedRunAtStartup
