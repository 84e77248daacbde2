\* Restarts and liveness: an execution that is resumed over two restarts.
CONSTANTS
    Calls = {c1, c2}
    Executions = {e1}
    productionLimit = 1
    evaluationLimit <- Unlimited
    ModeOf <- Webhooks
    MaxRestarts = 2
    None = None
SPECIFICATION LiveSpec
CHECK_DEADLOCK FALSE
INVARIANT NoOrphanRunning
PROPERTY ThrottledGetsItsTurn
PROPERTY ShutdownComesToEnd
