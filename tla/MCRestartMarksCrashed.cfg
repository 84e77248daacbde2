\* A process that dies between the start of an execution and its first node.
CONSTANTS
    Calls = {c1}
    Executions = {e1}
    productionLimit = 1
    evaluationLimit <- Unlimited
    ModeOf <- Webhooks
    MaxRestarts = 1
    None = None
SPECIFICATION Spec
CHECK_DEADLOCK FALSE
PROPERTY RestartMarksCrashed
