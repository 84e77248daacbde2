\* A resume that is skipped as a duplicate, against what it leaves behind.
CONSTANTS
    Calls = {c1, c2, c3}
    Executions = {e1}
    productionLimit = 2
    evaluationLimit <- Unlimited
    ModeOf <- Webhooks
    MaxRestarts = 0
    None = None
SPECIFICATION Spec
SYMMETRY SymmetricCalls
CHECK_DEADLOCK FALSE
INVARIANT SkippedResumeHoldsNoSlot
