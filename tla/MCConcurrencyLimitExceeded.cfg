\* The documented limit, against what remove does.
CONSTANTS
    Calls = {c1, c2, c3}
    Executions = {e1, e2}
    productionLimit = 1
    evaluationLimit <- Unlimited
SPECIFICATION SpecCC
SYMMETRY Symmetric
INVARIANT AtMostLimitRunning
