\* Safety of the counter and its refinement of the slots.
CONSTANTS
    Calls = {c1, c2, c3, c4}
    Executions = {e1, e2}
    productionLimit = 2
    evaluationLimit = 1
SPECIFICATION SpecCC
SYMMETRY Symmetric
INVARIANT CCTypeOK
INVARIANT CapacityAccounts
INVARIANT NoIdleSlotWhileThrottled
PROPERTY ImplementsSlots
