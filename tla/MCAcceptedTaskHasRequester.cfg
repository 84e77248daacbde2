\* A request that expires while the runner is accepting it.
CONSTANTS
    Runners = {r1}
    Launchers = {}
    Requests = {q1}
    MaxConcurrency = 1
    MaxOffers = 2
    Mode = "external"
SPECIFICATION Spec
CHECK_DEADLOCK FALSE
INVARIANT AcceptedTaskHasRequester
