\* Liveness: nodes get their tasks, their results, or an error.
CONSTANTS
    Runners = {r1, l1}
    Launchers = {l1}
    Requests = {q1, q2}
    MaxConcurrency = 1
    MaxOffers = 2
    Mode = "internal"
SPECIFICATION LiveSpec
CHECK_DEADLOCK FALSE
PROPERTY WaitersAreAnswered
