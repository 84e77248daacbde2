\* Mains that keep their host id: one restarts within the time to live of its key.
CONSTANTS
    Mains = {m1, m2}
    MaxBoots = 2
    MaxLapses = 0
    MaxChecks <- OneEach
    KeepsHostId = TRUE
    NoId = NoId
SPECIFICATION LiveSpec
CHECK_DEADLOCK FALSE
PROPERTY LeaderIsDesignated
