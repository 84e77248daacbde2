\* Two checks under way at once: the main demotes itself, and renews its own key for ever.
CONSTANTS
    Mains = {m1}
    MaxBoots = 1
    MaxLapses = 1
    MaxChecks <- TwoEach
    KeepsHostId = FALSE
    NoId = NoId
SPECIFICATION LiveSpec
CHECK_DEADLOCK FALSE
PROPERTY LeaderIsDesignated
