\* Two mains that crash, stop and start, two lapses of the key, two checks under way at once.
CONSTANTS
    Mains = {m1, m2}
    MaxBoots = 2
    MaxLapses = 2
    MaxChecks <- OneAndTwo
    KeepsHostId = FALSE
    NoId = NoId
SPECIFICATION LiveSpec
CHECK_DEADLOCK FALSE
INVARIANT TypeOK
INVARIANT TwoLeadersOnlyAfterLapse
PROPERTY RoleChangesAreTold
PROPERTY LeaderUnlessDoubled
