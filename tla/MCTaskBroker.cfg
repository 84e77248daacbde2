\* Safety: one runner, one launcher, two requests, three offers.
CONSTANTS
    Runners = {r1, l1}
    Launchers = {l1}
    Requests = {q1, q2}
    MaxConcurrency = 2
    MaxOffers = 3
    Mode = "external"
SPECIFICATION Spec
SYMMETRY Symmetric
CHECK_DEADLOCK FALSE
INVARIANT TypeOK
INVARIANT OfferUsedOnce
INVARIANT WaitersAreTracked
INVARIANT OneTaskPerRequest
INVARIANT OffersWithinCapacity
INVARIANT SettingsFindTaskWaiting
