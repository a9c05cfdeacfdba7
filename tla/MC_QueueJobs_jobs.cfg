SPECIFICATION Spec
CHECK_DEADLOCK FALSE
CONSTANTS
    j1 = j1  j2 = j2  d1 = d1  d2 = d2  d3 = d3
    Jobs = {j1}
    Stored = {j1}
    Expiring = {}
    Dispatches = {d1, d2, d3}
    Poller = Poller
    NoOne = NoOne
    Concurrency = 1
    MaxAttempts = 2
    ClaimLimit = 2
    MaxRequests = 1
    MaxCrashes = 0
    MaxReclaims = 1
INVARIANTS
    TypeOK JobAttemptsBounded RunningIsFollowed OneExecutionPerJob JobOutcomeIsBacked
