SPECIFICATION FairSpec
CHECK_DEADLOCK FALSE
CONSTANTS
    j1 = j1  j2 = j2  d1 = d1  d2 = d2  d3 = d3
    Jobs = {j1, j2}
    Stored = {j1}
    Expiring = {j1}
    Dispatches = {d1, d2}
    Poller = Poller
    NoOne = NoOne
    Concurrency = 1
    MaxAttempts = 2
    ClaimLimit = 2
    MaxRequests = 1
    MaxCrashes = 1
    MaxReclaims = 0
PROPERTY JobReconciled
INVARIANTS OneExecutionPerJob JobOutcomeIsBacked
