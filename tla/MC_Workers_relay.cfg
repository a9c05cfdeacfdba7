SPECIFICATION Spec
CHECK_DEADLOCK FALSE
CONSTANTS
    r1 = r1  j1 = j1  w1 = w1  w2 = w2  d1 = d1  d2 = d2  d3 = d3
    Runs = {r1}
    Jobs = {j1}
    Workers = {w1, w2}
    Enrolled = {w1}
    Deliveries = {d1, d2}
    Labels <- MCLabels
    Required <- MCRequired
    NoOne = NoOne
    MaxConcurrency = 1
    MaxAttempts = 2
    ChannelSize = 1
    MaxEvents = 1
SYMMETRY Symmetry
INVARIANTS
    TypeOK WorkerOutcomeIsBacked AssignedIsHandled RunningIsDelivered
