SPECIFICATION Spec
CONSTANTS
    Runs = {r1}
    Dispatches = {d1, d2}
    Clients = {c1}
    NoOne = NoOne
    MaxAttempts = 1
    ScheduleType = "on_demand"
    OnOverlap = {"skip"}
    Modes = {"detached", "blocking"}
    PromptDispatch = FALSE
    MaxRequests = 2
    MaxCrashes = 1
SYMMETRY Symmetry
INVARIANTS
    TypeOK
    RunningHasOwner
    AttemptsBounded
    OutcomeIsBacked
