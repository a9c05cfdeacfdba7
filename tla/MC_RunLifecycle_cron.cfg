SPECIFICATION Spec
CONSTANTS
    Runs = {r1, r2}
    Dispatches = {d1, d2, d3}
    Clients = {}
    NoOne = NoOne
    MaxAttempts = 2
    ScheduleType = "cron"
    OnOverlap = {"skip", "queue"}
    Modes = {"detached"}
    PromptDispatch = TRUE
    MaxRequests = 1
    MaxCrashes = 0
SYMMETRY Symmetry
INVARIANTS
    RunningHasOwner
    AttemptsBounded
    OneExecutionPerRun
    OutcomeIsBacked
