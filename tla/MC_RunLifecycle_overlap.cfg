SPECIFICATION Spec
CONSTANTS
    Runs = {r1, r2}
    Dispatches = {d1, d2}
    Clients = {c1}
    NoOne = NoOne
    MaxAttempts = 1
    ScheduleType = "cron"
    OnOverlap = {"skip"}
    Modes = {"detached"}
    PromptDispatch = TRUE
    MaxRequests = 0
    MaxCrashes = 0
INVARIANT NoOverlap
