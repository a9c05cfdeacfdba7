SPECIFICATION FairSpec
CONSTANTS
    Runs = {r1, r2}
    Dispatches = {d1}
    Clients = {c1}
    NoOne = NoOne
    MaxAttempts = 1
    ScheduleType = "fixed_delay"
    OnOverlap = {"skip"}
    Modes = {"detached", "blocking"}
    PromptDispatch = TRUE
    MaxRequests = 1
    MaxCrashes = 1
INVARIANTS
    OutcomeIsBacked
PROPERTIES
    EndedIsReconciled
    ChainContinues
