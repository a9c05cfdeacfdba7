SPECIFICATION Spec
CONSTANTS
    Runs = {r1}
    Dispatches = {d1}
    Clients = {c1}
    NoOne = NoOne
    MaxAttempts = 2
    ScheduleType = "on_demand"
    OnOverlap = {"skip"}
    Modes = {"detached"}
    PromptDispatch = TRUE
    MaxRequests = 1
    MaxCrashes = 0
PROPERTY ClosedStaysClosed
