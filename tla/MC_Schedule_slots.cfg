SPECIFICATION Spec
CHECK_DEADLOCK FALSE
CONSTANTS
    cron = cron  report = report  audit = audit  fresh = fresh
    Procs = {cron, report, audit, fresh}
    Existing = {cron, report, audit}
    Schedules <- MCSchedules
    Original <- MCOriginal
    ExecuteOnMiss = {cron}
    DependsOn <- MCDependsOn
    DependencyType <- MCDependencyType
    NoOne = NoOne
    Horizon = 2
    Interval = 1
    Lag = 1
    MaxRecoverySlots = 2
    MaxTime = 4
    MaxEnded = 1
    MaxEvents = 2
    Requested = {cron, fresh}
INVARIANTS
    TypeOK NoMissedSlot RecoveryCapped 
PROPERTY SlotsServedOnce
