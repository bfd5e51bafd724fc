SPECIFICATION Spec
CONSTANTS
    Alarms = {1, 2}
    Dispatchers = {1, 2}
    Owner <- TwoOwners
    Fibers = {0}
    Main = 0
    Limit = 1
    Budgets = {2}
    MaxBudget = 2
    Revisions = {0, 1, 2}
    MinRetryDelay = 1
    InitialDelay = 1
    ParkedDelay = 2
    MinRepeat = 2
    Closures <- TwoAlarmClosures
    MaxTime = 1
    MaxExternal = 2
    MaxRestarts = 0
    StorageFaults = FALSE
    NoRow = NoRow
    NoAlarm = NoAlarm
    NoMutation = NoMutation
INVARIANTS
    AnnouncedAtMostOnce
CHECK_DEADLOCK FALSE
