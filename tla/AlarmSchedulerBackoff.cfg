SPECIFICATION Spec
CONSTANTS
    Alarms = {1}
    Dispatchers = {1}
    Owner <- OneOwner
    Fibers = {0}
    Main = 0
    Limit = 1
    Budgets = {2}
    MaxBudget = 2
    Revisions = {0, 1, 2}
    MinRetryDelay = 1
    InitialDelay = 2
    ParkedDelay = 3
    MinRepeat = 2
    Closures <- OneAlarmClosures
    MaxTime = 5
    MaxExternal = 2
    MaxRestarts = 0
    StorageFaults = FALSE
    NoRow = NoRow
    NoAlarm = NoAlarm
    NoMutation = NoMutation
PROPERTIES
    BackoffRespected
CHECK_DEADLOCK FALSE
