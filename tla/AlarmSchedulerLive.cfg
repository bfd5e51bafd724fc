SPECIFICATION FairSpec
CONSTANTS
    Alarms = {1, 2}
    Dispatchers = {1}
    Owner <- OneOwner
    Fibers = {0}
    Main = 0
    Limit = 1
    Budgets = {2}
    MaxBudget = 2
    Revisions = {0, 1, 2}
    MinRetryDelay = 1
    InitialDelay = 1
    ParkedDelay = 2
    MinRepeat = 2
    Closures <- LiveClosures
    MaxTime = 1
    MaxExternal = 2
    MaxRestarts = 1
    StorageFaults = FALSE
    NoRow = NoRow
    NoAlarm = NoAlarm
    NoMutation = NoMutation
PROPERTIES
    DueWorkIsAttempted
CHECK_DEADLOCK FALSE
