SPECIFICATION Spec
CONSTANTS
    Alarms = {1}
    Dispatchers = {1}
    Owner <- OneOwner
    Fibers = {0, 1}
    Main = 0
    Limit = 1
    Budgets = {2, 3}
    MaxBudget = 3
    Revisions = {0, 1, 2}
    MinRetryDelay = 1
    InitialDelay = 2
    ParkedDelay = 3
    MinRepeat = 2
    Closures <- OneAlarmClosures
    MaxTime = 3
    MaxExternal = 2
    MaxRestarts = 1
    StorageFaults = TRUE
    NoRow = NoRow
    NoAlarm = NoAlarm
    NoMutation = NoMutation
INVARIANTS
    TypeOK
    RowsConsistent
    BudgetEndsInParking
    RevisionIdentifiesRow
    AnnouncedOncePerEpisode
    NoSilentParking
PROPERTIES
    NewerScheduleSurvives
    BudgetNeverRefilled
CHECK_DEADLOCK FALSE
