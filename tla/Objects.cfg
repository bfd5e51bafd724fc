SPECIFICATION SuiteSpec
CONSTANTS
    e1 = e1
    e2 = e2
    a = a
    b = b
    c = c
    k = k
    None = None
    Events <- TwoEvents
    Callers = {a, b, c}
    Home <- AtHome
    Late <- Background
    Keys = {k}
    MaxTargets = 3
    Alarms = {"a"}
    Known = {"a"}
    Passes = {"p", "q"}
    Permits = 1
    Revisions = {0, 1, 2, 3}
    InFlightRecovery = 1
    ParkedRetryDelay = 2
    Deadlines = {0, 1, 2}
    MaxEnrollments = 2
    MaxEvictions = 1
    StorageFaults = TRUE
    NoRow = NoRow
    NoClaim = NoClaim
    Rows = {"a", "a2", "b", "c", "d", "e"}
    Manual = {"b", "c"}
    Dispatchers = {"mixed", "manual"}
    TagOf <- TagOfRow
    Mixed = {"mixed"}
    Invalid = {}
    LimitOf <- OneAtATime
    DefaultLimit = 1
    Objects <- Hooked
    Empty = ""
    EventPermits = 1
    PassFaults = TRUE
    Nobody = Nobody
    TailPass = TailPass
    RowIds = {"a", "b"}
    Oversized = {}
    MaxCached = 1
    Times = {}
    Surprises = {}
    MaxRepeats = 1
    MaxDepth = 2
    MaxWrites = 1
    MaxDeletes = 0
    NoView = NoView
    NoReader = NoReader
    Unread = Unread
    Sockets = {"s1"}
    Streams = {1, 2}
    Calls = {3}
    StreamKeys = {"events"}
    KeyOf <- OneKey
    Builds <- AnyBuild
    MaxValue = 2
    MaxChunk = 2
    MaxClients = 1
    MaxRestarts = 1
    Faults = TRUE
    NoSub = NoSub
    NoConnection = NoConnection
    NoFiber = NoFiber
    NoAttachment = NoAttachment
    RpcCalls = {"c1"}
    ClientSides <- CallerSides
    ServerSides <- ReceiverSides
    Inputs <- SkewedInputs
    Contracts = {}
    Plain = Plain
    Instance = Instance
    Lowered = Lowered
    Ctx = Ctx
    NoTag = NoTag
INVARIANTS
    TargetsAreSafe
    RegistrationsCover
    CacheIsTrue
    SocketsSurviveHibernation
    CallsKeepTheirMeaning
PROPERTIES
    ClaimsAreKept
    NothingIsForgotten
