SPECIFICATION SuiteSpec
CONSTANTS
    Operation = "transaction"
    MaxRetries = 2
    NativeFaults = TRUE
    MaxYields = 2
    ParentTimer = TRUE
    Messages = {"m1", "m2", "alien", "bad"}
    Alien = {"alien"}
    Unencodable = {"bad"}
    MaxAttempts = 2
    Events = {"rpc", "socket"}
    Response = {"rpc"}
    Observed = {"rpc"}
    Propagating = {"socket"}
    LateWork = TRUE
    Faults = TRUE
    Crashes = 1
    NativeFires = TRUE
    Senders = {"s1", "s2"}
    Takers = {"t1"}
    Consumer = "stream"
    Incoming = 2
    HighWater = 2
    Capacity = 1
    MaxTries = 2
    Free = "free"
    Nothing = Nothing
    Invocation = Invocation
    BadOrder = BadOrder
    Resting = Resting
    PlainValue = PlainValue
    InstanceValue = InstanceValue
    LoweredValue = LoweredValue
    CtxValue = CtxValue
INVARIANTS
    OperationIsWhole
    BatchesAreWhole
    DatagramsKeepOrder
    ReportsAreTrue
PROPERTIES
    EventsRunInOrder
    ClientsAnswerTruly
    SpansAreTrue
