SPECIFICATION SuiteSpec
CONSTANTS
    Bodies = {b1, b2}
    NoBody = NoBody
    MaxSaves = 2
    MaxCrashes = 1
    MaxLate = 1
    Count = 4
    WebTransports = {1, 2, 3}
    Fetches = {"first", "second"}
    HasEventLayer = TRUE
    LayerFails = TRUE
    Nobody = Nobody
    NoRow = NoRow
    NoClaim = NoClaim
    NoSub = NoSub
    NoConnection = NoConnection
    NoFiber = NoFiber
    NoAttachment = NoAttachment
    None = None
    Invocation = Invocation
INVARIANTS
    OutboxIsSafe
    FetchesAreWhole
PROPERTIES
    SelectionIsSafe
    ScopesAreClean
    WorkIsHandled
    WaitsEnd
