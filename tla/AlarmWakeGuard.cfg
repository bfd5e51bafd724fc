SPECIFICATION Spec
CONSTANTS
    PassScope = pass
    Natives = {n1}
    Posts = {p1}
    Inline = {s1, s2}
    InFlight = 1
    ParkedDelay = 2
    MaxDelay = 3
    DispatchAfterEvent = TRUE
    EventFaults = TRUE
    StorageFaults = TRUE
    Crashes = TRUE
    NoCaller = NoCaller
INVARIANTS
    TypeOK
    WorkIsCovered
    GuardIsShort
PROPERTIES
    RegionsDelayDispatch
