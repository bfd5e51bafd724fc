SPECIFICATION Spec
CONSTANTS
    PassScope = pass
    Natives = {n1}
    Posts = {}
    Inline = {s1, s2}
    InFlight = 1
    ParkedDelay = 2
    MaxDelay = 3
    DispatchAfterEvent = FALSE
    EventFaults = FALSE
    StorageFaults = FALSE
    Crashes = FALSE
    NoCaller = NoCaller
INVARIANTS
    QuietIsExact
