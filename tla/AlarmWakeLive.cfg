SPECIFICATION FairSpec
CONSTANTS
    PassScope = pass
    Natives = {n1}
    Posts = {p1}
    Inline = {s1}
    InFlight = 1
    ParkedDelay = 2
    MaxDelay = 2
    DispatchAfterEvent = TRUE
    EventFaults = TRUE
    StorageFaults = FALSE
    Crashes = FALSE
    NoCaller = NoCaller
PROPERTIES
    DueWorkIsDispatched
    DeliveriesReturn
