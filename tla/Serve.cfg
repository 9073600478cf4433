SPECIFICATION Spec
CONSTANTS
    Goroutines = {"initial", "bgbl", "reconcile", "h1"}
    Hosts = {"bund"}
    MinGap = 1
    Sources = {"bgbl", "eli", "reconcile"}
    Loops = {"bgbl", "reconcile"}
    HostOf <- OneHost
    Startup <- InitialOrder
    Recheck <- RecheckOrder
    Fallback <- EliForBgbl
    Handlers = {"h1"}
    Initial = "initial"
    MaxRequests = 1
INVARIANTS
    TypeOK
    GapKept
    OneRunPerSource
    BackgroundStopsFirst
CHECK_DEADLOCK FALSE
PROPERTIES
    SignalEndsProcess
    UsesClient
    EverySourceSucceeds
