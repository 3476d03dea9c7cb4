SPECIFICATION Spec
CONSTANTS
    Handlers = {h1}
    Readers = {r1}
    Janitor = janitor
    Main = main
    Async = FALSE
    Requests = {"start", "stop"}
    IdleTimeout = 1
    ResumeStaleAfter = 2
    HistoryLimit = 2
    KeepEnded = 1
    StoreMayFail = FALSE
    MaxCooks = 2
    MaxTime = 2
    MaxCrashes = 0
INVARIANT IdleHasNoCook
