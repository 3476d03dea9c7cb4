SPECIFICATION Spec
CONSTANTS
    Handlers = {h1}
    Readers = {r1}
    Janitor = janitor
    Main = main
    Async = FALSE
    Requests = {"start", "stop", "delete"}
    IdleTimeout = 1
    ResumeStaleAfter = 1
    HistoryLimit = 2
    KeepEnded = 1
    StoreMayFail = TRUE
    MaxCooks = 2
    MaxTime = 3
    MaxCrashes = 1
INVARIANTS
    CookInv
    HistoryOldestFirst
PROPERTIES
    ImplementsLog
