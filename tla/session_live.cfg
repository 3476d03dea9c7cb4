SPECIFICATION FairSpec
CONSTANTS
    Handlers = {h1, h2}
    Readers = {r1}
    Janitor = janitor
    Main = main
    Async = FALSE
    Requests = {"start", "stop"}
    IdleTimeout = 1
    ResumeStaleAfter = 2
    HistoryLimit = 1
    KeepEnded = 1
    StoreMayFail = FALSE
    MaxCooks = 2
    MaxTime = 3
    MaxCrashes = 0
PROPERTIES
    RetiredCookEnds
    StopDisconnects
