SPECIFICATION Spec
CONSTANTS
    Handlers = {h1, h2}
    Readers = {r1, r2}
    Janitor = janitor
    Main = main
    Async = TRUE
    Requests = {"start", "stop", "new", "delete"}
    IdleTimeout = 0
    ResumeStaleAfter = 2
    HistoryLimit = 2
    KeepEnded = 1
    StoreMayFail = FALSE
    MaxCooks = 2
    MaxTime = 2
    MaxCrashes = 0
SYMMETRY Symmetry
INVARIANTS
    TypeOK
    OpenRowIsOwned
    CurrentCookIsOpen
    ChartIsPersisted
PROPERTIES
    OpenCookKeepsSamples
