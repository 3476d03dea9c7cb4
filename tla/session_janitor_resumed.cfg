SPECIFICATION FairSpec
CONSTANTS
    Handlers = {h1}
    Readers = {r1}
    Janitor = janitor
    Main = main
    Async = FALSE
    Requests = {"start"}
    IdleTimeout = 1
    ResumeStaleAfter = 3
    HistoryLimit = 2
    KeepEnded = 1
    StoreMayFail = FALSE
    MaxCooks = 2
    MaxTime = 3
    MaxCrashes = 1
PROPERTY JanitorSparesResumedCook
