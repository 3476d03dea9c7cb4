SPECIFICATION FairSpec
CONSTANTS
    StaleTicks = 3
    ConnectTicks = 3
    AutoAddress = TRUE
    QueueLen = 1
    WireCap = 3
INVARIANTS
    TypeOK
    RssiHasProbe
    ScanningIsKnown
    WorkingBoardSpeaks
PROPERTIES
    ImplementsLink
    StopHangsUp
    SilenceNoticed
    ClientServed
