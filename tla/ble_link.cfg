SPECIFICATION FairSpec
CONSTANTS
    ConnectRetries = 3
    DiscoveryAttempts = 5
    StaleTicks = 4
    MaxAbandoned = 2
INVARIANT
    TypeOK
PROPERTIES
    ImplementsLink
    StopParks
    LostStreamNoticed
    ProbeIsReached
