SPECIFICATION Spec
CONSTANTS
    Degree = 1
    HistoryLimit = 4
    BarSteps = 2
    RateWindow = 1
    EtaRateWindow = 2
    AmbientWindow = 0
    LiveStall <- MCLiveStall
    StallRate <- MCStallRate
    EtaMax = 3
    MinPoints = 3
    MinRise = 2
    FinalSpan = 2
    ReachTol = 1
    BlendCap <- MCBlendCap
    PastCooks <- MCPastCooks
    MeatTypes = {"", "pork"}
    NoMeat = ""
    Temperatures <- MCTemperatures
    Targets = {3, 4}
    MaxTime = 3
    MaxGap = 1
    MaxPast = 3
INVARIANTS
    TypeOK
    StatusCoherent
    NewtonIsLonger
    SlopeIsBetweenPairs
    CurveFollowsReadings
