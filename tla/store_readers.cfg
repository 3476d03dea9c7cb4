SPECIFICATION Spec
CONSTANTS
    Readers = {r1, r2}
    Handlers = {h1, h2}
    Loaders = {l1, l2}
    Scrapers = {s1, s2}
    MaxCooks = 2
    KeepEnded = 1
    HistoryModelCooks = 2
    MinPoints = 3
    MaxSamples = 3
    StatsTTL = 1
SYMMETRY Symmetry
INVARIANTS
    TypeOK
    CurvesAreWhole
    ModelFollowsStore
PROPERTIES
    ScansAreRationed
