SPECIFICATION Spec
CONSTANTS
    Handlers = {h1, h2}
    Names = {"", "a"}
    Meats = {""}
    Targets = {0, 301}
    DefaultTarget = 95
    MaxCooks = 2
SYMMETRY Symmetry
INVARIANTS
    TypeOK
    RowFollowsMemory
    PendingIsShown
