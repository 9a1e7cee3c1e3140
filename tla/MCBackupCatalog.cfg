SPECIFICATION Spec
CONSTANTS
    j1 = j1
    j2 = j2
    Jobs = {j1, j2}
    MaxVersion = 3
    Exact = {2, 3}
    MaxClock = 3
    Retain = 1
    MaxCrash = 1
    MaxFault = 1
SYMMETRY Symmetry
INVARIANTS
    TypeOK
    CompleteIsWhole
    CatalogMonotone
    InterruptedUploadHarmless
    RestoresRecent
