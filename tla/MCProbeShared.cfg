SPECIFICATION Spec
CONSTANTS
    r1 = r1
    r2 = r2
    Runs = {r1, r2}
    Overlap = TRUE
    Cni = {"enforcing"}
    ServerFaults = {}
    MaxCrash = 0
    MaxError = 1
    MaxMeddle = 0
PROPERTIES
    LedgerRemovedOnlyClean
