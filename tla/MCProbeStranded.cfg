SPECIFICATION FairSpec
CONSTANTS
    r1 = r1
    r2 = r2
    Runs = {r1}
    Overlap = FALSE
    Cni = {"enforcing"}
    ServerFaults = {}
    MaxCrash = 1
    MaxError = 0
    MaxMeddle = 0
PROPERTIES
    LedgerResolved
