SPECIFICATION FairSpec
CONSTANTS
    r1 = r1
    r2 = r2
    Runs = {r1}
    Overlap = FALSE
    Cni = {"enforcing"}
    ServerFaults = {"flap"}
    MaxCrash = 1
    MaxError = 1
    MaxMeddle = 0
INVARIANTS
    TypeOK
    Custody
    VerifiedCleanup
    AtMostOneUnlisted
PROPERTIES
    LedgerKept
    ResidueResolved
