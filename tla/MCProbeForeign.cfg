SPECIFICATION Spec
CONSTANTS
    r1 = r1
    r2 = r2
    Runs = {r1}
    Overlap = FALSE
    Cni = {"enforcing", "ignoring"}
    ServerFaults = {"restart"}
    MaxCrash = 0
    MaxError = 0
    MaxMeddle = 1
INVARIANTS
    EvidenceSound
PROPERTIES
    ExactIdentity
    ReviewedOnly
