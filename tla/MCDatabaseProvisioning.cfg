CONSTANTS
    N = 2
    MayStray = {}
    MaxPlays = 2
    MaxMishaps = 1
SPECIFICATION Spec
INVARIANTS TypeOK OneHelper ResidueFree CountHonest DoneIsEstablished
PROPERTIES ReplacementKept NoImplicitRotation HalfDoneWaits
CHECK_DEADLOCK FALSE
