CONSTANTS
    Lanes <- RerunLanes
    MaxPlays = 2
    MaxMishaps = 1
SPECIFICATION Spec
INVARIANT OwnStateAccepted
CHECK_DEADLOCK FALSE
