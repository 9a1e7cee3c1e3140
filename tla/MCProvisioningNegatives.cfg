CONSTANTS
    N = 2
    MayStray = {1}
    MaxPlays = 1
    MaxMishaps = 0
SPECIFICATION Spec
INVARIANTS NegativesProved
CHECK_DEADLOCK FALSE
