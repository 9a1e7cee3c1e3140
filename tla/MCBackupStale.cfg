SPECIFICATION Spec
CONSTANTS
    j1 = j1
    j2 = j2
    Jobs = {j1}
    MaxVersion = 2
    Exact = {1, 2}
    MaxClock = 2
    Retain = 1
    MaxCrash = 0
    MaxFault = 1
INVARIANTS
    NewestComplete
