CONSTANTS
    Lanes <- RepositoryLanes
    MaxPlays = 2
    MaxMishaps = 1
SPECIFICATION Spec
INVARIANTS TypeOK DoneIsComplete NoFalseAlarm
PROPERTIES NothingBypassed OnlyReviewed ForeignKept GrantInOrder CreatedOnce
CHECK_DEADLOCK FALSE
