SPECIFICATION Spec
CONSTANTS
    AttemptsMax = 1
    AttemptsMod = 3
    MaxTimers = 3
    MaxReqs = 1
    MaxLeaves = 0
    MaxRejoins = 1
    MaxCuts = 0
PROPERTIES JoinedWhenTold
CHECK_DEADLOCK FALSE
