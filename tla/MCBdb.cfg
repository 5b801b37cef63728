SPECIFICATION FairSpec
CONSTANTS
    AttemptsMax = 1
    AttemptsMod = 3
    MaxTimers = 4
    MaxReqs = 2
    MaxLeaves = 2
    MaxRejoins = 1
    MaxCuts = 1
INVARIANTS TypeOK RetryWaits NotCutShort
PROPERTIES SteeringEnds GetsJoined
CHECK_DEADLOCK FALSE
