SPECIFICATION Spec
CONSTANTS
    Versions = {2, 3}
    Blocks = 4
    ResumeAfter = 1
    SaveEvery = 3
    BlockRetries = 2
    EndRetries = 2
    AddrRetries = 2
    MaxFaults = 1
    MaxCuts = 1
    MaxOffers = 2
INVARIANTS OnlyWholeImage
CHECK_DEADLOCK FALSE
