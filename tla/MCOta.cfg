SPECIFICATION FairSpec
CONSTANTS
    Versions = {2, 3}
    Blocks = 4
    ResumeAfter = 1
    SaveEvery = 3
    BlockRetries = 2
    EndRetries = 2
    AddrRetries = 2
    MaxFaults = 2
    MaxCuts = 2
    MaxOffers = 1
INVARIANTS TypeOK NeverMixed NotGarbled
PROPERTIES UpgradeEnds ImageDelivered
CHECK_DEADLOCK FALSE
