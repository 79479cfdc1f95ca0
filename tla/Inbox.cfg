SPECIFICATION FairSpec
CONSTANTS
    Instances = {i1, i2}
    Nobody = Nobody
    Newest = 2
    PollLimit = 1
    ClaimLimit = 2
    MaxCrashes = 1
INVARIANTS
    TypeOK
    NothingDropped
    TurnsAreBounded
PROPERTY
    EveryUpdateSettles
CHECK_DEADLOCK FALSE
