SPECIFICATION Spec
CONSTANTS
    Instances = {i1, i2}
    Nobody = Nobody
    Newest = 1
    PollLimit = 1
    ClaimLimit = 1
    MaxCrashes = 0
INVARIANT
    OneTurn
CHECK_DEADLOCK FALSE
