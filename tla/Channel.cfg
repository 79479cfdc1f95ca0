SPECIFICATION FairSpec
CONSTANTS
    Commands = {c1}
    None = None
    Watched = {c1}
    Retries = 2
    MaxFaults = 2
INVARIANTS
    DoneIsEarned
    LogIsWhole
PROPERTIES
    StartedOnce
    EveryCommandSettles
CHECK_DEADLOCK FALSE
