SPECIFICATION FairSpec
CONSTANTS
    Workers = {w1, w2}
    Nobody = Nobody
    CiTargets = {lint, test}
    CdTargets = {ship}
    MaxRuns = 1
    MaxFaults = 2
INVARIANTS
    GreenIsEarned
    DeployAfterGreen
    ExecutedOnce
PROPERTY
    EveryRunEnds
CHECK_DEADLOCK FALSE
