SPECIFICATION TurnsSpec
CONSTANTS
    Instances = {i1, i2}
    Turns = {t1}
    NoInstance = NoInstance
    MaxRecoveries = 1
    BeatLoss = FALSE
    MaxCrashes = 1
    MaxSteps = 4
    Past = 1
    MaxFalls = 2
    CacheFails = FALSE
    Sessions = {s1, s2}
    Retries = 3
    MaxParts = 2
    ModelSteps = 2
    MaxTexts = 3
    MaxBegun = 2
    MaxPipes = 2
    Lines = 2
INVARIANTS
    DuplicateOnlyByOvertaking
    PausedIsVisible
    CheckpointsAreTrue
    
    InputsAreTrue
PROPERTIES
    SettledOnce
    StepsAreExplained
    TurnsSettle
CHECK_DEADLOCK FALSE
