SPECIFICATION RecordsSpec
CONSTANTS
    MaxTurns = 3
    Depth = 1
    Budget = 3
    MaxSaid = 2
    MaxStops = 1
    MaxPieces = 3
    MaxText = 2
    Queue = 2
    Batch = 1
    MaxFrames = 3
    Keep = 3
    MaxRuns = 2
    MaxSteps = 2
    MaxStarts = 2
    MaxLost = 1
    MaxGaps = 1
    MaxOutput = 2
    Instances = {i1, i2}
    MaxEvents = 3
    MaxConnects = 2
    Hour = 3
    Day = 3
    Week = 3
    Months <- TwoMonths
    HorizonDays = 10
    Exprs <- SomeExprs
    Nows <- SomeNows
    Zones <- SomeZones
    Requests = {q1, q2, q3}
    Keys = {m1, m2}
    Sizes = {1, 2}
    MaxBytes = 3
    MaxCrashes = 1
    Visits = {q1, q2}
    Owners = {m1, m2}
    Slugs = {s1, s2, s3}
    Attempts = 2
    MaxDeleted = 1
    Readers = {i1, i2}
    Objects = {"a", "b", "c"}
    SizeOf <- ThreeSizes
    ItemBytes = 3
    MemoryBytes = 4
    DiskBytes = 4
    SweepTo = 3
    MaxReads = 3
    Sessions = {i1, i2}
    Nobody = Nobody
    MaxEdits = 2
    MaxOthers = 1
    MaxCommits = 3
    BaseLines = 3
    Texts <- SomeTexts
INVARIANTS
    MemoryIsTrue
    
    CronIsTrue
    
SYMMETRY Symmetry
CHECK_DEADLOCK FALSE
