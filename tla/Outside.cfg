SPECIFICATION OutsideSpec
CONSTANTS
    Workers = {w1, w2}
    Newest = 2
    Payloads <- Events
    Subs = {"s1"}
    AskedFor <- Asks
    Whitelist = {"ann"}
    Batch = 2
    MaxAttempts = 2
    MaxFaults = 1
    Requests = {"c1", "c2"}
    Size = 3
    PerPage = 2
    Wanted = 0
    Retries = 3
    MaxOpened = 2
    MaxChanges = 1
    Tasks = {k1, k2}
    Logins = {"ann", "bob"}
    Repos = {"r1", "r2"}
    NameOf <- TwoNames
    MaxTokens = 1
    MaxIssued = 1
    Fires = {f1, f2}
    MaxTurns = 6
    MaxFailed = 2
    LeaseRunsOut = TRUE
    MaxOccurrences = 2
    MaxLate = 1
    Dogs = {d1, d2}
    Condition <- OnChange
    Outputs <- TwoOutputs
    NoOutput = NoOutput
    MaxFails = 2
    MaxMishaps = 1
    Calls = {c1, c2}
    Keys = {k1, k2}
    NoKey = NoKey
    MaxMade = 3
    MaxErrors = 1
    MaxSaid = 2
    KeptAnswers = 2
    MaxCalls = 4
    MaxEvents = 1
    MaxChunks = 3
    MaxConnects = 3
INVARIANTS
    EffectsAreTrue
    
    
PROPERTIES
    AppliedInTurn
    IsTable
    Rests
CHECK_DEADLOCK FALSE
