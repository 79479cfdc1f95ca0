SPECIFICATION AgentSpec
CONSTANTS
    Callers = {i1, i2}
    Texts = {"a", "b"}
    Edits = {"e"}
    Parts <- TextAndSticker
    Attempts = 2
    MaxShown = 2
    MaxTroubles = 1
    Instances = {i1, i2}
    c1 = c1
    c2 = c2
    Children = {c1, c2}
    Waiters = {w1}
    Order <- TwoChildren
    Machines = {m1, m2}
    Nobody = Nobody
    Limit = 1
    MaxJobs = 1
    MaxRows = 2
    MaxFaults = 1
    Target = 1
    Burst = 2
    MaxRuns = 3
    Operators = {i1, i2}
    Jobs = {"j1"}
    MaxTokens = 3
    Procs = {"p1", "p2"}
    Does <- TwoPrograms
    MaxTabs = 3
    MaxProfiles = 2
    Letters = 2
    MaxCommands = 3
INVARIANTS
    
    
    RunnersAreTrue
    
SYMMETRY Symmetry
CHECK_DEADLOCK FALSE
