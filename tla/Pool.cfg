SPECIFICATION FairSpec
CONSTANTS
    Machines = {m1}
    Users = {u1}
    Takers = {r1, r2}
    Nobody = Nobody
    Limit = 1
    Ci = TRUE
    MaxFaults = 1

    
    
PROPERTY
    LeasesClose
CHECK_DEADLOCK FALSE
