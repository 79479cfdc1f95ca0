SPECIFICATION Spec
CONSTANTS
    Machines = {m1}
    Users = {u1}
    Takers = {r1}
    Nobody = Nobody
    Limit = 1
    Ci = FALSE
    MaxFaults = 0
INVARIANT
    GoneIsTold
CHECK_DEADLOCK FALSE
