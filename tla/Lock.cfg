SPECIFICATION FairSpec
CONSTANTS
    Clients = {c1, c2}
    NoToken = NoToken
    Nap = 2
    Timeout = 1
    Renew = TRUE
    MaxTakes = 1
INVARIANTS
    Exclusive
PROPERTIES
    NotFreedByOthers
    LossIsNoticed
