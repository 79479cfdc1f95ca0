SPECIFICATION Spec
CONSTANTS
    Commands = {c1}
    None = None
    Watched = {c1}
    Retries = 2
    MaxFaults = 2
INVARIANT
    FramesAreKept
CHECK_DEADLOCK FALSE
