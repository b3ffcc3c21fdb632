\* Liveness: two requests of one key, no symmetry.
CONSTANTS
    r1 = r1
    r2 = r2
    m = m
    k1 = k1
    k2 = k2
    None = None
    Requests = {r1, r2}
    Discoveries = {}
    Keys = {k1}
    MaxPerKey = 2
    MaxInFlight = 1
    Limit = 1
    MaxEvents = 1
    WriteBurst = 1
SPECIFICATION FairSpec
PROPERTY StreamsAreAccounted
CHECK_DEADLOCK FALSE
