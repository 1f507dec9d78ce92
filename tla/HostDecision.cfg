CONSTANTS
    Ids = {i1, i2}
    Whats = {r1, r2}
    NoRequest = NoRequest
    Ttl = 3
    Capacity = 2
    MaxNow = 4
    Deciders = {d1, d2}
    Mutating = {r1, r2}
    Nobody = Nobody
    MinDelay = 1
    Deadline = 2
SPECIFICATION FairSpec
CHECK_DEADLOCK FALSE
PROPERTIES AskEnds GrantedAsRead KeepsPromise
