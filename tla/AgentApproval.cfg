CONSTANTS
    Ids = {c1}
    Whats = {agent}
    NoRequest = NoRequest
    Nobody = Nobody
    Deciders = {d1, d2}
    Ttl = 2
    Capacity = 1
    MaxNow = 4
SPECIFICATION AgentSpec
INVARIANTS NothingRanIsTrue NoOrphanRequest
PROPERTIES WaitEnds
CHECK_DEADLOCK FALSE
