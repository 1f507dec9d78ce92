CONSTANTS
    Ids = {i1, i2, i3}
    Whats = {r1, r2, r3, r4}
    NoRequest = NoRequest
    Ttl = 2
    Capacity = 2
    MaxNow = 4
SPECIFICATION Spec
SYMMETRY Symmetry
INVARIANTS NoneLostNoneReplaced ExpiredIsSaid
PROPERTIES GrantedOnceInTime
