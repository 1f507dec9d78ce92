CONSTANTS
    Openings = {o1, o2}
    Refreshes = {r1, r2}
    Ddls = {d1}
    Closers = {k1}
    Hows = {"disconnect", "delete", "close_session"}
    None = None
SPECIFICATION CatalogSpec
SYMMETRY Symmetry
INVARIANTS ReservedKeepsContext
PROPERTIES ClosedIsFrozen PublishedInOrder
CHECK_DEADLOCK FALSE
