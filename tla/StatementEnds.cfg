CONSTANTS
    Stmts = {s1}
    Kinds = {"read", "preview", "write"}
    Closers = {k1, k2}
    User = User
    SERVER_SIDE_CANCEL = TRUE
    TRANSACTIONS = TRUE
SPECIFICATION Spec
PROPERTIES StopEnds CloseEnds
CHECK_DEADLOCK FALSE
