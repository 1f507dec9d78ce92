CONSTANTS
    Stmts = {s1, s2}
    Kinds = {"preview", "write"}
    Closers = {k1}
    User = User
    SERVER_SIDE_CANCEL = TRUE
    TRANSACTIONS = FALSE
SPECIFICATION Spec
SYMMETRY Symmetry
INVARIANTS CancelledIsUndone DoneIsDone OneEnd ResultIsClosed InterruptionIsSent
CHECK_DEADLOCK FALSE
