CONSTANTS
    Ids = {c1, c2}
    MAX_PENDING_OUTCOMES = 1
SPECIFICATION Spec
INVARIANTS DecidedBeforeRun HeldIsJournaled RunsOnceUndenied OneOutcome TrailIsWhole
PROPERTIES OutcomeIsWritten
CHECK_DEADLOCK FALSE
