CONSTANTS
    Ids = {i1, i2, i3}
    Guards = {g1, g2, g3}
    Nothing = Nothing
    EARLY_CANCELS = 2
    EARLY_CANCEL_WINDOW = 1
    RELEASED = 1
    MaxNow = 3
SPECIFICATION Spec
SYMMETRY Symmetry
INVARIANTS RunningIsReachable CancellationIsKept OnlyMeantIsCancelled
