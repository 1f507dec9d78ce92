CONSTANTS
    Keys = {w1, w2, w3}
    Tasks = {t1, t2, t3, t4}
    None = None
SPECIFICATION Spec
SYMMETRY Symmetry
INVARIANTS NoSessionIsLost SomeoneWakesIt
PROPERTIES OthersAreSpared
CHECK_DEADLOCK FALSE
