CONSTANTS
    Tokens = {t1, t2, t3}
    Threads = {i1, i2, i3}
    None = None
SPECIFICATION Spec
SYMMETRY Symmetry
INVARIANTS NoChildEscapes NoLostWakeup
CHECK_DEADLOCK FALSE
