CONSTANTS
    Windows = {w1, w2}
    Steps = {t1, t2}
    Writers = {w1}
    None = None
SPECIFICATION ExitSpec
 
PROPERTIES NeverLeftAsking ProceedingEnds
CHECK_DEADLOCK FALSE
