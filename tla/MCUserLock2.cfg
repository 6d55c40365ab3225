SPECIFICATION Spec
CONSTANTS
    NoThread = NoThread
    CPU = {c0, c1}
    Thread = {t1, t2}
    Loops = 1
INVARIANTS
    GlobalCounts
CHECK_DEADLOCK FALSE
