SPECIFICATION Spec
CONSTANTS
    NPROC = 3
    Full = 2
    Limit = 4
    Percent = {2, 3}
    Bid = {0}
    Word = 4
    MaxTotal = 5
INVARIANT SumKept
CHECK_DEADLOCK FALSE
