SPECIFICATION Spec
CONSTANTS
    NINODE = 3
    NBLOCK = 4
    NADDR = 2
    Name = {a, b}
    Value = {z, v}
    Zero = z
    Hole = hole
    NoCall = nocall
    Free = free
    CrashIn = {"CREAT", "WRITE"}
    MaxCrash = 1
    MaxFlight = 1
    AnyUnlink = TRUE
PROPERTIES
    UnmarksItsOwn
CHECK_DEADLOCK FALSE
