SPECIFICATION MCSpec
CONSTANTS
    NoThread = NoThread
    CPU = {c0}
    Thread = {u1, u2, u3}
    Loops = 2
    Consumer = {"c1", "c2"}
    Producer = "p"
    Nobody = "nobody"
    real_size = 3
    Size = {1, 2}
    MaxConns = 4
    Sharer = {"t1", "t2", "t3"}
    Leader = "t1"
    PGSIZE = 2
    USERTOP = 9
    Change <- MCChange
    FreePages = 3
    Reader = {"sh", "child"}
    Killable = {"child"}
    Char = {"x", "newline", "eof"}
    Newline = "newline"
    Eof = "eof"
    INPUT_BUF = 3
    Word = 6
    MaxRead = 2
INVARIANTS
    WakeupsKept
    SignalsKept
    SpaceAgreed
PROPERTIES
    ImplementsMutex
    AllJoin
    ImplementsSff
    EveryoneAnswered
    ImplementsMemory
    ImplementsMalloc
    ImplementsTerminal
CHECK_DEADLOCK FALSE
