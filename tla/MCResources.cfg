SPECIFICATION MCSpec
CONSTANTS
    NPROC = 3
    NOFILE = 2
    NFILE = 2
    Programs = {"inherit", "turns"}
    MaxRef = 2
    Reader = {r1}
    Writer = {w1, w2}
    Killable = {w1, w2}
    Byte = {0, 1}
    PIPESIZE = 2
    Word = 4
    Strings <- MCStrings
    MaxRead = 3
    MaxProc = 3
    PGSIZE = 2
    USERTOP = 14
    UintRange = 16
    Physical = 9
    ProgramEnd = {3, 5}
    Change = {1, 2, 5}
    MaxStack = {2}
INVARIANTS
    RefsCounted
    DescriptorsRight
    NobodyMissed
    SpaceLaidOut
PROPERTIES
    ImplementsFifo
CHECK_DEADLOCK FALSE
SYMMETRY Symmetric
