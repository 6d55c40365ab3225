SPECIFICATION SpaceSpec
CONSTANTS
    MaxProc = 3
    PGSIZE = 2
    USERTOP = 14
    UintRange = 16
    Physical = 9
    ProgramEnd = {3, 5}
    Change = {1, 2, 5}
    MaxStack = {2}
INVARIANTS
    ArgsInSpace
