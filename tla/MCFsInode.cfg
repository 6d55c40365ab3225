SPECIFICATION MCSpec
CONSTANTS
    Process = {p1, p2}
    NoProcess = NoProcess
    NInum = 3
    NBlock = 3
    Name = {"a", "b"}
    Trees <- MCTrees
    Jobs <- MCJobs
    MaxCalls = 3
    Proc = {u1, u2, u3}
    NoProc = NoProc
    Buf = {b1, b2}
    Sector = {s1, s2, s3}
    NoSector = NoSector
    NoBuf = NoBuf
    Value = {v0, v1}
    Blank = v0
    Killable = {u1, u2, u3}
INVARIANTS
    RefsCounted
    FsNeverPanics
    NoEmbrace
    DiskSound
    NothingLost
    BuffersSound
    SleepersServed
PROPERTIES
    ImplementsNames
    ImplementsBlockStore
SYMMETRY Symmetry
