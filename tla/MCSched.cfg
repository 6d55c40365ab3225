SPECIFICATION MCSpec
CONSTANTS
    NPROC = 3
    CPU = {c0, c1}
    BootCPU = c0
    NoCPU = NoCPU
    Killable = {2, 3}
INVARIANTS
    StacksSafe
    RunningMeansOnCPU
    NoLostWakeup
    NeverPanics
    MaskRight
PROPERTIES
    EventuallyRuns
    SleeperReturns
    SharesKept
