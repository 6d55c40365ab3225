SPECIFICATION Spec
CONSTANTS
    NPROC = 4
    MaxPid = 4
    MayFail = FALSE
    Calls = {"clone"}
    Programs = {"any"}
INVARIANTS
    AddressSpaceLive
CHECK_DEADLOCK FALSE
