SPECIFICATION FairSpec
CONSTANTS
    NPROC = 4
    MaxPid = 4
    MayFail = TRUE
    Calls = {"clone", "exec", "kill", "orphanage"}
    Programs = {"any", "tidy", "plain"}
INVARIANTS
    ParentAlive
    NoMissedChild
    AddressSpacesKept
PROPERTIES
    OrphansReaped
    KilledExits
CHECK_DEADLOCK FALSE
