SPECIFICATION Spec
CONSTANTS
    Region = 10
    Length = {1, 2, 3}
INVARIANTS
    HeldApart
CHECK_DEADLOCK FALSE
