SPECIFICATION Spec
CONSTANTS
    Dials = {d1, d2}
    Reads = {r1, r2}
INVARIANTS
    OwnConn
    OpenIsHeld
PROPERTIES
    UsedEndClosed
    ReadsEnd
CHECK_DEADLOCK FALSE
