SPECIFICATION Spec
CONSTANTS
    Actors = {a1, a2}
    Ids = {i1, i2}
    Pids = {p1, p2, p3}
    None = None
INVARIANTS
    Visible
    OneProcess
    StoppedIsStopped
SYMMETRY Symmetry
CONSTRAINT Orderly
