SPECIFICATION Spec
CONSTANTS
    Plugins = {p1, p2}
    Tasks = {"selftest"}
    MaxBuilds = 2
    None = None
INVARIANTS
    NeverCorrupted
CHECK_DEADLOCK FALSE
