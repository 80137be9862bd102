SPECIFICATION Spec
CONSTANTS
    Plugins = {p1, p2}
    Tasks = {"search", "selftest", "doctor"}
    MaxBuilds = 2
    None = None
INVARIANTS
    StateSurvives
    CachesKept
    CacheFresh
PROPERTIES
    JobsEnd
CHECK_DEADLOCK FALSE
