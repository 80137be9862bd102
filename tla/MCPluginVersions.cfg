SPECIFICATION Spec
CONSTANTS
    Plugins = {p1, p2}
    MaxVersion = 2
INVARIANTS
    VersionTruth
    HistorySound
    PinAgrees
PROPERTIES
    RollbackRoundTrips
    PinHolds
SYMMETRY Symmetry
