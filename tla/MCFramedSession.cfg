SPECIFICATION Spec
CONSTANTS
    Calls = {c1, c2}
    None = None
    PipeCap = 1
    OutputLimit = 3
    MaxExtra = 1
INVARIANTS
    OwnAnswer
    OneOwner
    NobodyStranded
    SuccessIsReal
PROPERTIES
    ImplementsCalls
    CallsEnd
    InvocationEnds
CHECK_DEADLOCK FALSE
