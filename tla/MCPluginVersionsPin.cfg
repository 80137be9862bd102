SPECIFICATION Spec
CONSTANTS
    Plugins = {p1}
    MaxVersion = 2
INVARIANTS
    PinInstalls
