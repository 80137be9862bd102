SPECIFICATION FanSpec
CONSTANTS
    MaxNumber = 5
    MaxLimit = 4
    NumCPU = 2
PROPERTIES
    ImplementsForEach
CHECK_DEADLOCK FALSE
