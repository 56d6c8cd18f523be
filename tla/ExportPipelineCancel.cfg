CONSTANTS
    Total = 4
    AudioChunks = 3
    Depth = 2
    Pool = 3
    CanCancel = TRUE
SPECIFICATION Spec
PROPERTIES CancelStops
CHECK_DEADLOCK FALSE
