CONSTANTS
    Scripts <- Hanging
    MaxBody = 0
    PipeCap = 1
    Faults = {}
SPECIFICATION FairSpec
PROPERTIES
    Returns
CHECK_DEADLOCK FALSE
