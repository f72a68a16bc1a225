CONSTANTS
    Scripts <- Ending
    MaxBody = 3
    PipeCap = 2
    Faults = {"pipe", "fork"}
SPECIFICATION FairSpec
INVARIANTS
    TypeOK
    OkMeansComplete
    NoProcessLeft
    PipesClosed
PROPERTIES
    Returns
    CallImplemented
CHECK_DEADLOCK FALSE
