CONSTANTS
    c1 = c1
    c2 = c2
    p80 = p80
    p81 = p81
    None = None
    Conns = {c1, c2}
    MaxFd = 3
    ServerPorts <- TwoPorts
    Scripts <- Mixed
    RespLen = 2
    Faults = {"fin", "reset", "fcntl", "accept"}
SPECIFICATION Spec
SYMMETRY Symmetry
INVARIANTS
    TypeOK
    PollSetMatchesSockets
    ThreadAtEntry
    OwnBytesOnly
    AnsweredByFirstOfPort
CHECK_DEADLOCK FALSE
