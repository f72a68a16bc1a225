CONSTANTS
    c1 = c1
    c2 = c2
    p80 = p80
    p81 = p81
    None = None
    Conns = {c1}
    MaxFd = 2
    ServerPorts <- OnePort
    Scripts <- OneBadLength
    RespLen = 2
    Faults = {}
SPECIFICATION Spec
INVARIANTS
    NeverDown
CHECK_DEADLOCK FALSE
