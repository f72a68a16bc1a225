CONSTANTS
    c1 = c1
    c2 = c2
    p80 = p80
    p81 = p81
    None = None
    Conns = {c1, c2}
    MaxFd = 3
    ServerPorts <- OnePort
    Scripts <- OneRequest
    RespLen = 3
    Faults = {"fin", "listener", "exit", "sigpipe"}
SPECIFICATION FairSpec
INVARIANTS
    ResponseIntegrity
    ExecutedOnceInOrder
    PollSetMatchesSockets
    ReadyVisitedOnce
PROPERTIES
    CloseOnlyAfterAnswer
    ExchangeImplemented
    RequestAnswered
    ConnectionReleased
CHECK_DEADLOCK FALSE
