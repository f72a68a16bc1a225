CONSTANTS
    Messages <- MCPipelined
    Chars = {"x"}
    DigitValue <- MCDigitValue
    Radix = 2
    Strtoul <- MCStrtoul
    NoNumber = {"abc", ""}
    Limit = 9
    RouterLimit = 9
SPECIFICATION Spec
INVARIANT
    BodyAsSent
CHECK_DEADLOCK FALSE
