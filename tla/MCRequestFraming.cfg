CONSTANTS
    Messages <- MCMessages
    Chars = {"x"}
    DigitValue <- MCDigitValue
    Radix = 2
    Strtoul <- MCStrtoul
    NoNumber = {"abc", ""}
    Limit = 9
    RouterLimit = 9
SPECIFICATION Spec
INVARIANTS
    TypeOK
    JudgedAtItsEnd
    DelimitedBodyAsSent
    ScriptToldLength
CHECK_DEADLOCK FALSE
