CONSTANTS
    Files <- MCFiles
    Values = {"8080", "81", "www", "1048576", "/error.html", "GET", "POST", "none", "index.html", "a", "b", "/a", "/b", "up", "gone", ".py"}
    Exists = {"www", "a", "up"}
    Rooted = {"/a", "/b"}
    ValidMethods = {"GET", "POST"}
SPECIFICATION Spec
INVARIANTS
    TypeOK
    BlocksKept
    AcceptedIsServable
CHECK_DEADLOCK FALSE
