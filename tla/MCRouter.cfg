CONSTANTS
    Names <- MCNames
    Begins <- MCBegins
    Locations <- FullTest
    Server <- MCServer
    Bodies = {b1, b2}
    b1 = b1
    b2 = b2
    Cut = Cut
    Dir = Dir
    None = None
    WithHtml <- MCWithHtml
    Lower <- MCLower
    Stamps = {"t1"}
    Requests <- MCRequests
    Trees <- MCTrees
    Faults = {"open", "full", "read"}
SPECIFICATION Spec
INVARIANTS
    TypeOK
    UploadServed
PROPERTIES
    ChangesAsAnswered
    StoreImplemented
CHECK_DEADLOCK FALSE
