\* A listing beside an upload or a deletion, over three requests.
CONSTANTS
    a = a
    b = b
    Names = {a, b}
    Place <- PlaceOfNames
    Texts = {x, y}
    Absent = Absent
    Clients = {c1, c2}
    NoClient = NoClient
    Quotas = {1, 2}
    MaxWindow = 3
    MaxAsked = 3
    MaxFailed = 1
SPECIFICATION FilesSpec
SYMMETRY Symmetry
CHECK_DEADLOCK FALSE
INVARIANTS
    WriteBackIsLockFree
