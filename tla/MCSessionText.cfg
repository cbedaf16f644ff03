SPECIFICATION Spec
CONSTANTS
    Rooms = {a}
    OtherRooms = {}
    Mangled = Mangled
    NULL = NULL
    Fragment = Fragment
    MaxPerRead = 1
    SplitReads = FALSE
    MaxLines = 6
    fd = 5
    User = User
    Erased = Erased
    Garbage = Garbage
    Wild = Wild
INVARIANTS
    TextHasRoom
CHECK_DEADLOCK FALSE
