SPECIFICATION FairSpec
CONSTANTS
    Rooms = {a, b}
    OtherRooms = {c}
    Mangled = Mangled
    NULL = NULL
    Fragment = Fragment
    MaxPerRead = 2
    SplitReads = TRUE
    MaxLines = 4
    fd = 5
    User = User
    Erased = Erased
    Garbage = Garbage
    Wild = Wild
INVARIANTS
    TypeOK
    NullIsNeverFollowed
    StatusAgrees
    CurRoomIsLastJoined
PROPERTIES
    LoginIsSeen
CHECK_DEADLOCK FALSE
