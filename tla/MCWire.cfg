SPECIFICATION Spec
CONSTANTS
    UserNames = {ann, anne, annep}
    Passwords = {pw, pw1}
    RoomNames = {room, part}
    Long <- MCLong
    MaxUsernameSize = 2
    Mangled = Mangled
    N = 8
    Requests <- MCRequests
    Replies <- MCReplies
    Text <- MCText
    NULL = NULL
    MaxWrites = 3
    ann = ann
    anne = anne
    annep = annep
    pw = pw
    pw1 = pw1
    room = room
    part = part
INVARIANTS
    TypeOK
PROPERTIES
    DataEndsWithRead
    TornPacketsReachNobody
    ImplementsFraming
CHECK_DEADLOCK FALSE
