SPECIFICATION Spec
CONSTANTS
    server_fd = 0
    Fds <- MCOneFd
    MaxOnlineUsers = 3
    Rooms = {room}
    OtherRooms = {vim}
    RoomNames = {room, vim}
    Erased = Erased
    Garbage = Garbage
    Wild = Wild
    FreshHeads <- MCFreshNull
    UserNames <- MCNames
    Passwords = {pw, gentoo}
    Forbidden = {}
    DefaultUsers <- MCAnnHasPw
    NoUser = NoUser
    Requests <- MCOneLogin
    Mangled = Mangled
    Fragment <- MCFragment
    Long = {}
    Quoted = {}
    SpliceResults = {}
    SqlMayFail = FALSE
    MaxPerRead = 1
    SplitReads = FALSE
    MaxClientOps = 5
    gentoo = gentoo
    admin = admin
    ann = ann
    pw = pw
    quo = quo
    long = long
    room = room
    vim = vim
PROPERTIES
    FreshConnectionOffline
CHECK_DEADLOCK FALSE
