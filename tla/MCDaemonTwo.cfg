SPECIFICATION FairSpec
CONSTANTS
    server_fd = 0
    Fds <- MCTwoFds
    MaxOnlineUsers = 3
    Rooms = {room}
    OtherRooms = {vim}
    RoomNames = {room, vim}
    Erased = Erased
    Garbage = Garbage
    Wild = Wild
    FreshHeads <- MCFreshNull
    UserNames <- MCNames
    Passwords = {pw, gentoo}
    Forbidden = {}
    DefaultUsers <- MCDefaultUsers
    NoUser = NoUser
    Requests <- MCSessionCommands
    Mangled = Mangled
    Fragment <- MCFragment
    Long = {}
    Quoted = {}
    SpliceResults = {}
    SqlMayFail = FALSE
    MaxPerRead = 1
    SplitReads = FALSE
    MaxClientOps = 6
    gentoo = gentoo
    admin = admin
    ann = ann
    pw = pw
    quo = quo
    long = long
    room = room
    vim = vim
INVARIANTS
    OrderlyCloseClears
    EventsAreForOpenFds
PROPERTIES
    GonePeersAreClosed
    ConnectionsAreAccepted
CHECK_DEADLOCK FALSE
