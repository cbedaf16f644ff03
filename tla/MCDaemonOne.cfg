SPECIFICATION FairSpec
CONSTANTS
    server_fd = 0
    Fds <- MCTwoFds
    MaxOnlineUsers = 2
    Rooms = {room}
    OtherRooms = {vim}
    RoomNames = {room, vim}
    Erased = Erased
    Garbage = Garbage
    Wild = Wild
    FreshHeads <- MCFresh
    UserNames <- MCAllNames
    Passwords = {pw, gentoo, quo, long}
    Forbidden = {admin}
    DefaultUsers <- MCDefaultUsers
    NoUser = NoUser
    Requests <- MCEveryCommand
    Mangled = Mangled
    Fragment <- MCFragment
    Long = {long}
    Quoted <- MCQuoted
    SpliceResults <- MCSplice
    SqlMayFail = TRUE
    MaxPerRead = 2
    SplitReads = TRUE
    MaxClientOps = 4
    gentoo = gentoo
    admin = admin
    ann = ann
    pw = pw
    quo = quo
    long = long
    room = room
    vim = vim
INVARIANTS
    TypeOK
    OnlineImpliesAccount
    RepliesAreTrue
PROPERTIES
    AccountsAreForever
    RequestsAreRead
    
CHECK_DEADLOCK FALSE
