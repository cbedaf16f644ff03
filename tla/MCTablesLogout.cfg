SPECIFICATION Spec
CONSTANTS
    Fds <- MCSlotsOnly
    MaxOnlineUsers = 3
    Rooms = {gentoo, emacs}
    OtherRooms = {vim}
    Names = {ann}
    Erased = Erased
    Garbage = Garbage
    Wild = Wild
    FreshHeads <- MCFreshNull
    MaxJoined = 3
    Nobody = Nobody
PROPERTIES
    LogoutLeavesEveryRoom
