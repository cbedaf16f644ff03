SPECIFICATION Spec
CONSTANTS
    Fds <- MCWithExcess
    MaxOnlineUsers = 3
    Rooms = {gentoo, emacs}
    OtherRooms = {vim}
    Names = {ann}
    Erased = Erased
    Garbage = Garbage
    Wild = Wild
    FreshHeads <- MCFresh
    MaxJoined = 3
    Nobody = Nobody
INVARIANTS
    TypeOK
    OneListedMember
PROPERTIES
    ListedUntilLeaveOrEviction
    GhostsComeFromRelogin
    ImplementsRoster
