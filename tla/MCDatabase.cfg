SPECIFICATION FairSpec
CONSTANTS
    Procs = {p, q}
    UserNames = {gentoo, ann, admin, quo}
    Passwords = {gentoo, pw, quo}
    NoUser = NoUser
    Quoted = {quo}
    SpliceResults <- MCSplice
    RoomNames = {gentoo, emacs, admin}
    Forbidden = {admin}
    ForbiddenRooms = {admin}
    Defaults <- MCDefaults
    Calls <- MCCalls
    Buckets = {1}
    BKDRHash <- MCHash
    Nobody = Nobody
    MaxCalls = 2
    MaxDeaths = 1
    gentoo = gentoo
    ann = ann
    admin = admin
    quo = quo
    pw = pw
    emacs = emacs
INVARIANTS
    TypeOK
    CreatedAccountIsThere
    CheckTruth
PROPERTIES
    HandleStaysOpen
    AccountsStand
    LoadedAreFound
    CallsEnd
CHECK_DEADLOCK FALSE
