SPECIFICATION FairSpec
CONSTANTS
    Pids = {p1, p2}
    NoFile = NoFile
    Empty = Empty
    NoServer = NoServer
    TimeWait = TimeWait
    Defaults <- MCDefaults
    MaxRows = 2
INVARIANTS
    TypeOK
    PidFileNamesLoneServer
    LoneServerHasDefaults
PROPERTIES
    StartsEnd
CHECK_DEADLOCK FALSE
