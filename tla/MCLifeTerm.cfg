SPECIFICATION FairSpec
CONSTANTS
    Pids = {p1}
    NoFile = NoFile
    Empty = Empty
    NoServer = NoServer
    TimeWait = TimeWait
    Defaults <- MCDefaults
    MaxRows = 2
PROPERTIES
    TermStopsServer
CHECK_DEADLOCK FALSE
