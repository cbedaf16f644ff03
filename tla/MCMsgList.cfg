SPECIFICATION FairSpec
CONSTANTS
    Messages = {m1, m2, m3, m4}
    None = None
INVARIANTS
    TypeOK
    EmptyBranchUnreachable
PROPERTIES
    HeadGoesNext
    EveryMessageIsSent
    ImplementsOutbox
CHECK_DEADLOCK FALSE
