SPECIFICATION FairSpec
CONSTANTS
    s1 = s1
    s2 = s2
    s3 = s3
    Sockets <- MCSockets
    None = None
    MAX_RECONNECTS = 5
    MaxLoad = 3
INVARIANTS TypeOK ConnectedHasSocket NoSilentStop
PROPERTY Recovers
CHECK_DEADLOCK FALSE
