SPECIFICATION FairSpec
CONSTANTS
    o1 = o1
    o2 = o2
    o3 = o3
    Ops <- MCOps
    NoTokens = NoTokens
    Earlier = Earlier
    Corrupt = Corrupt
INVARIANTS TypeOK SaveSticks WaitersAreQueued
PROPERTIES ReadsLatestWrite KeychainIsStore OperationsEnd
CHECK_DEADLOCK FALSE
