SPECIFICATION FairSpec
CONSTANTS
    r1 = r1
    r2 = r2
    everywhere = everywhere
    near = near
    Requests <- MCRequests
    Areas <- MCAreas
    Everywhere <- everywhere
    Keys <- MCKeys
    CACHE_TTL = 1
    MaxRows = 2
INVARIANTS TypeOK ShortPageIsLast
PROPERTY EventuallyListed
