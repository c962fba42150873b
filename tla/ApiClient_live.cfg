SPECIFICATION FairSpec
CONSTANTS
    c1 = c1
    c2 = c2
    c3 = c3
    Calls <- MCCalls
    MaxTokens = 2
    MaxLogouts = 1
    MaxRestarts = 0
PROPERTIES CallsSettle LoaderEnds FailedRefreshSignsOut
CHECK_DEADLOCK FALSE
