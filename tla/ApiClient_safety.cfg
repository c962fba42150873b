SPECIFICATION Spec
CONSTANTS
    c1 = c1
    c2 = c2
    c3 = c3
    Calls <- MCCalls
    MaxTokens = 3
    MaxLogouts = 1
    MaxRestarts = 1
SYMMETRY Symmetry
INVARIANTS TypeOK SingleFlight StoredSessionLive
PROPERTIES RefreshSentWithLiveToken OnePairPerCall SeesTokenTable
CHECK_DEADLOCK FALSE
