SPECIFICATION Spec
CONSTANTS
    u1 = u1
    u2 = u2
    g1 = g1
    g2 = g2
    r1 = r1
    r2 = r2
    r3 = r3
    r4 = r4
    Users <- MCUsers
    Communities <- MCCommunities
    Requests <- MCRequests
SYMMETRY Symmetry
INVARIANTS TypeOK LedgerBalances CreatedHasOwner AppliedIsMember
PROPERTY MembershipIsStable
CHECK_DEADLOCK FALSE
