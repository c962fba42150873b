SPECIFICATION Spec
CONSTANTS
    e1 = e1
    p1 = p1
    p2 = p2
    r1 = r1
    r2 = r2
    r3 = r3
    r4 = r4
    Emails <- MCEmails
    Passwords <- MCPasswords
    Requests <- MCRequests
    Nobody = Nobody
    NoPassword = NoPassword
SYMMETRY Symmetry
INVARIANTS TypeOK OneRowPerSession PasswordAccountedFor PasswordWasKnown
PROPERTY KeepsTokenTable
CHECK_DEADLOCK FALSE
