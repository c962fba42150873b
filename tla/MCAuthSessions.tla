--------------------------- MODULE MCAuthSessions ----------------------------
(* An instance of AuthSessions for TLC: one email, on which every request  *)
(* meets every other.  Passwords are not symmetric, because Init names one. *)
EXTENDS AuthSessions, TLC

CONSTANTS e1, p1, p2, r1, r2, r3, r4

MCEmails    == {e1}
MCPasswords == {p1, p2}
MCRequests  == {r1, r2, r3, r4}

Symmetry == Permutations(Requests)
=============================================================================
