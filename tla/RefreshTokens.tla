---------------------------- MODULE RefreshTokens ----------------------------
(***************************************************************************)
(* What the app and the server rely on in the table refresh_tokens: tokens *)
(* are inserted once, a refresh gives out a new token only when the row of *)
(* the old one is gone, and a row that is gone does not come back.  Module *)
(* AuthSessions shows that the routes of the server keep it so, statement  *)
(* by statement; module ApiClient, which has the server as one app sees    *)
(* it, shows that it takes no other steps than these.                      *)
(***************************************************************************)
CONSTANT Tokens

VARIABLES ever,       \* the tokens inserted so far
          rows,       \* those that have a row
          lapsed,     \* those whose expires_at is past
          replaced    \* those that a refresh has given a successor to

vars == <<ever, rows, lapsed, replaced>>

Init == ever \subseteq Tokens /\ rows = ever /\ lapsed = {} /\ replaced = {}

SignIn(u) ==
    /\ u \notin ever
    /\ ever' = ever \cup {u}
    /\ rows' = rows \cup {u}
    /\ UNCHANGED <<lapsed, replaced>>

\* The row of t may be gone already, with the DELETE of this refresh or of another one.
Refresh(t, u) ==
    /\ t \in ever /\ u \notin ever
    /\ ever' = ever \cup {u}
    /\ rows' = (rows \ {t}) \cup {u}
    /\ replaced' = replaced \cup {t}
    /\ UNCHANGED lapsed

Delete(t) == rows' = rows \ {t} /\ UNCHANGED <<ever, lapsed, replaced>>

Lapse(t) ==
    /\ t \in rows \ lapsed
    /\ lapsed' = lapsed \cup {t}
    /\ UNCHANGED <<ever, rows, replaced>>

Next ==
    \/ \E u \in Tokens : SignIn(u) \/ Delete(u) \/ Lapse(u)
    \/ \E t, u \in Tokens : Refresh(t, u)

Spec == Init /\ [][Next]_vars
=============================================================================
