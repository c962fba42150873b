---------------------------- MODULE AuthSessions -----------------------------
(***************************************************************************)
(* The auth routes of LocusBackend/server.js: accounts (users) and         *)
(* sessions (refresh_tokens), for any number of apps.  Each route is a     *)
(* series of SQL statements with awaits between them and no transaction;   *)
(* one action is one statement with the JavaScript up to the next await.   *)
(*                                                                         *)
(* A request is used once.  It issues at most one refresh token, which     *)
(* therefore has the name of the request.  Emails identify accounts: the   *)
(* column is UNIQUE and no route deletes a user.  Bodies that fail the     *)
(* validation touch nothing and are left out.                              *)
(***************************************************************************)
EXTENDS Naturals

CONSTANTS Emails, Passwords,
          Requests,
          Nobody,       \* no row in users
          NoPassword    \* a row whose password_hash is NULL

ASSUME AccountsAssumption ==
    /\ Emails # {} /\ Passwords # {}
    /\ Nobody \notin Passwords /\ NoPassword \notin Passwords /\ Nobody # NoPassword

VARIABLES
    account,      \* per email: the password its hash was made of, NoPassword or Nobody
    rows,         \* the refresh tokens in refresh_tokens
    lapsed,       \* the tokens whose expires_at is past
    call,         \* what each request was called with
    seen,         \* the hash a request read
    phase,        \* how far each request is
    session       \* history: the session that the token of a request continues

vars == <<account, rows, lapsed, call, seen, phase, session>>

Hashes == Passwords \cup {Nobody, NoPassword}
Ops    == {"none", "register", "legacy", "login", "refresh", "logout", "change"}

\* pw is the password a request presents, new the one a change asks for, token the
\* refresh token (of a change: the pair whose access token authenticates it).
Calls == [op : Ops, email : Emails, pw : Passwords, new : Passwords, token : Requests]

\* "created": the user row is inserted; "read": the rows are read; "deleted": the old
\* token is deleted.  "lost": done, but the answer did not arrive.
InFlight == {"created", "read", "deleted"}
Done     == {"ok", "lost"}
Phases   == {"idle", "exists", "refused", "noPassword", "error", "halfError"}
                \cup InFlight \cup Done

\* Types of the tables and the requests.
TypeOK ==
    /\ account \in [Emails -> Hashes]
    /\ rows \subseteq Requests /\ lapsed \subseteq Requests
    /\ call \in [Requests -> Calls] /\ seen \in [Requests -> Hashes]
    /\ phase \in [Requests -> Phases]
    /\ session \in [Requests -> Requests]

SomeEmail    == CHOOSE e \in Emails : TRUE
SomePassword == CHOOSE p \in Passwords : TRUE

Init ==
    /\ account = [e \in Emails |-> Nobody] /\ rows = {} /\ lapsed = {}
    /\ call = [r \in Requests |-> [op |-> "none", email |-> SomeEmail, token |-> r,
                                   pw |-> SomePassword, new |-> SomePassword]]
    /\ seen = [r \in Requests |-> Nobody] /\ phase = [r \in Requests |-> "idle"]
    /\ session = [r \in Requests |-> r]

-----------------------------------------------------------------------------

\* Request r arrives, runs its first statement and goes to phase p.
Arrives(r, c, p) ==
    /\ phase[r] = "idle"
    /\ call' = [call EXCEPT ![r] = c]
    /\ phase' = [phase EXCEPT ![r] = p]

Moves(r, op, from, to) ==
    /\ call[r].op = op /\ phase[r] = from
    /\ phase' = [phase EXCEPT ![r] = to]
    /\ UNCHANGED call

\* createTokens, and the INSERT of a refresh: the row of the new token.
Issues(r) == rows' = rows \cup {r} /\ UNCHANGED <<account, lapsed, seen, session>>

Call(r, op, e, p) == [op |-> op, email |-> e, pw |-> p, new |-> p, token |-> r]

-----------------------------------------------------------------------------
(* POST /auth/register and POST /api/users/register                        *)

\* Variation: ON CONFLICT (email) DO UPDATE.
RegisterInserts_Upsert(r, e, p) ==
    /\ Arrives(r, Call(r, "register", e, p), "created")
    /\ account' = [account EXCEPT ![e] = p]
    /\ UNCHANGED <<rows, lapsed, seen, session>>

\* INSERT INTO users ... ON CONFLICT (email) DO NOTHING RETURNING *
RegisterInserts(r, e, p) ==
    /\ account[e] = Nobody
    /\ Arrives(r, Call(r, "register", e, p), "created")
    /\ account' = [account EXCEPT ![e] = p]
    /\ UNCHANGED <<rows, lapsed, seen, session>>

RegisterConflicts(r, e, p) ==
    /\ account[e] # Nobody
    /\ Arrives(r, Call(r, "register", e, p), "exists")
    /\ UNCHANGED <<account, rows, lapsed, seen, session>>

RegisterIssues(r) == Moves(r, "register", "created", "ok") /\ Issues(r)

\* The legacy route: an account without a password, no tokens.
LegacyRegisters(r, e, p) ==
    /\ Arrives(r, Call(r, "legacy", e, p), IF account[e] = Nobody THEN "ok" ELSE "exists")
    /\ account' = [account EXCEPT ![e] = IF @ = Nobody THEN NoPassword ELSE @]
    /\ UNCHANGED <<rows, lapsed, seen, session>>

-----------------------------------------------------------------------------
(* POST /auth/login                                                        *)

\* Variation: the hash is read from a column that does not exist.
LoginReads_Undefined(r, e, p) ==
    /\ Arrives(r, Call(r, "login", e, p), IF account[e] = Nobody THEN "refused" ELSE "read")
    /\ seen' = [seen EXCEPT ![r] = "undefined"]
    /\ UNCHANGED <<account, rows, lapsed, session>>

LoginReads(r, e, p) ==
    /\ Arrives(r, Call(r, "login", e, p),
               IF account[e] = Nobody THEN "refused"
               ELSE IF account[e] = NoPassword THEN "noPassword" ELSE "read")
    /\ seen' = [seen EXCEPT ![r] = account[e]]
    /\ UNCHANGED <<account, rows, lapsed, session>>

\* bcrypt.compare succeeds on the hash that was read; createTokens.
LoginIssues(r) ==
    /\ seen[r] = call[r].pw
    /\ Moves(r, "login", "read", "ok") /\ Issues(r)

LoginDenied(r) ==
    /\ seen[r] # call[r].pw
    /\ Moves(r, "login", "read", "refused")
    /\ UNCHANGED <<account, rows, lapsed, seen, session>>

-----------------------------------------------------------------------------
(* POST /auth/refresh and POST /auth/logout, with a token that a client    *)
(* was given.                                                              *)

Issued == {t \in Requests : call[t].op \in {"register", "login", "refresh"} /\ phase[t] = "ok"}

WithToken(op, t) ==
    [op |-> op, email |-> call[t].email, pw |-> call[t].pw, new |-> call[t].new, token |-> t]

\* A refresh that reads a token while another one, which has read it, has not deleted
\* it yet starts a session of its own; any other refresh continues the token's.
Rivals(t) == {r \in Requests : call[r].op = "refresh" /\ call[r].token = t /\ phase[r] = "read"}

\* The two SELECTs: the token's row, not expired, and the row of its user, which is
\* always there.
RefreshReads(r, t) ==
    /\ t \in Issued
    /\ Arrives(r, WithToken("refresh", t), IF t \in rows \ lapsed THEN "read" ELSE "refused")
    /\ session' = [session EXCEPT ![r] = IF Rivals(t) = {} THEN session[t] ELSE r]
    /\ UNCHANGED <<account, rows, lapsed, seen>>

\* Variation: the old token is left alone.
RefreshDeletes_Keeps(r) ==
    /\ Moves(r, "refresh", "read", "deleted")
    /\ UNCHANGED <<account, rows, lapsed, seen, session>>

RefreshDeletes(r) ==
    /\ Moves(r, "refresh", "read", "deleted")
    /\ rows' = rows \ {call[r].token}
    /\ UNCHANGED <<account, lapsed, seen, session>>

RefreshInserts(r) == Moves(r, "refresh", "deleted", "ok") /\ Issues(r)

\* The DELETE; an error of it is swallowed.
Logout(r, t) ==
    /\ t \in Issued
    /\ Arrives(r, WithToken("logout", t), "ok")
    /\ rows' \in {rows \ {t}, rows}
    /\ UNCHANGED <<account, lapsed, seen, session>>

-----------------------------------------------------------------------------
(* POST /auth/change-password, with an access token that a client was      *)
(* given; access tokens outlive the row of their refresh token.            *)

ChangeReads(r, t, p, n) ==
    /\ t \in Issued
    /\ Arrives(r, [op |-> "change", email |-> call[t].email, pw |-> p, new |-> n, token |-> t],
               IF account[call[t].email] = NoPassword THEN "noPassword" ELSE "read")
    /\ seen' = [seen EXCEPT ![r] = account[call[t].email]]
    /\ UNCHANGED <<account, rows, lapsed, session>>

\* Variation: the current password is not compared.
ChangeUpdates_Unchecked(r) ==
    /\ Moves(r, "change", "read", "ok")
    /\ account' = [account EXCEPT ![call[r].email] = call[r].new]
    /\ UNCHANGED <<rows, lapsed, seen, session>>

\* bcrypt.compare on the hash that was read, bcrypt.hash, then the UPDATE.
ChangeUpdates(r) ==
    /\ seen[r] = call[r].pw
    /\ Moves(r, "change", "read", "ok")
    /\ account' = [account EXCEPT ![call[r].email] = call[r].new]
    /\ UNCHANGED <<rows, lapsed, seen, session>>

ChangeDenied(r) ==
    /\ seen[r] # call[r].pw
    /\ Moves(r, "change", "read", "refused")
    /\ UNCHANGED <<account, rows, lapsed, seen, session>>

-----------------------------------------------------------------------------
(* Faults and time.                                                        *)

\* What a request cut off in phase p becomes: "halfError" after its first write.
CutOff(p) == IF p = "read" THEN "error" ELSE "halfError"

\* A statement fails: the handler answers 500.
StatementFails(r) ==
    /\ phase[r] \in InFlight
    /\ phase' = [phase EXCEPT ![r] = CutOff(@)]
    /\ UNCHANGED <<account, rows, lapsed, call, seen, session>>

AnswerLost(r) ==
    /\ phase[r] = "ok"
    /\ phase' = [phase EXCEPT ![r] = "lost"]
    /\ UNCHANGED <<account, rows, lapsed, call, seen, session>>

\* The process restarts: every handler is cut off.
ServerRestarts ==
    /\ \E r \in Requests : phase[r] \in InFlight
    /\ phase' = [r \in Requests |-> IF phase[r] \in InFlight THEN CutOff(phase[r]) ELSE phase[r]]
    /\ UNCHANGED <<account, rows, lapsed, call, seen, session>>

\* expires_at passes.
TokenLapses(t) ==
    /\ t \in rows \ lapsed
    /\ lapsed' = lapsed \cup {t}
    /\ UNCHANGED <<account, rows, call, seen, phase, session>>

-----------------------------------------------------------------------------

Next ==
    \/ \E r \in Requests, e \in Emails, p \in Passwords :
          \/ RegisterInserts(r, e, p) \/ RegisterConflicts(r, e, p)
          \/ LegacyRegisters(r, e, p) \/ LoginReads(r, e, p)
    \/ \E r, t \in Requests : RefreshReads(r, t) \/ Logout(r, t)
    \/ \E r, t \in Requests, p, n \in Passwords : ChangeReads(r, t, p, n)
    \/ \E r \in Requests :
          \/ RegisterIssues(r) \/ LoginIssues(r) \/ LoginDenied(r)
          \/ RefreshDeletes(r) \/ RefreshInserts(r)
          \/ ChangeUpdates(r) \/ ChangeDenied(r)
          \/ StatementFails(r) \/ AnswerLost(r) \/ TokenLapses(r)
    \/ ServerRestarts

Spec == Init /\ [][Next]_vars

-----------------------------------------------------------------------------
(* Properties.                                                             *)

\* One session, one usable refresh token: however refreshes, sign-outs, failures and
\* restarts interleave, POST /auth/refresh replaces the row of the token it was given
\* and never adds one.  All that multiplies a session is a refresh overlapping another
\* one of the same token.
OneRowPerSession ==
    \A t, u \in rows : session[t] = session[u] => t = u

\* The registrations that inserted the user row of e, and the changes that updated it.
Opened(e) == {r \in Requests : /\ call[r].op = "register" /\ call[r].email = e
                               /\ phase[r] \in {"created", "halfError"} \cup Done}

Changed(e) == {r \in Requests : /\ call[r].op = "change" /\ call[r].email = e
                                /\ phase[r] \in Done}

\* Concurrent and repeated registrations open an account once, and its password is
\* that of the registration that opened it or of a change that was accepted.
PasswordAccountedFor ==
    \A e \in Emails : account[e] \in Passwords =>
        \E r \in Opened(e) :
            /\ Opened(e) = {r}
            /\ \/ account[e] = call[r].pw
               \/ \E c \in Changed(e) : account[e] = call[c].new

\* A login or a change is accepted only with a password that the account has had,
\* whatever changes between the SELECT and the statement that follows it.
PasswordWasKnown ==
    \A r \in Requests : call[r].op \in {"login", "change"} /\ phase[r] \in Done =>
        LET e == call[r].email IN
        \/ \E o \in Opened(e) : call[r].pw = call[o].pw
        \/ \E c \in Changed(e) : call[r].pw = call[c].new

\* The tokens whose row was inserted, and those that have a successor.
Inserted == {r \in Requests : /\ call[r].op \in {"register", "login", "refresh"}
                             /\ phase[r] \in Done}

Replaced == {call[r].token : r \in {q \in Requests : call[q].op = "refresh" /\ phase[q] \in Done}}

Table == INSTANCE RefreshTokens WITH Tokens <- Requests, ever <- Inserted, replaced <- Replaced

\* However requests overlap, fail half-way or are cut off, the routes keep the table that
\* the app relies on: a refresh inserts its token only when the row of the old one is
\* gone, and no row that is gone comes back.
KeepsTokenTable == Table!Spec
=============================================================================
