------------------------- MODULE AuthSessionsProofs --------------------------
(***************************************************************************)
(* Proofs about AuthSessions, for any emails, passwords and requests.      *)
(***************************************************************************)
EXTENDS AuthSessions, TLAPS

LEMMA SomeCallTyped == SomeEmail \in Emails /\ SomePassword \in Passwords
  BY AccountsAssumption DEF SomeEmail, SomePassword

-----------------------------------------------------------------------------
(* Types.                                                                  *)

LEMMA InitTyped == Init => TypeOK
  BY SomeCallTyped DEF Init, TypeOK, Calls, Ops, Hashes, Phases

LEMMA CallTyped ==
  ASSUME TypeOK,
         NEW r \in Requests, NEW op \in Ops, NEW e \in Emails, NEW p \in Passwords
  PROVE  Call(r, op, e, p) \in Calls
  BY DEF Call, Calls

LEMMA WithTokenTyped ==
  ASSUME TypeOK, NEW op \in Ops, NEW t \in Requests
  PROVE  WithToken(op, t) \in Calls
  BY DEF WithToken, Calls, TypeOK

LEMMA ArrivesTyped ==
  ASSUME TypeOK, NEW r \in Requests, NEW c \in Calls, NEW p \in Phases, Arrives(r, c, p)
  PROVE  call' \in [Requests -> Calls] /\ phase' \in [Requests -> Phases]
  BY DEF Arrives, TypeOK

LEMMA MovesTyped ==
  ASSUME TypeOK, NEW r \in Requests, NEW op, NEW from, NEW to \in Phases, Moves(r, op, from, to)
  PROVE  call' \in [Requests -> Calls] /\ phase' \in [Requests -> Phases]
  BY DEF Moves, TypeOK

LEMMA PhaseNames ==
  /\ \A p \in {"idle", "exists", "refused", "noPassword", "error", "halfError", "created",
               "read", "deleted", "ok", "lost"} : p \in Phases
  /\ \A p : CutOff(p) \in Phases
  /\ \A o \in {"register", "legacy", "login", "refresh", "logout", "change"} : o \in Ops
  BY DEF Phases, InFlight, Done, CutOff, Ops

LEMMA StepTyped == TypeOK /\ [Next]_vars => TypeOK'
<1> SUFFICES ASSUME TypeOK, [Next]_vars PROVE TypeOK'
  OBVIOUS
<1>1. ASSUME NEW r \in Requests, NEW e \in Emails, NEW p \in Passwords,
             RegisterInserts(r, e, p) \/ RegisterConflicts(r, e, p)
      PROVE  TypeOK'
  <2>1. call' \in [Requests -> Calls] /\ phase' \in [Requests -> Phases]
    BY <1>1, CallTyped, ArrivesTyped, PhaseNames DEF RegisterInserts, RegisterConflicts
  <2> QED
    BY <1>1, <2>1 DEF RegisterInserts, RegisterConflicts, TypeOK, Hashes
<1>2. ASSUME NEW r \in Requests, NEW e \in Emails, NEW p \in Passwords, LegacyRegisters(r, e, p)
      PROVE  TypeOK'
  <2>1. call' \in [Requests -> Calls] /\ phase' \in [Requests -> Phases]
    BY <1>2, CallTyped, ArrivesTyped, PhaseNames DEF LegacyRegisters
  <2> QED
    BY <1>2, <2>1 DEF LegacyRegisters, TypeOK, Hashes
<1>3. ASSUME NEW r \in Requests, NEW e \in Emails, NEW p \in Passwords, LoginReads(r, e, p)
      PROVE  TypeOK'
  <2>1. call' \in [Requests -> Calls] /\ phase' \in [Requests -> Phases]
    BY <1>3, CallTyped, ArrivesTyped, PhaseNames DEF LoginReads
  <2> QED
    BY <1>3, <2>1 DEF LoginReads, TypeOK, Hashes
<1>4. ASSUME NEW r \in Requests, NEW t \in Requests, RefreshReads(r, t) \/ Logout(r, t)
      PROVE  TypeOK'
  <2>1. call' \in [Requests -> Calls] /\ phase' \in [Requests -> Phases]
    BY <1>4, WithTokenTyped, ArrivesTyped, PhaseNames DEF RefreshReads, Logout
  <2> QED
    BY <1>4, <2>1 DEF RefreshReads, Logout, TypeOK
<1>5. ASSUME NEW r \in Requests, NEW t \in Requests, NEW p \in Passwords, NEW n \in Passwords,
             ChangeReads(r, t, p, n)
      PROVE  TypeOK'
  <2> DEFINE c == [op |-> "change", email |-> call[t].email, pw |-> p, new |-> n, token |-> t]
  <2>1. c \in Calls
    BY PhaseNames DEF TypeOK, Calls
  <2>2. call' \in [Requests -> Calls] /\ phase' \in [Requests -> Phases]
    BY <1>5, <2>1, ArrivesTyped, PhaseNames DEF ChangeReads
  <2> QED
    BY <1>5, <2>2 DEF ChangeReads, TypeOK, Hashes, Calls
<1>6. ASSUME NEW r \in Requests,
             \/ RegisterIssues(r) \/ LoginIssues(r) \/ LoginDenied(r)
             \/ RefreshDeletes(r) \/ RefreshInserts(r) \/ ChangeUpdates(r) \/ ChangeDenied(r)
      PROVE  TypeOK'
  <2>1. call' \in [Requests -> Calls] /\ phase' \in [Requests -> Phases]
    BY <1>6, MovesTyped, PhaseNames
    DEF RegisterIssues, LoginIssues, LoginDenied, RefreshDeletes, RefreshInserts,
        ChangeUpdates, ChangeDenied
  <2>2. account' \in [Emails -> Hashes]
    BY <1>6 DEF RegisterIssues, LoginIssues, LoginDenied, RefreshDeletes, RefreshInserts,
        ChangeUpdates, ChangeDenied, Issues, TypeOK, Hashes, Calls
  <2> QED
    BY <1>6, <2>1, <2>2
    DEF RegisterIssues, LoginIssues, LoginDenied, RefreshDeletes, RefreshInserts,
        ChangeUpdates, ChangeDenied, Issues, TypeOK
<1>7. ASSUME NEW r \in Requests, StatementFails(r) \/ AnswerLost(r) \/ TokenLapses(r)
      PROVE  TypeOK'
  BY <1>7, PhaseNames DEF StatementFails, AnswerLost, TokenLapses, TypeOK
<1>8. CASE ServerRestarts
  BY <1>8, PhaseNames DEF ServerRestarts, TypeOK
<1>9. CASE UNCHANGED vars
  BY <1>9 DEF vars, TypeOK
<1> QED
  BY <1>1, <1>2, <1>3, <1>4, <1>5, <1>6, <1>7, <1>8, <1>9 DEF Next

\* The tables, the requests and the sessions keep their types.
THEOREM TypeCorrect == Spec => []TypeOK
  BY InitTyped, StepTyped, PTL DEF Spec

-----------------------------------------------------------------------------
(* One row per session.  OneRowPerSession is not inductive: a request that *)
(* is going to insert a row has a claim on its session already, and may    *)
(* share the session only with the row that it is about to delete.         *)

Claims == rows \cup {r \in Requests : phase[r] \in InFlight}

Replaces(r, t) ==
    /\ call[r].op = "refresh" /\ phase[r] = "read" /\ call[r].token = t
    /\ t \in rows

RowsDone == \A t \in rows : phase[t] \in Done

SessionsStarted ==
    \A r \in Requests : /\ phase[r] = "idle" => session[r] = r
                        /\ phase[r] # "idle" => phase[session[r]] # "idle"

ClaimsExclusive ==
    \A x, y \in Claims :
        session[x] = session[y] => x = y \/ Replaces(x, y) \/ Replaces(y, x)

SessionInv == TypeOK /\ RowsDone /\ SessionsStarted /\ ClaimsExclusive

LEMMA InitSessions == Init => SessionInv
  BY InitTyped DEF Init, SessionInv, RowsDone, SessionsStarted, ClaimsExclusive, Claims, InFlight

\* Any request that arrives in a session of its own has a new session.
LEMMA FreshSession ==
  ASSUME SessionInv, NEW r \in Requests, phase[r] = "idle", NEW y \in Requests, y # r
  PROVE  session[y] # r
  BY DEF SessionInv, SessionsStarted, TypeOK

LEMMA ClaimsAreNotIdle ==
  ASSUME SessionInv, NEW y \in Claims
  PROVE  y \in Requests /\ phase[y] # "idle"
  BY DEF SessionInv, Claims, RowsDone, InFlight, Done, TypeOK

\* A request that arrives and leaves tokens and sessions alone.
LEMMA ArrivalKeepsSessions ==
  ASSUME SessionInv, TypeOK', NEW r \in Requests, NEW c, NEW p \in Phases \ {"idle"},
         Arrives(r, c, p), session' = session, rows' \subseteq rows
  PROVE  SessionInv'
<1>1. RowsDone'
  BY DEF SessionInv, RowsDone, Arrives, TypeOK, Done
<1>2. SessionsStarted'
  BY DEF SessionInv, SessionsStarted, Arrives, TypeOK
<1>3. ClaimsExclusive'
  <2> SUFFICES ASSUME NEW x \in Claims', NEW y \in Claims', session[x] = session[y], x # y
               PROVE  Replaces(x, y)' \/ Replaces(y, x)'
    BY DEF ClaimsExclusive
  <2>1. x \in Requests /\ y \in Requests
    BY DEF Claims, TypeOK
  <2>2. x # r /\ y # r
    <3>1. session[r] = r
      BY DEF SessionInv, SessionsStarted, Arrives
    <3> QED
      BY <2>1, <3>1, FreshSession DEF Arrives
  <2>3. x \in Claims /\ y \in Claims
    BY <2>1, <2>2 DEF Claims, Arrives, SessionInv, TypeOK
  <2>4. Replaces(x, y) \/ Replaces(y, x)
    BY <2>3 DEF SessionInv, ClaimsExclusive
  <2>5. y \in rows' \/ y \notin rows
    BY <2>2, <2>1 DEF Claims, SessionInv, RowsDone, Done, InFlight, Arrives, TypeOK
  <2>6. x \in rows' \/ x \notin rows
    BY <2>2, <2>1 DEF Claims, SessionInv, RowsDone, Done, InFlight, Arrives, TypeOK
  <2> QED
    BY <2>1, <2>2, <2>4, <2>5, <2>6 DEF Replaces, Arrives, SessionInv, TypeOK
<1> QED
  BY <1>1, <1>2, <1>3 DEF SessionInv

LEMMA RefreshReadsKeepsSessions ==
  ASSUME SessionInv, TypeOK', NEW r \in Requests, NEW t \in Requests, RefreshReads(r, t)
  PROVE  SessionInv'
<1>0. /\ phase[r] = "idle" /\ t # r /\ phase[t] = "ok" /\ rows' = rows
      /\ call'[r].op = "refresh" /\ call'[r].token = t
      /\ phase' = [phase EXCEPT ![r] = IF t \in rows \ lapsed THEN "read" ELSE "refused"]
      /\ session' = [session EXCEPT ![r] = IF Rivals(t) = {} THEN session[t] ELSE r]
      /\ \A z \in Requests \ {r} : call'[z] = call[z]
  BY DEF RefreshReads, Arrives, Issued, SessionInv, TypeOK, WithToken
<1>1. RowsDone'
  BY <1>0 DEF SessionInv, RowsDone, TypeOK, Done
<1>2. SessionsStarted'
  BY <1>0 DEF SessionInv, SessionsStarted, TypeOK
<1>3. ClaimsExclusive'
  <2>1. ASSUME NEW x \in Claims', NEW y \in Claims', session'[x] = session'[y], x # y,
               x # r, y # r
        PROVE  Replaces(x, y)' \/ Replaces(y, x)'
    <3>1. x \in Claims /\ y \in Claims /\ x \in Requests /\ y \in Requests
      BY <1>0, <2>1 DEF Claims, SessionInv, TypeOK
    <3>2. Replaces(x, y) \/ Replaces(y, x)
      BY <1>0, <2>1, <3>1 DEF SessionInv, ClaimsExclusive, TypeOK
    <3> QED
      BY <1>0, <2>1, <3>1, <3>2 DEF Replaces, SessionInv, TypeOK
  <2>2. ASSUME NEW y \in Claims', r \in Claims', session'[r] = session'[y], y # r
        PROVE  Replaces(r, y)'
    <3>1. y \in Claims /\ y \in Requests /\ session'[y] = session[y]
      BY <1>0, <2>2 DEF Claims, SessionInv, TypeOK
    <3>2. t \in rows \ lapsed /\ phase'[r] = "read"
      <4>1. r \notin rows
        BY <1>0 DEF SessionInv, RowsDone, Done
      <4> QED
        BY <1>0, <2>2, <4>1 DEF Claims, InFlight, SessionInv, TypeOK
    <3>3. Rivals(t) = {} /\ session[y] = session[t]
      BY <1>0, <2>2, <3>1, FreshSession DEF SessionInv, TypeOK
    <3>4. y = t
      <4>1. SUFFICES ASSUME y # t PROVE FALSE
        OBVIOUS
      <4>2. Replaces(y, t) \/ Replaces(t, y)
        BY <3>1, <3>2, <3>3, <4>1 DEF SessionInv, ClaimsExclusive, Claims
      <4> QED
        BY <1>0, <3>1, <3>3, <4>2 DEF Replaces, Rivals
    <3> QED
      BY <1>0, <3>2, <3>4 DEF Replaces
  <2> QED
    BY <2>1, <2>2 DEF ClaimsExclusive
<1> QED
  BY <1>1, <1>2, <1>3 DEF SessionInv

\* A claim on a session becomes its row.
LEMMA IssueKeepsSessions ==
  ASSUME SessionInv, TypeOK', NEW r \in Requests, NEW op, NEW from \in InFlight,
         Moves(r, op, from, "ok"), Issues(r),
         call[r].op # "refresh" \/ from # "read"
  PROVE  SessionInv'
<1>0. /\ phase[r] \in InFlight /\ phase[r] = from
      /\ phase' = [phase EXCEPT ![r] = "ok"] /\ call' = call
      /\ rows' = rows \cup {r} /\ session' = session
  BY DEF Moves, Issues
<1>1. RowsDone'
  BY <1>0 DEF SessionInv, RowsDone, TypeOK, Done
<1>2. SessionsStarted'
  BY <1>0 DEF SessionInv, SessionsStarted, TypeOK, InFlight
<1>3. Claims' = Claims /\ r \notin rows
  BY <1>0 DEF Claims, SessionInv, TypeOK, RowsDone, InFlight, Done
<1>4. \A x, y \in Claims : Replaces(x, y) => Replaces(x, y)'
  BY <1>0, ClaimsAreNotIdle DEF Replaces, SessionInv, TypeOK
<1>5. ClaimsExclusive'
  BY <1>0, <1>3, <1>4 DEF ClaimsExclusive, SessionInv
<1> QED
  BY <1>1, <1>2, <1>5 DEF SessionInv

LEMMA RefreshDeletesKeepsSessions ==
  ASSUME SessionInv, TypeOK', NEW r \in Requests, RefreshDeletes(r)
  PROVE  SessionInv'
<1> DEFINE t == call[r].token
<1>0. /\ phase[r] = "read" /\ call' = call /\ session' = session
      /\ phase' = [phase EXCEPT ![r] = "deleted"] /\ rows' = rows \ {t}
  BY DEF RefreshDeletes, Moves
<1>1. RowsDone'
  BY <1>0 DEF SessionInv, RowsDone, TypeOK, Done
<1>2. SessionsStarted'
  BY <1>0 DEF SessionInv, SessionsStarted, TypeOK
<1>3. Claims' \subseteq Claims
  BY <1>0 DEF Claims, SessionInv, TypeOK, InFlight
<1>4. t \in rows => t \notin Claims'
  BY <1>0 DEF Claims, SessionInv, TypeOK, RowsDone, Done, InFlight, Calls
<1>5. ASSUME NEW x \in Claims', NEW y \in Claims', Replaces(x, y)
      PROVE  Replaces(x, y)'
  <2>1. y \in rows /\ y # t
    BY <1>4, <1>5 DEF Replaces
  <2>2. x # r
    BY <1>5, <2>1 DEF Replaces
  <2> QED
    BY <1>0, <1>5, <2>1, <2>2 DEF Replaces, SessionInv, TypeOK
<1>6. ClaimsExclusive'
  BY <1>0, <1>3, <1>5 DEF ClaimsExclusive, SessionInv
<1> QED
  BY <1>1, <1>2, <1>6 DEF SessionInv

\* Requests that end without a token, and everything else that leaves the tokens alone.
LEMMA EndingKeepsSessions ==
  ASSUME SessionInv, TypeOK', call' = call, session' = session, rows' = rows,
         \A x \in Requests :
            \/ phase'[x] = phase[x]
            \/ /\ phase[x] \in InFlight \cup Done
               /\ phase'[x] \in Phases \ (InFlight \cup {"idle"})
               /\ phase[x] \in Done => phase'[x] \in Done
  PROVE  SessionInv'
<1>1. RowsDone'
  BY DEF SessionInv, RowsDone, TypeOK
<1>2. SessionsStarted'
  BY DEF SessionInv, SessionsStarted, TypeOK, InFlight, Done
<1>3. Claims' \subseteq Claims
  BY DEF Claims, SessionInv, TypeOK
<1>4. ASSUME NEW x \in Claims', NEW y \in Claims', Replaces(x, y)
      PROVE  Replaces(x, y)'
  <2>1. x \in Requests /\ phase[x] = "read" /\ x \notin rows
    BY <1>3, <1>4 DEF Replaces, SessionInv, RowsDone, Done, Claims, TypeOK
  <2>2. phase'[x] = "read"
    BY <1>4, <2>1 DEF Claims, InFlight, Done
  <2> QED
    BY <1>4, <2>2 DEF Replaces
<1>5. ClaimsExclusive'
  BY <1>3, <1>4 DEF ClaimsExclusive, SessionInv
<1> QED
  BY <1>1, <1>2, <1>5 DEF SessionInv

LEMMA StepSessions == SessionInv /\ [Next]_vars => SessionInv'
<1> SUFFICES ASSUME SessionInv, [Next]_vars PROVE SessionInv'
  OBVIOUS
<1> USE PhaseNames
<1>0. TypeOK /\ TypeOK'
  BY StepTyped DEF SessionInv
<1>1. ASSUME NEW r \in Requests, NEW e \in Emails, NEW p \in Passwords,
             \/ RegisterInserts(r, e, p) \/ RegisterConflicts(r, e, p)
             \/ LegacyRegisters(r, e, p) \/ LoginReads(r, e, p)
      PROVE  SessionInv'
  BY <1>0, <1>1, ArrivalKeepsSessions
  DEF RegisterInserts, RegisterConflicts, LegacyRegisters, LoginReads
<1>2. ASSUME NEW r \in Requests, NEW t \in Requests, RefreshReads(r, t) PROVE SessionInv'
  BY <1>0, <1>2, RefreshReadsKeepsSessions
<1>3. ASSUME NEW r \in Requests, NEW t \in Requests, Logout(r, t) PROVE SessionInv'
  BY <1>0, <1>3, ArrivalKeepsSessions DEF Logout
<1>4. ASSUME NEW r \in Requests, NEW t \in Requests, NEW p \in Passwords, NEW n \in Passwords,
             ChangeReads(r, t, p, n)
      PROVE  SessionInv'
  BY <1>0, <1>4, ArrivalKeepsSessions DEF ChangeReads
<1>5. ASSUME NEW r \in Requests, RegisterIssues(r) \/ LoginIssues(r) \/ RefreshInserts(r)
      PROVE  SessionInv'
  <2>1. \A p \in {"created", "read", "deleted"} : p \in InFlight
    BY DEF InFlight
  <2>2. CASE RegisterIssues(r)
    BY <1>0, <2>1, <2>2, IssueKeepsSessions DEF RegisterIssues, Moves
  <2>3. CASE LoginIssues(r)
    BY <1>0, <2>1, <2>3, IssueKeepsSessions DEF LoginIssues, Moves
  <2>4. CASE RefreshInserts(r)
    BY <1>0, <2>1, <2>4, IssueKeepsSessions DEF RefreshInserts, Moves
  <2> QED
    BY <1>5, <2>2, <2>3, <2>4
<1>6. ASSUME NEW r \in Requests, RefreshDeletes(r) PROVE SessionInv'
  BY <1>0, <1>6, RefreshDeletesKeepsSessions
<1>7. ASSUME NEW r \in Requests,
             \/ LoginDenied(r) \/ ChangeUpdates(r) \/ ChangeDenied(r)
             \/ StatementFails(r) \/ AnswerLost(r) \/ TokenLapses(r)
      PROVE  SessionInv'
  <2>1. /\ call' = call /\ session' = session /\ rows' = rows
        /\ \/ phase' = phase
           \/ \E q \in Phases \ (InFlight \cup {"idle"}) :
                 /\ phase' = [phase EXCEPT ![r] = q]
                 /\ phase[r] \in InFlight \/ (phase[r] \in Done /\ q \in Done)
    BY <1>0, <1>7
    DEF LoginDenied, ChangeUpdates, ChangeDenied, StatementFails, AnswerLost, TokenLapses,
        Moves, InFlight, Done, CutOff, TypeOK
  <2>2. \A x \in Requests :
            \/ phase'[x] = phase[x]
            \/ /\ phase[x] \in InFlight \cup Done
               /\ phase'[x] \in Phases \ (InFlight \cup {"idle"})
               /\ phase[x] \in Done => phase'[x] \in Done
    BY <1>0, <2>1 DEF TypeOK, InFlight, Done
  <2> QED
    BY <1>0, <2>1, <2>2, EndingKeepsSessions
<1>8. CASE ServerRestarts
  <2>1. \A x \in Requests :
            \/ phase'[x] = phase[x]
            \/ /\ phase[x] \in InFlight \cup Done
               /\ phase'[x] \in Phases \ (InFlight \cup {"idle"})
               /\ phase[x] \in Done => phase'[x] \in Done
    BY <1>0, <1>8 DEF ServerRestarts, TypeOK, InFlight, Done, CutOff
  <2> QED
    BY <1>0, <1>8, <2>1, EndingKeepsSessions DEF ServerRestarts
<1>9. CASE UNCHANGED vars
  BY <1>0, <1>9, EndingKeepsSessions DEF vars
<1> QED
  BY <1>1, <1>2, <1>3, <1>4, <1>5, <1>6, <1>7, <1>8, <1>9 DEF Next

\* Whatever requests interleave, fail or are cut off, POST /auth/refresh never leaves
\* two usable tokens of one session, unless it overlaps another refresh of its token.
THEOREM SessionsDoNotMultiply == Spec => []OneRowPerSession
<1>1. SessionInv => OneRowPerSession
  BY DEF SessionInv, ClaimsExclusive, Claims, OneRowPerSession, Replaces, RowsDone, Done
<1> QED
  BY <1>1, InitSessions, StepSessions, PTL DEF Spec
-----------------------------------------------------------------------------
(* Passwords.  What a login or a change has read stays a password that the *)
(* account has had, because the requests that opened or changed an account *)
(* are never forgotten.                                                    *)

Known(e) == {call[o].pw : o \in Opened(e)} \cup {call[c].new : c \in Changed(e)}

\* The requests that only an account with a password lets come this far.
OnAccount(r) ==
    \/ call[r].op = "register" /\ phase[r] \in InFlight \cup Done \cup {"halfError"}
    \/ call[r].op \in {"login", "refresh", "logout", "change"} /\ phase[r] \in InFlight \cup Done

AccountsOpen == \A r \in Requests : OnAccount(r) => account[call[r].email] \in Passwords

PasswordsKnown == \A e \in Emails :
    account[e] \in Passwords => account[e] \in Known(e) /\ Opened(e) # {}

OpenedOnce == \A e \in Emails : \A r, s \in Opened(e) : r = s

ReadKnown == \A r \in Requests :
    call[r].op \in {"login", "change"} /\ phase[r] = "read" => seen[r] \in Known(call[r].email)

HandlerPhases == \A r \in Requests :
    /\ call[r].op = "register" => phase[r] \notin {"read", "deleted"}
    /\ call[r].op \in {"login", "change"} => phase[r] \notin {"created", "deleted"}

PasswordInv ==
    /\ TypeOK /\ HandlerPhases /\ AccountsOpen /\ PasswordsKnown /\ OpenedOnce
    /\ ReadKnown /\ PasswordWasKnown

LEMMA InitPasswords == Init => PasswordInv
  BY InitTyped, AccountsAssumption
  DEF Init, PasswordInv, HandlerPhases, AccountsOpen, PasswordsKnown, OpenedOnce, ReadKnown,
      PasswordWasKnown, OnAccount, Opened, Changed, Done, InFlight, TypeOK

LEMMA OpenedOpen ==
  ASSUME PasswordInv, NEW e \in Emails, NEW r \in Opened(e)
  PROVE  account[e] \in Passwords
  BY DEF PasswordInv, AccountsOpen, OnAccount, Opened, Done, InFlight

LEMMA WasKnownMeans ==
  ASSUME TypeOK
  PROVE  PasswordWasKnown <=>
            \A r \in Requests : call[r].op \in {"login", "change"} /\ phase[r] \in Done
                => call[r].pw \in Known(call[r].email)
  BY DEF PasswordWasKnown, Known

\* A step that forgets nobody keeps what is known.
LEMMA RememberedIsKnown ==
  ASSUME NEW e \in Emails,
         \A o \in Opened(e) : o \in Opened(e)' /\ call'[o] = call[o],
         \A c \in Changed(e) : c \in Changed(e)' /\ call'[c] = call[c]
  PROVE  Known(e) \subseteq Known(e)'
  BY DEF Known

LEMMA ArrivalRemembers ==
  ASSUME PasswordInv, NEW r \in Requests, NEW c, NEW p, Arrives(r, c, p), NEW e \in Emails
  PROVE  /\ Known(e) \subseteq Known(e)'
         /\ r \notin Opened(e)
         /\ Opened(e) \subseteq Opened(e)' /\ Opened(e)' \subseteq Opened(e) \cup {r}
<1>1. \A o \in Opened(e) : o # r /\ o \in Opened(e)' /\ call'[o] = call[o]
  BY DEF Opened, Arrives, Done, PasswordInv, TypeOK
<1>2. \A o \in Changed(e) : o # r /\ o \in Changed(e)' /\ call'[o] = call[o]
  BY DEF Changed, Arrives, Done, PasswordInv, TypeOK
<1>3. Opened(e)' \subseteq Opened(e) \cup {r}
  BY DEF Opened, Arrives, Done, PasswordInv, TypeOK
<1> QED
  BY <1>1, <1>2, <1>3, RememberedIsKnown

\* Requests that arrive and leave the accounts alone.
LEMMA ArrivalKeepsPasswords ==
  ASSUME PasswordInv, TypeOK', NEW r \in Requests, NEW c \in Calls, NEW p \in Phases,
         Arrives(r, c, p), account' = account,
         \A x \in Requests \ {r} : seen'[x] = seen[x],
         c.op = "register" => p = "exists",
         c.op \in {"login", "change"} => p \notin Done \cup {"created", "deleted"},
         c.op \in {"login", "change"} /\ p = "read" => seen'[r] \in Known(c.email),
         c.op \in {"login", "refresh", "logout", "change"} /\ p \in InFlight \cup Done
             => account[c.email] \in Passwords
  PROVE  PasswordInv'
<1>0. /\ call'[r] = c /\ phase'[r] = p /\ c.email \in Emails
      /\ \A x \in Requests \ {r} : call'[x] = call[x] /\ phase'[x] = phase[x]
      /\ \A x \in Requests : call[x].email \in Emails /\ call'[x].email \in Emails
  BY DEF Arrives, PasswordInv, TypeOK, Calls
<1>1. \A e \in Emails : Known(e) \subseteq Known(e)' /\ Opened(e)' = Opened(e)
  <2>1. \A e \in Emails : r \notin Opened(e)'
    BY <1>0 DEF Opened, Done
  <2> TAKE e \in Emails
  <2>2. Known(e) \subseteq Known(e)' /\ Opened(e) \subseteq Opened(e)' /\ Opened(e)' \subseteq Opened(e) \cup {r}
    BY ArrivalRemembers
  <2> QED
    BY <2>1, <2>2
<1>2. HandlerPhases'
  BY <1>0 DEF HandlerPhases, PasswordInv
<1>3. AccountsOpen'
  BY <1>0 DEF AccountsOpen, OnAccount, PasswordInv, InFlight, Done
<1>4. PasswordsKnown'
  BY <1>1 DEF PasswordsKnown, PasswordInv
<1>5. OpenedOnce'
  BY <1>1 DEF OpenedOnce, PasswordInv
<1>6. ReadKnown'
  BY <1>0, <1>1 DEF ReadKnown, PasswordInv
<1>7. PasswordWasKnown'
  <2> SUFFICES ASSUME NEW x \in Requests, call'[x].op \in {"login", "change"}, phase'[x] \in Done,
                      NEW e1 \in Emails, e1 = call'[x].email
               PROVE  call'[x].pw \in Known(e1)'
    BY <1>0 DEF PasswordWasKnown, Known
  <2>1. x # r
    BY <1>0
  <2>2. call[x].pw \in Known(e1)
    BY <1>0, <2>1, WasKnownMeans DEF PasswordInv
  <2> QED
    BY <1>0, <1>1, <2>1, <2>2
<1> QED
  BY <1>2, <1>3, <1>4, <1>5, <1>6, <1>7 DEF PasswordInv

LEMMA MovesRemember ==
  ASSUME PasswordInv, call' = call, NEW e \in Emails,
         \A x \in Requests : \/ phase'[x] = phase[x]
                             \/ phase[x] = "created" /\ phase'[x] \in Done \cup {"halfError"}
                             \/ phase[x] \in {"read", "deleted"} /\ phase'[x] \notin {"idle", "created"}
                             \/ phase[x] \in Done /\ phase'[x] \in Done
  PROVE  Known(e) \subseteq Known(e)' /\ Opened(e)' = Opened(e) /\ Changed(e) \subseteq Changed(e)'
<1>1. Opened(e)' = Opened(e)
  BY DEF Opened, Done, PasswordInv, HandlerPhases, TypeOK
<1>2. Changed(e) \subseteq Changed(e)'
  BY DEF Changed, Done, PasswordInv, TypeOK
<1> QED
  BY <1>1, <1>2, RememberedIsKnown

\* Requests that go on or end.
LEMMA MovesKeepPasswords ==
  ASSUME PasswordInv, TypeOK', call' = call, seen' = seen,
         \A x \in Requests :
            \/ phase'[x] = phase[x]
            \/ phase[x] = "created" /\ phase'[x] \in Done \cup {"halfError"}
            \/ /\ phase[x] \in {"read", "deleted"}
               /\ phase'[x] \notin {"idle", "created", "read"}
               /\ call[x].op \in {"login", "change"}
                     => /\ phase'[x] # "deleted"
                        /\ phase'[x] \in Done => seen[x] = call[x].pw
            \/ phase[x] \in Done /\ phase'[x] \in Done,
         \A e \in Emails : \/ account'[e] = account[e]
                           \/ /\ account[e] \in Passwords /\ account'[e] \in Passwords
                              /\ account'[e] \in Known(e)'
  PROVE  PasswordInv'
<1>1. \A e \in Emails : Known(e) \subseteq Known(e)' /\ Opened(e)' = Opened(e)
  BY MovesRemember
<1>0. \A x \in Requests : call[x].email \in Emails
  BY DEF PasswordInv, TypeOK, Calls
<1>2. HandlerPhases'
  BY DEF HandlerPhases, PasswordInv, Done
<1>3. AccountsOpen'
  <2>1. \A x \in Requests : OnAccount(x)' => OnAccount(x)
    BY DEF OnAccount, PasswordInv, HandlerPhases, InFlight, Done
  <2> QED
    BY <1>0, <2>1 DEF AccountsOpen, PasswordInv
<1>4. PasswordsKnown'
  BY <1>1 DEF PasswordsKnown, PasswordInv
<1>5. OpenedOnce'
  BY <1>1 DEF OpenedOnce, PasswordInv
<1>6. ReadKnown'
  BY <1>0, <1>1 DEF ReadKnown, PasswordInv, Done
<1>7. PasswordWasKnown'
  <2> SUFFICES ASSUME NEW x \in Requests, call[x].op \in {"login", "change"}, phase'[x] \in Done
               PROVE  call[x].pw \in Known(call[x].email)'
    BY <1>0 DEF PasswordWasKnown, Known
  <2>1. CASE phase[x] \in Done
    BY <1>0, <1>1, <2>1, WasKnownMeans DEF PasswordInv
  <2>2. CASE phase[x] \notin Done
    <3>1. phase[x] = "read" /\ seen[x] = call[x].pw
      BY <2>2 DEF PasswordInv, HandlerPhases, Done
    <3> QED
      BY <1>0, <1>1, <3>1 DEF PasswordInv, ReadKnown
  <2> QED
    BY <2>1, <2>2
<1> QED
  BY <1>2, <1>3, <1>4, <1>5, <1>6, <1>7 DEF PasswordInv
LEMMA RegisterInsertsKeepsPasswords ==
  ASSUME PasswordInv, TypeOK', NEW r \in Requests, NEW e \in Emails, NEW p \in Passwords,
         RegisterInserts(r, e, p)
  PROVE  PasswordInv'
<1>0. /\ call'[r].op = "register" /\ call'[r].email = e /\ call'[r].pw = p
      /\ phase'[r] = "created" /\ phase[r] = "idle" /\ seen' = seen
      /\ \A x \in Requests \ {r} : call'[x] = call[x] /\ phase'[x] = phase[x]
      /\ \A x \in Requests : call[x].email \in Emails /\ call'[x].email \in Emails
      /\ account[e] = Nobody /\ account' = [account EXCEPT ![e] = p]
  BY DEF RegisterInserts, Arrives, Call, PasswordInv, TypeOK, Calls
<1>1. \A f \in Emails : Known(f) \subseteq Known(f)' /\ Opened(f)' \subseteq Opened(f) \cup {r}
  BY ArrivalRemembers DEF RegisterInserts
<1>2. Opened(e) = {}
  BY <1>0, OpenedOpen, AccountsAssumption
<1>3. r \in Opened(e)' /\ \A f \in Emails \ {e} : r \notin Opened(f)'
  BY <1>0 DEF Opened
<1>4. HandlerPhases'
  BY <1>0 DEF HandlerPhases, PasswordInv
<1>5. AccountsOpen'
  BY <1>0, AccountsAssumption DEF AccountsOpen, OnAccount, PasswordInv, TypeOK
<1>6. PasswordsKnown'
  <2>1. p \in Known(e)'
    BY <1>0, <1>3 DEF Known
  <2>2. ASSUME NEW f \in Emails \ {e}, account'[f] \in Passwords
        PROVE  account'[f] \in Known(f)' /\ Opened(f)' # {}
    <3>1. account'[f] = account[f]
      BY <1>0 DEF PasswordInv, TypeOK
    <3>2. Opened(f) \subseteq Opened(f)'
      BY ArrivalRemembers DEF RegisterInserts
    <3> QED
      BY <1>1, <2>2, <3>1, <3>2 DEF PasswordsKnown, PasswordInv
  <2>3. account'[e] = p
    BY <1>0 DEF PasswordInv, TypeOK
  <2> QED
    BY <1>3, <2>1, <2>2, <2>3 DEF PasswordsKnown
<1>7. OpenedOnce'
  BY <1>1, <1>2, <1>3 DEF OpenedOnce, PasswordInv
<1>8. ReadKnown'
  BY <1>0, <1>1 DEF ReadKnown, PasswordInv
<1>9. PasswordWasKnown'
  <2> SUFFICES ASSUME NEW x \in Requests, call'[x].op \in {"login", "change"}, phase'[x] \in Done,
                      NEW e1 \in Emails, e1 = call'[x].email
               PROVE  call'[x].pw \in Known(e1)'
    BY <1>0 DEF PasswordWasKnown, Known
  <2>1. x # r
    BY <1>0
  <2>2. call[x].pw \in Known(e1)
    BY <1>0, <2>1, WasKnownMeans DEF PasswordInv
  <2> QED
    BY <1>0, <1>1, <2>1, <2>2
<1> QED
  BY <1>4, <1>5, <1>6, <1>7, <1>8, <1>9 DEF PasswordInv

LEMMA LegacyKeepsPasswords ==
  ASSUME PasswordInv, TypeOK', NEW r \in Requests, NEW e \in Emails, NEW p \in Passwords,
         LegacyRegisters(r, e, p)
  PROVE  PasswordInv'
<1>0. /\ call'[r].op = "legacy" /\ phase[r] = "idle" /\ seen' = seen
      /\ \A x \in Requests \ {r} : call'[x] = call[x] /\ phase'[x] = phase[x]
      /\ \A x \in Requests : call[x].email \in Emails /\ call'[x].email \in Emails
      /\ \A f \in Emails : \/ account'[f] = account[f]
                           \/ account[f] = Nobody /\ account'[f] = NoPassword
  BY DEF LegacyRegisters, Arrives, Call, PasswordInv, TypeOK, Calls
<1>1. \A f \in Emails : Known(f) \subseteq Known(f)' /\ Opened(f)' = Opened(f)
  <2>1. \A f \in Emails : r \notin Opened(f)'
    BY <1>0 DEF Opened
  <2> QED
    BY <2>1, ArrivalRemembers DEF LegacyRegisters
<1>4. HandlerPhases'
  BY <1>0 DEF HandlerPhases, PasswordInv
<1>5. AccountsOpen'
  <2>1. \A x \in Requests : OnAccount(x)' => x # r /\ OnAccount(x)
    BY <1>0 DEF OnAccount
  <2>2. \A f \in Emails : account[f] \in Passwords => account'[f] \in Passwords
    BY <1>0, AccountsAssumption
  <2> QED
    BY <1>0, <2>1, <2>2 DEF AccountsOpen, PasswordInv
<1>6. PasswordsKnown'
  BY <1>0, <1>1, AccountsAssumption DEF PasswordsKnown, PasswordInv
<1>7. OpenedOnce'
  BY <1>1 DEF OpenedOnce, PasswordInv
<1>8. ReadKnown'
  BY <1>0, <1>1 DEF ReadKnown, PasswordInv
<1>9. PasswordWasKnown'
  <2> SUFFICES ASSUME NEW x \in Requests, call'[x].op \in {"login", "change"}, phase'[x] \in Done,
                      NEW e1 \in Emails, e1 = call'[x].email
               PROVE  call'[x].pw \in Known(e1)'
    BY <1>0 DEF PasswordWasKnown, Known
  <2>1. x # r
    BY <1>0
  <2>2. call[x].pw \in Known(e1)
    BY <1>0, <2>1, WasKnownMeans DEF PasswordInv
  <2> QED
    BY <1>0, <1>1, <2>1, <2>2
<1> QED
  BY <1>4, <1>5, <1>6, <1>7, <1>8, <1>9 DEF PasswordInv

LEMMA StepPasswords == PasswordInv /\ [Next]_vars => PasswordInv'
<1> SUFFICES ASSUME PasswordInv, [Next]_vars PROVE PasswordInv'
  OBVIOUS
<1>0. TypeOK /\ TypeOK' /\ \A x \in Requests : call[x].email \in Emails /\ call[x].new \in Passwords
  BY StepTyped DEF PasswordInv, TypeOK, Calls
<1>1. ASSUME NEW r \in Requests, NEW e \in Emails, NEW p \in Passwords, RegisterInserts(r, e, p)
      PROVE  PasswordInv'
  BY <1>0, <1>1, RegisterInsertsKeepsPasswords
<1>2. ASSUME NEW r \in Requests, NEW e \in Emails, NEW p \in Passwords, LegacyRegisters(r, e, p)
      PROVE  PasswordInv'
  BY <1>0, <1>2, LegacyKeepsPasswords
<1>3. ASSUME NEW r \in Requests, NEW e \in Emails, NEW p \in Passwords, RegisterConflicts(r, e, p)
      PROVE  PasswordInv'
  <2>1. Call(r, "register", e, p) \in Calls /\ Call(r, "register", e, p).op = "register"
    BY <1>0, CallTyped, PhaseNames DEF Call
  <2> QED
    BY <1>0, <1>3, <2>1, PhaseNames, ArrivalKeepsPasswords DEF RegisterConflicts
<1>4. ASSUME NEW r \in Requests, NEW e \in Emails, NEW p \in Passwords, LoginReads(r, e, p)
      PROVE  PasswordInv'
  <2> DEFINE c == Call(r, "login", e, p)
  <2>1. c \in Calls /\ c.op = "login" /\ c.email = e
    BY <1>0, CallTyped, PhaseNames DEF Call
  <2>2. PICK q \in {"refused", "noPassword", "read"} :
            /\ Arrives(r, c, q)
            /\ q = "read" => account[e] \in Passwords
    BY <1>0, <1>4 DEF LoginReads, TypeOK, Hashes
  <2>3. q = "read" => seen'[r] \in Known(e)
    BY <1>0, <1>4, <2>2 DEF LoginReads, PasswordInv, PasswordsKnown, TypeOK
  <2>4. account' = account /\ \A x \in Requests \ {r} : seen'[x] = seen[x]
    BY <1>0, <1>4 DEF LoginReads, TypeOK
  <2>5. q \in Phases /\ q \notin Done \cup {"created", "deleted"}
            /\ (q \in InFlight \cup Done => account[e] \in Passwords)
    BY <2>2, PhaseNames DEF Done, InFlight
  <2> HIDE DEF c
  <2> QED
    BY <1>0, <2>1, <2>2, <2>3, <2>4, <2>5, ArrivalKeepsPasswords
<1>5. ASSUME NEW r \in Requests, NEW t \in Requests, RefreshReads(r, t) \/ Logout(r, t)
      PROVE  PasswordInv'
  <2>1. account[call[t].email] \in Passwords
    BY <1>5 DEF RefreshReads, Logout, Issued, PasswordInv, AccountsOpen, OnAccount, Done
  <2>2. PICK op \in {"refresh", "logout"}, q \in Phases : Arrives(r, WithToken(op, t), q)
    BY <1>5, PhaseNames DEF RefreshReads, Logout
  <2>3. WithToken(op, t) \in Calls /\ WithToken(op, t).op = op
            /\ WithToken(op, t).email = call[t].email
    BY <1>0, WithTokenTyped, PhaseNames DEF WithToken
  <2>4. account' = account /\ seen' = seen
    BY <1>5 DEF RefreshReads, Logout
  <2> QED
    BY <1>0, <2>1, <2>2, <2>3, <2>4, ArrivalKeepsPasswords
<1>6. ASSUME NEW r \in Requests, NEW t \in Requests, NEW p \in Passwords, NEW n \in Passwords,
             ChangeReads(r, t, p, n)
      PROVE  PasswordInv'
  <2> DEFINE c == [op |-> "change", email |-> call[t].email, pw |-> p, new |-> n, token |-> t]
  <2>1. c \in Calls /\ c.op = "change" /\ c.email = call[t].email
    BY <1>0, PhaseNames DEF Calls
  <2>2. account[call[t].email] \in Passwords
    BY <1>6 DEF ChangeReads, Issued, PasswordInv, AccountsOpen, OnAccount, Done
  <2>3. PICK q \in {"noPassword", "read"} : Arrives(r, c, q)
    BY <1>6 DEF ChangeReads
  <2>4. seen'[r] \in Known(call[t].email)
    BY <1>0, <1>6, <2>2 DEF ChangeReads, PasswordInv, PasswordsKnown, TypeOK
  <2>5. account' = account /\ \A x \in Requests \ {r} : seen'[x] = seen[x]
    BY <1>0, <1>6 DEF ChangeReads, TypeOK
  <2>6. q \in Phases /\ q \notin Done \cup {"created", "deleted"}
    BY <2>3, PhaseNames DEF Done
  <2> HIDE DEF c
  <2> QED
    BY <1>0, <2>1, <2>2, <2>3, <2>4, <2>5, <2>6, ArrivalKeepsPasswords
<1>7. ASSUME NEW r \in Requests,
             \/ RegisterIssues(r) \/ LoginIssues(r) \/ LoginDenied(r)
             \/ RefreshDeletes(r) \/ RefreshInserts(r) \/ ChangeDenied(r)
             \/ StatementFails(r) \/ AnswerLost(r) \/ TokenLapses(r)
      PROVE  PasswordInv'
  <2>1. call' = call /\ seen' = seen /\ account' = account
    BY <1>7
    DEF RegisterIssues, LoginIssues, LoginDenied, RefreshDeletes, RefreshInserts, ChangeDenied,
        StatementFails, AnswerLost, TokenLapses, Moves, Issues
  <2>2. \A x \in Requests :
            \/ phase'[x] = phase[x]
            \/ phase[x] = "created" /\ phase'[x] \in Done \cup {"halfError"}
            \/ /\ phase[x] \in {"read", "deleted"}
               /\ phase'[x] \notin {"idle", "created", "read"}
               /\ call[x].op \in {"login", "change"}
                     => /\ phase'[x] # "deleted"
                        /\ phase'[x] \in Done => seen[x] = call[x].pw
            \/ phase[x] \in Done /\ phase'[x] \in Done
    BY <1>0, <1>7
    DEF RegisterIssues, LoginIssues, LoginDenied, RefreshDeletes, RefreshInserts, ChangeDenied,
        StatementFails, AnswerLost, TokenLapses, Moves, Issues, CutOff, InFlight, Done, TypeOK
  <2> QED
    BY <1>0, <2>1, <2>2, MovesKeepPasswords
<1>8. ASSUME NEW r \in Requests, ChangeUpdates(r) PROVE PasswordInv'
  <2> DEFINE e == call[r].email
  <2>1. /\ call' = call /\ seen' = seen /\ seen[r] = call[r].pw /\ call[r].op = "change"
        /\ phase[r] = "read" /\ phase' = [phase EXCEPT ![r] = "ok"]
        /\ account' = [account EXCEPT ![call[r].email] = call[r].new]
    BY <1>8 DEF ChangeUpdates, Moves
  <2>2. account[call[r].email] \in Passwords
    BY <2>1 DEF PasswordInv, AccountsOpen, OnAccount, InFlight
  <2>3. r \in Changed(call[r].email)'
    BY <1>0, <2>1 DEF Changed, Done, TypeOK
  <2>4. \A f \in Emails : \/ account'[f] = account[f]
                          \/ /\ account[f] \in Passwords /\ account'[f] \in Passwords
                             /\ account'[f] \in Known(f)'
    BY <1>0, <2>1, <2>2, <2>3 DEF Known, TypeOK
  <2>5. \A x \in Requests :
            \/ phase'[x] = phase[x]
            \/ phase[x] = "created" /\ phase'[x] \in Done \cup {"halfError"}
            \/ /\ phase[x] \in {"read", "deleted"}
               /\ phase'[x] \notin {"idle", "created", "read"}
               /\ call[x].op \in {"login", "change"}
                     => /\ phase'[x] # "deleted"
                        /\ phase'[x] \in Done => seen[x] = call[x].pw
            \/ phase[x] \in Done /\ phase'[x] \in Done
    BY <1>0, <2>1 DEF TypeOK
  <2> QED
    BY <1>0, <2>1, <2>4, <2>5, MovesKeepPasswords
<1>9. CASE ServerRestarts
  BY <1>0, <1>9, MovesKeepPasswords DEF ServerRestarts, CutOff, InFlight, Done, TypeOK
<1>10. CASE UNCHANGED vars
  BY <1>0, <1>10, MovesKeepPasswords DEF vars
<1> QED
  BY <1>1, <1>2, <1>3, <1>4, <1>5, <1>6, <1>7, <1>8, <1>9, <1>10 DEF Next

\* Concurrent, repeated and half-done registrations open an account once, and only an
\* accepted change replaces the password of the one that did.
THEOREM AccountsAreOpenedOnce == Spec => []PasswordAccountedFor
<1>1. PasswordInv => PasswordAccountedFor
  <2> SUFFICES ASSUME PasswordInv, NEW e \in Emails, account[e] \in Passwords
               PROVE  \E r \in Opened(e) :
                         /\ Opened(e) = {r}
                         /\ \/ account[e] = call[r].pw
                            \/ \E c \in Changed(e) : account[e] = call[c].new
    BY DEF PasswordAccountedFor
  <2>1. account[e] \in Known(e) /\ Opened(e) # {}
    BY DEF PasswordInv, PasswordsKnown
  <2> QED
    BY <2>1 DEF PasswordInv, OpenedOnce, Known
<1> QED
  BY <1>1, InitPasswords, StepPasswords, PTL DEF Spec

\* A login or a change is only ever accepted with a password the account has had.
THEOREM AcceptedPasswordsWereKnown == Spec => []PasswordWasKnown
<1>1. PasswordInv => PasswordWasKnown
  BY DEF PasswordInv
<1> QED
  BY <1>1, InitPasswords, StepPasswords, PTL DEF Spec

-----------------------------------------------------------------------------
(* The table refresh_tokens.  That a refresh inserts its token only when   *)
(* the row of the old one is gone depends on what the handler remembers:   *)
(* the token of a refresh was inserted once, and after the DELETE its row  *)
(* stays away, because a row is only ever inserted under a new name.       *)

Issuers == {"register", "login", "refresh"}

RowsInserted == rows \subseteq Inserted

RefreshesHaveTokens ==
    \A r \in Requests : call[r].op = "refresh" /\ phase[r] # "idle" =>
        /\ call[r].token \in Inserted
        /\ phase[r] = "deleted" => call[r].token \notin rows

TableInv == TypeOK /\ RowsInserted /\ RefreshesHaveTokens

LEMMA InitTable == Init => TableInv /\ Table!Init
  BY InitTyped
  DEF Init, TableInv, RowsInserted, RefreshesHaveTokens, Inserted, Replaced, Done, Table!Init

\* A request that arrives issues nothing with its first statement.
LEMMA ArrivalKeepsTable ==
  ASSUME TableInv, TypeOK', NEW r \in Requests, NEW c \in Calls, NEW p \in Phases \ {"idle"},
         Arrives(r, c, p), rows' \subseteq rows,
         c.op \in Issuers => p \notin Done,
         c.op = "refresh" => c.token \in Inserted /\ p # "deleted"
  PROVE  TableInv' /\ Inserted' = Inserted /\ Replaced' = Replaced
<1>0. /\ phase[r] = "idle" /\ phase'[r] = p /\ call'[r] = c
      /\ \A x \in Requests \ {r} : call'[x] = call[x] /\ phase'[x] = phase[x]
  BY DEF Arrives, TableInv, TypeOK
<1>1. Inserted' = Inserted
  BY <1>0 DEF Inserted, Issuers, Done
<1>2. Replaced' = Replaced
  BY <1>0 DEF Replaced, Issuers, Done
<1>3. RefreshesHaveTokens'
  BY <1>0, <1>1 DEF TableInv, RefreshesHaveTokens
<1> QED
  BY <1>1, <1>2, <1>3 DEF TableInv, RowsInserted

\* Requests that go on or end without a token, and answers that are lost.
LEMMA EndingKeepsTable ==
  ASSUME TableInv, TypeOK', call' = call, rows' = rows,
         \A x \in Requests :
            \/ phase'[x] = phase[x]
            \/ phase[x] \in Done /\ phase'[x] \in Done
            \/ /\ phase[x] \in InFlight /\ phase'[x] \notin {"idle", "deleted"}
               /\ call[x].op \in Issuers => phase'[x] \notin Done
  PROVE  TableInv' /\ Inserted' = Inserted /\ Replaced' = Replaced
<1>1. Inserted' = Inserted
  BY DEF Inserted, Issuers, Done, InFlight
<1>2. \A x \in Requests : call[x].op = "refresh" => (phase'[x] \in Done <=> phase[x] \in Done)
  BY DEF Issuers, Done, InFlight
<1>3. Replaced' = Replaced
  BY <1>2 DEF Replaced
<1>4. RefreshesHaveTokens'
  BY <1>1 DEF TableInv, RefreshesHaveTokens, Done, InFlight
<1> QED
  BY <1>1, <1>3, <1>4 DEF TableInv, RowsInserted

\* The INSERT of a request: its token is new, so the row of no older token comes back.
LEMMA IssueExtendsTable ==
  ASSUME TableInv, TypeOK', NEW r \in Requests, NEW op \in Issuers, NEW from \in InFlight,
         Moves(r, op, from, "ok"), Issues(r)
  PROVE  /\ TableInv' /\ r \notin Inserted /\ Inserted' = Inserted \cup {r}
         /\ Replaced' = IF op = "refresh" THEN Replaced \cup {call[r].token} ELSE Replaced
<1>0. /\ phase[r] = from /\ phase'[r] = "ok" /\ call[r].op = op /\ call' = call
      /\ \A x \in Requests \ {r} : phase'[x] = phase[x]
      /\ rows' = rows \cup {r}
  BY DEF Moves, Issues, TableInv, TypeOK
<1>1. r \notin Inserted /\ Inserted' = Inserted \cup {r}
  BY <1>0 DEF Inserted, Issuers, Done, InFlight
<1>2. ASSUME op = "refresh" PROVE Replaced' = Replaced \cup {call[r].token}
  <2>1. {q \in Requests : call[q].op = "refresh" /\ phase[q] \in Done}'
            = {q \in Requests : call[q].op = "refresh" /\ phase[q] \in Done} \cup {r}
    BY <1>0, <1>2 DEF Done
  <2> QED
    BY <1>0, <2>1 DEF Replaced
<1>3. ASSUME op # "refresh" PROVE Replaced' = Replaced
  <2>1. {q \in Requests : call[q].op = "refresh" /\ phase[q] \in Done}'
            = {q \in Requests : call[q].op = "refresh" /\ phase[q] \in Done}
    BY <1>0, <1>3
  <2> QED
    BY <1>0, <2>1 DEF Replaced
<1>4. RefreshesHaveTokens'
  BY <1>0, <1>1 DEF TableInv, RefreshesHaveTokens, InFlight
<1>5. TableInv'
  BY <1>0, <1>1, <1>4 DEF TableInv, RowsInserted
<1> QED
  BY <1>1, <1>2, <1>3, <1>5

LEMMA RefreshDeletesKeepsTable ==
  ASSUME TableInv, TypeOK', NEW r \in Requests, RefreshDeletes(r)
  PROVE  /\ TableInv' /\ Inserted' = Inserted /\ Replaced' = Replaced
         /\ call[r].token \in Requests /\ rows' = rows \ {call[r].token} /\ lapsed' = lapsed
<1>0. /\ phase[r] = "read" /\ phase'[r] = "deleted" /\ call[r].op = "refresh" /\ call' = call
      /\ \A x \in Requests \ {r} : phase'[x] = phase[x]
      /\ rows' = rows \ {call[r].token} /\ lapsed' = lapsed
      /\ call[r].token \in Requests
  BY DEF RefreshDeletes, Moves, TableInv, TypeOK, Calls
<1>1. Inserted' = Inserted
  BY <1>0 DEF Inserted, Done
<1>2. Replaced' = Replaced
  BY <1>0 DEF Replaced, Done
<1>3. RefreshesHaveTokens'
  BY <1>0, <1>1 DEF TableInv, RefreshesHaveTokens
<1> QED
  BY <1>0, <1>1, <1>2, <1>3 DEF TableInv, RowsInserted

LEMMA StepTable ==
  ASSUME TableInv, [Next]_vars
  PROVE  TableInv' /\ [Table!Next]_(Table!vars)
<1> USE PhaseNames
<1>0. TypeOK /\ TypeOK'
  BY StepTyped DEF TableInv
<1>1. ASSUME NEW r \in Requests, NEW e \in Emails, NEW p \in Passwords,
             \/ RegisterInserts(r, e, p) \/ RegisterConflicts(r, e, p)
             \/ LegacyRegisters(r, e, p) \/ LoginReads(r, e, p)
      PROVE  TableInv' /\ UNCHANGED Table!vars
  <2>1. PICK op \in {"register", "legacy", "login"},
             q \in {"created", "exists", "ok", "refused", "noPassword", "read"} :
            /\ Arrives(r, Call(r, op, e, p), q)
            /\ q = "ok" => op = "legacy"
    BY <1>1 DEF RegisterInserts, RegisterConflicts, LegacyRegisters, LoginReads
  <2>2. rows' = rows /\ lapsed' = lapsed
    BY <1>1 DEF RegisterInserts, RegisterConflicts, LegacyRegisters, LoginReads
  <2>3. Call(r, op, e, p) \in Calls /\ Call(r, op, e, p).op = op
    BY <1>0, CallTyped DEF Call
  <2>4. q \in Phases \ {"idle"} /\ (op \in Issuers => q \notin Done) /\ op # "refresh"
    BY <2>1 DEF Issuers, Done
  <2>5. TableInv' /\ Inserted' = Inserted /\ Replaced' = Replaced
    BY <1>0, <2>1, <2>2, <2>3, <2>4, ArrivalKeepsTable
  <2> QED
    BY <2>2, <2>5 DEF Table!vars
<1>2. ASSUME NEW r \in Requests, NEW t \in Requests, RefreshReads(r, t)
      PROVE  TableInv' /\ UNCHANGED Table!vars
  <2>1. PICK q \in {"read", "refused"} : Arrives(r, WithToken("refresh", t), q)
    BY <1>2 DEF RefreshReads
  <2>2. rows' = rows /\ lapsed' = lapsed /\ t \in Inserted
    BY <1>2 DEF RefreshReads, Issued, Inserted, Done
  <2>3. /\ WithToken("refresh", t) \in Calls
        /\ WithToken("refresh", t).op = "refresh" /\ WithToken("refresh", t).token = t
    BY <1>0, WithTokenTyped DEF WithToken
  <2>4. q \in Phases \ {"idle", "deleted"} /\ q \notin Done
    BY <2>1 DEF Done
  <2>5. TableInv' /\ Inserted' = Inserted /\ Replaced' = Replaced
    BY <1>0, <2>1, <2>2, <2>3, <2>4, ArrivalKeepsTable
  <2> QED
    BY <2>2, <2>5 DEF Table!vars
<1>3. ASSUME NEW r \in Requests, NEW t \in Requests, Logout(r, t)
      PROVE  TableInv' /\ [Table!Delete(t)]_(Table!vars)
  <2>1. Arrives(r, WithToken("logout", t), "ok") /\ lapsed' = lapsed
    BY <1>3 DEF Logout
  <2>2. rows' = rows \/ rows' = rows \ {t}
    BY <1>3 DEF Logout
  <2>3. WithToken("logout", t) \in Calls /\ WithToken("logout", t).op = "logout"
    BY <1>0, WithTokenTyped DEF WithToken
  <2>4. rows' \subseteq rows /\ "logout" \notin Issuers
    BY <2>2 DEF Issuers
  <2>5. TableInv' /\ Inserted' = Inserted /\ Replaced' = Replaced
    BY <1>0, <2>1, <2>3, <2>4, ArrivalKeepsTable
  <2> QED
    BY <2>1, <2>2, <2>5 DEF Table!vars, Table!Delete
<1>4. ASSUME NEW r \in Requests, NEW t \in Requests, NEW p \in Passwords, NEW n \in Passwords,
             ChangeReads(r, t, p, n)
      PROVE  TableInv' /\ UNCHANGED Table!vars
  <2> DEFINE c == [op |-> "change", email |-> call[t].email, pw |-> p, new |-> n, token |-> t]
  <2>1. c \in Calls /\ c.op = "change"
    BY <1>0 DEF TypeOK, Calls
  <2>2. PICK q \in {"noPassword", "read"} : Arrives(r, c, q)
    BY <1>4 DEF ChangeReads
  <2>3. rows' = rows /\ lapsed' = lapsed /\ "change" \notin Issuers
    BY <1>4 DEF ChangeReads, Issuers
  <2>4. q \in Phases \ {"idle"}
    BY <2>2
  <2> HIDE DEF c
  <2>5. TableInv' /\ Inserted' = Inserted /\ Replaced' = Replaced
    BY <1>0, <2>1, <2>2, <2>3, <2>4, ArrivalKeepsTable
  <2> QED
    BY <2>3, <2>5 DEF Table!vars
<1>5. ASSUME NEW r \in Requests, RegisterIssues(r) \/ LoginIssues(r)
      PROVE  TableInv' /\ Table!SignIn(r)
  <2>1. PICK op \in {"register", "login"}, from \in {"created", "read"} :
            Moves(r, op, from, "ok") /\ Issues(r)
    BY <1>5 DEF RegisterIssues, LoginIssues
  <2>2. op \in Issuers /\ op # "refresh" /\ from \in InFlight
    BY <2>1 DEF Issuers, InFlight
  <2>3. TableInv' /\ r \notin Inserted /\ Inserted' = Inserted \cup {r} /\ Replaced' = Replaced
    BY <1>0, <2>1, <2>2, IssueExtendsTable
  <2> QED
    BY <2>1, <2>3 DEF Table!SignIn, Issues
<1>6. ASSUME NEW r \in Requests, RefreshInserts(r)
      PROVE  TableInv' /\ call[r].token \in Requests /\ Table!Refresh(call[r].token, r)
  <2>1. /\ Moves(r, "refresh", "deleted", "ok") /\ Issues(r)
        /\ "refresh" \in Issuers /\ "deleted" \in InFlight
    BY <1>6 DEF RefreshInserts, Issuers, InFlight
  <2>2. /\ TableInv' /\ r \notin Inserted /\ Inserted' = Inserted \cup {r}
        /\ Replaced' = Replaced \cup {call[r].token}
    BY <1>0, <2>1, IssueExtendsTable
  <2>3. call[r].token \in Inserted /\ call[r].token \notin rows /\ call[r].token \in Requests
    BY <2>1 DEF TableInv, RefreshesHaveTokens, Moves, Inserted
  <2>4. rows' = (rows \ {call[r].token}) \cup {r} /\ lapsed' = lapsed
    BY <2>1, <2>3 DEF Issues
  <2> QED
    BY <2>2, <2>3, <2>4 DEF Table!Refresh
<1>7. ASSUME NEW r \in Requests, RefreshDeletes(r)
      PROVE  TableInv' /\ call[r].token \in Requests /\ Table!Delete(call[r].token)
  BY <1>0, <1>7, RefreshDeletesKeepsTable DEF Table!Delete
<1>8. ASSUME NEW r \in Requests,
             \/ LoginDenied(r) \/ ChangeUpdates(r) \/ ChangeDenied(r)
             \/ StatementFails(r) \/ AnswerLost(r)
      PROVE  TableInv' /\ UNCHANGED Table!vars
  <2>1. call' = call /\ rows' = rows /\ lapsed' = lapsed
    BY <1>8 DEF LoginDenied, ChangeUpdates, ChangeDenied, StatementFails, AnswerLost, Moves
  <2>2. \A x \in Requests :
            \/ phase'[x] = phase[x]
            \/ phase[x] \in Done /\ phase'[x] \in Done
            \/ /\ phase[x] \in InFlight /\ phase'[x] \notin {"idle", "deleted"}
               /\ call[x].op \in Issuers => phase'[x] \notin Done
    BY <1>0, <1>8
    DEF LoginDenied, ChangeUpdates, ChangeDenied, StatementFails, AnswerLost, Moves, CutOff,
        InFlight, Done, Issuers, TypeOK
  <2>3. TableInv' /\ Inserted' = Inserted /\ Replaced' = Replaced
    BY <1>0, <2>1, <2>2, EndingKeepsTable
  <2> QED
    BY <2>1, <2>3 DEF Table!vars
<1>9. ASSUME NEW t \in Requests, TokenLapses(t)
      PROVE  TableInv' /\ Table!Lapse(t)
  <2>1. TableInv' /\ Inserted' = Inserted /\ Replaced' = Replaced
    BY <1>0, <1>9, EndingKeepsTable DEF TokenLapses
  <2> QED
    BY <1>9, <2>1 DEF TokenLapses, Table!Lapse
<1>10. CASE ServerRestarts
  <2>1. call' = call /\ rows' = rows /\ lapsed' = lapsed
    BY <1>10 DEF ServerRestarts
  <2>2. \A x \in Requests :
            \/ phase'[x] = phase[x]
            \/ phase[x] \in InFlight /\ phase'[x] \in {"error", "halfError"}
    BY <1>10 DEF ServerRestarts, CutOff
  <2>3. TableInv' /\ Inserted' = Inserted /\ Replaced' = Replaced
    BY <1>0, <2>1, <2>2, EndingKeepsTable DEF Done
  <2> QED
    BY <2>1, <2>3 DEF Table!vars
<1>11. CASE UNCHANGED vars
  <2>1. TableInv' /\ Inserted' = Inserted /\ Replaced' = Replaced
    BY <1>0, <1>11, EndingKeepsTable DEF vars
  <2> QED
    BY <1>11, <2>1 DEF vars, Table!vars
<1> QED
  BY <1>1, <1>2, <1>3, <1>4, <1>5, <1>6, <1>7, <1>8, <1>9, <1>10, <1>11
  DEF Next, Table!Next

\* The routes implement the table refresh_tokens that the app relies on: in whatever order
\* their statements run, fail or are cut off, each one is a step of that table or none.
THEOREM RoutesKeepTokenTable == Spec => KeepsTokenTable
<1>1. Init => TableInv /\ Table!Init
  BY InitTable
<1>2. TableInv /\ [Next]_vars => TableInv' /\ [Table!Next]_(Table!vars)
  BY StepTable
<1> QED
  BY <1>1, <1>2, PTL DEF Spec, KeepsTokenTable, Table!Spec
=============================================================================
