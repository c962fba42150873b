------------------------------ MODULE ApiClient ------------------------------
(***************************************************************************)
(* The mobile app's API client and its session: the axios interceptors of  *)
(* mobile/src/api/client.ts, the session operations of                     *)
(* mobile/src/store/authStore.ts that run through them, and the rows of    *)
(* refresh_tokens that LocusBackend/server.js keeps for the app.           *)
(*                                                                         *)
(* JavaScript is single threaded: everything between two awaits is one     *)
(* step, and the steps of different calls interleave at the awaits.  A     *)
(* token pair (access, refresh) is the number of the response that issued  *)
(* it, 0 is "no tokens".  The keychain is taken to work here: an operation *)
(* on it takes effect at the step that resumes after it (module Keychain   *)
(* models its failures and time-outs).                                     *)
(***************************************************************************)
EXTENDS Integers

CONSTANTS Calls,        \* the API calls the app makes, each used once
          MaxTokens,    \* bound on the token pairs the server issues
          MaxLogouts,   \* bound on POST /auth/logout pending when Sign Out is tapped
          MaxRestarts   \* bound on the restarts of the app

ASSUME ConstantsAssumption ==
    MaxTokens \in Nat /\ MaxLogouts \in Nat /\ MaxRestarts \in Nat

VARIABLES
    store,            \* the pair getTokens() returns, 0 for null
    isRefreshing,     \* client.ts: isRefreshing
    pc,               \* where each call is
    kind,             \* what each call asks for
    hdr,              \* access token in the call's Authorization header, 0 for none
    retry,            \* originalRequest._retry
    used,             \* leader: the refresh token it POSTs to /auth/refresh
    held,             \* the pair a response gave this call, not yet stored
    posting,          \* number of logout() in progress
    isAuthenticated, isLoading, isInitialized,    \* authStore.ts
    issued,           \* server: number of the last pair issued
    rows,             \* server: pairs with a row in refresh_tokens
    expired,          \* pairs whose access JWT has expired
    lapsed,           \* pairs whose refresh_tokens.expires_at has passed
    restarts,
    orphaned          \* history: refresh tokens in use by a refresh the app died in

clientVars == <<store, isRefreshing, pc, kind, hdr, retry, used, held, posting>>
uiVars     == <<isAuthenticated, isLoading, isInitialized>>
serverVars == <<issued, rows, expired, lapsed>>
histVars   == <<restarts, orphaned>>
vars       == <<clientVars, uiVars, serverVars, histVars>>

Tokens == 0 .. MaxTokens

\* "data" is a request to a route behind authMiddleware; "changePassword" one with
\* a wrong current password; "badLogin" a login with a wrong password; "me" the
\* GET /auth/me of loadUser.
Kinds == {"data", "changePassword", "login", "badLogin", "register", "me"}

\* Calls made from an auth screen, which set isLoading themselves.
FormKinds == {"login", "badLogin", "register"}

\* From the 401 that made a call the leader to the end of its refresh cycle.
LeaderPhases == {"lead", "refresh", "rotated", "save", "fail"}

Phases == {"idle", "load", "attach", "sent", "queued", "keep", "verify", "drop", "done"}
            \cup LeaderPhases

FlagsOK ==
    /\ isRefreshing \in BOOLEAN
    /\ retry \in [Calls -> BOOLEAN]
    /\ isAuthenticated \in BOOLEAN /\ isLoading \in BOOLEAN /\ isInitialized \in BOOLEAN

DataOK ==
    /\ store \in Tokens
    /\ pc \in [Calls -> Phases]
    /\ kind \in [Calls -> Kinds]
    /\ hdr \in [Calls -> Tokens]
    /\ used \in [Calls -> Tokens]
    /\ held \in [Calls -> Tokens]
    /\ posting \in Nat
    /\ issued \in Tokens
    /\ rows \subseteq Tokens /\ expired \subseteq Tokens /\ lapsed \subseteq Tokens
    /\ restarts \in Nat
    /\ orphaned \subseteq Tokens

\* Types of the variables: axios configs, the auth store and the server's tables.
TypeOK == FlagsOK /\ DataOK

\* The app starts with an empty keychain or with the pair of an earlier session.
Init ==
    /\ store \in {0, 1} \cap Tokens
    /\ issued = store
    /\ rows = {store} \ {0}
    /\ expired = {} /\ lapsed = {}
    /\ isRefreshing = FALSE
    /\ pc = [r \in Calls |-> "idle"]
    /\ kind = [r \in Calls |-> "data"]
    /\ hdr = [r \in Calls |-> 0]
    /\ retry = [r \in Calls |-> FALSE]
    /\ used = [r \in Calls |-> 0]
    /\ held = [r \in Calls |-> 0]
    /\ posting = 0
    /\ isAuthenticated = FALSE /\ isLoading = FALSE /\ isInitialized = FALSE
    /\ restarts = 0 /\ orphaned = {}

-----------------------------------------------------------------------------
(* What the user can reach: RootNavigator shows a loader until the store   *)
(* is initialized and not loading, then the app or the auth screens.       *)

LoaderShown == ~isInitialized \/ isLoading
AppShown    == ~LoaderShown /\ isAuthenticated
LoginShown  == ~LoaderShown /\ ~isAuthenticated

\* A screen calls a protected route.
StartData(r) ==
    /\ pc[r] = "idle" /\ AppShown
    /\ \E k \in {"data", "changePassword"} : kind' = [kind EXCEPT ![r] = k]
    /\ pc' = [pc EXCEPT ![r] = "attach"]
    /\ UNCHANGED <<store, isRefreshing, hdr, retry, used, held, posting,
                   uiVars, serverVars, histVars>>

\* authStore.login and authStore.register, up to their first await.
StartForm(r) ==
    /\ pc[r] = "idle" /\ LoginShown
    /\ \E k \in FormKinds : kind' = [kind EXCEPT ![r] = k]
    /\ pc' = [pc EXCEPT ![r] = "attach"]
    /\ isLoading' = TRUE
    /\ UNCHANGED <<store, isRefreshing, hdr, retry, used, held, posting,
                   isAuthenticated, isInitialized, serverVars, histVars>>

\* authStore.loadUser, run when RootNavigator mounts and by the biometric sign-in.
StartLoadUser(r) ==
    /\ pc[r] = "idle" /\ ~isLoading /\ ~isAuthenticated
    /\ kind' = [kind EXCEPT ![r] = "me"]
    /\ pc' = [pc EXCEPT ![r] = "load"]
    /\ isLoading' = TRUE
    /\ UNCHANGED <<store, isRefreshing, hdr, retry, used, held, posting,
                   isAuthenticated, isInitialized, serverVars, histVars>>

\* loadUser resumes from getTokens: no tokens, no request.
LoadUserReadsTokens(r) ==
    /\ pc[r] = "load"
    /\ \/ /\ store = 0
          /\ pc' = [pc EXCEPT ![r] = "done"]
          /\ isAuthenticated' = FALSE /\ isInitialized' = TRUE /\ isLoading' = FALSE
       \/ /\ store # 0
          /\ pc' = [pc EXCEPT ![r] = "attach"]
          /\ UNCHANGED uiVars
    /\ UNCHANGED <<store, isRefreshing, kind, hdr, retry, used, held, posting,
                   serverVars, histVars>>

\* The request interceptor resumes from getTokens.  A replayed request keeps the
\* header it was given unless the keychain has tokens.
Attach(r) ==
    /\ pc[r] = "attach"
    /\ pc' = [pc EXCEPT ![r] = "sent"]
    /\ hdr' = [hdr EXCEPT ![r] = IF store # 0 THEN store ELSE @]
    /\ UNCHANGED <<store, isRefreshing, kind, retry, used, held, posting,
                   uiVars, serverVars, histVars>>

-----------------------------------------------------------------------------
(* How a call ends for its caller.                                         *)

\* Where a call is after its promise was rejected: loadUser clears the tokens.
AfterReject(r) == IF kind[r] = "me" THEN "drop" ELSE "done"

\* Variation: the catch block of login leaves isLoading set.
LoadingAfterReject_Login(S) == isLoading /\ ~\E r \in S : kind[r] = "register"

\* login and register clear isLoading when one of the calls in S is rejected.
LoadingAfterReject(S) == isLoading /\ ~\E r \in S : kind[r] \in FormKinds

SignIn ==
    /\ isAuthenticated' = TRUE /\ isInitialized' = TRUE /\ isLoading' = FALSE

\* The server would answer the call with success: authMiddleware and the handlers.
Accepts(r) ==
    \/ kind[r] \in {"login", "register"}
    \/ kind[r] \in {"data", "me"} /\ hdr[r] # 0 /\ hdr[r] \notin expired

\* A protected route answers 2xx.
AnswerOk(r) ==
    /\ pc[r] = "sent" /\ Accepts(r) /\ kind[r] \in {"data", "me"}
    /\ pc' = [pc EXCEPT ![r] = "done"]
    /\ IF kind[r] = "me" THEN SignIn ELSE UNCHANGED uiVars
    /\ UNCHANGED <<store, isRefreshing, kind, hdr, retry, used, held, posting,
                   serverVars, histVars>>

\* POST /auth/login or /auth/register answers with a new pair (createTokens).
AnswerTokens(r) ==
    /\ pc[r] = "sent" /\ Accepts(r) /\ kind[r] \in {"login", "register"}
    /\ issued < MaxTokens
    /\ issued' = issued + 1
    /\ rows' = rows \cup {issued + 1}
    /\ held' = [held EXCEPT ![r] = issued + 1]
    /\ pc' = [pc EXCEPT ![r] = "keep"]
    /\ UNCHANGED <<store, isRefreshing, kind, hdr, retry, used, posting,
                   uiVars, expired, lapsed, histVars>>

\* Any failure but 401: 4xx, 5xx, no network, the 10 s time-out of the axios
\* instance.  A row createTokens inserted before such a failure is never heard of.
AnswerError(r) ==
    /\ pc[r] = "sent"
    /\ pc' = [pc EXCEPT ![r] = AfterReject(r)]
    /\ isLoading' = LoadingAfterReject({r})
    /\ UNCHANGED <<store, isRefreshing, kind, hdr, retry, used, held, posting,
                   isAuthenticated, isInitialized, serverVars, histVars>>

\* Variation: the leader is chosen without looking at isRefreshing.
Answer401_NoQueue(r) ==
    /\ pc[r] = "sent" /\ ~Accepts(r) /\ ~retry[r]
    /\ pc' = [pc EXCEPT ![r] = "lead"]
    /\ retry' = [retry EXCEPT ![r] = TRUE]
    /\ isRefreshing' = TRUE
    /\ UNCHANGED <<store, kind, hdr, used, held, posting, uiVars, serverVars, histVars>>

\* Variation: _retry is not looked at.
Answer401_RetriesAgain(r) ==
    /\ pc[r] = "sent" /\ ~Accepts(r)
    /\ \/ /\ isRefreshing
          /\ pc' = [pc EXCEPT ![r] = "queued"]
          /\ UNCHANGED <<retry, isRefreshing>>
       \/ /\ ~isRefreshing
          /\ pc' = [pc EXCEPT ![r] = "lead"]
          /\ retry' = [retry EXCEPT ![r] = TRUE]
          /\ isRefreshing' = TRUE
    /\ UNCHANGED <<store, kind, hdr, used, held, posting, uiVars, serverVars, histVars>>

\* 401: the response interceptor rejects a request that was already retried, queues
\* it behind a running refresh, or makes it the leader of one.
Answer401(r) ==
    /\ pc[r] = "sent" /\ ~Accepts(r)
    /\ \/ /\ retry[r]
          /\ pc' = [pc EXCEPT ![r] = AfterReject(r)]
          /\ isLoading' = LoadingAfterReject({r})
          /\ UNCHANGED <<retry, isRefreshing>>
       \/ /\ ~retry[r] /\ isRefreshing
          /\ pc' = [pc EXCEPT ![r] = "queued"]
          /\ UNCHANGED <<retry, isRefreshing, isLoading>>
       \/ /\ ~retry[r] /\ ~isRefreshing
          /\ pc' = [pc EXCEPT ![r] = "lead"]
          /\ retry' = [retry EXCEPT ![r] = TRUE]
          /\ isRefreshing' = TRUE
          /\ UNCHANGED isLoading
    /\ UNCHANGED <<store, kind, hdr, used, held, posting,
                   isAuthenticated, isInitialized, serverVars, histVars>>

-----------------------------------------------------------------------------
(* The refresh cycle.                                                      *)

failedQueue == {q \in Calls : pc[q] = "queued"}

\* The catch block up to its await: processQueue(refreshError) rejects the queue.
FailRefresh(r) ==
    /\ pc' = [q \in Calls |-> IF q = r THEN "fail"
                              ELSE IF q \in failedQueue THEN AfterReject(q) ELSE pc[q]]
    /\ isLoading' = LoadingAfterReject(failedQueue)

\* The leader resumes from getTokens.
LeaderReadsTokens(r) ==
    /\ pc[r] = "lead"
    /\ \/ store = 0 /\ FailRefresh(r) /\ UNCHANGED used
       \/ /\ store # 0
          /\ pc' = [pc EXCEPT ![r] = "refresh"]
          /\ used' = [used EXCEPT ![r] = store]
          /\ UNCHANGED isLoading
    /\ UNCHANGED <<store, isRefreshing, kind, hdr, retry, held, posting,
                   isAuthenticated, isInitialized, serverVars, histVars>>

\* Variation: the old row is left alone.
RefreshRotates_KeepsOld(r) ==
    /\ pc[r] = "refresh"
    /\ used[r] \in rows \ lapsed
    /\ issued < MaxTokens
    /\ issued' = issued + 1
    /\ rows' = rows \cup {issued + 1}
    /\ held' = [held EXCEPT ![r] = issued + 1]
    /\ pc' = [pc EXCEPT ![r] = "rotated"]
    /\ UNCHANGED <<store, isRefreshing, kind, hdr, retry, used, posting,
                   uiVars, expired, lapsed, histVars>>

\* POST /auth/refresh replaces the row; its answer is on the way.
RefreshRotates(r) ==
    /\ pc[r] = "refresh"
    /\ used[r] \in rows \ lapsed
    /\ issued < MaxTokens
    /\ issued' = issued + 1
    /\ rows' = (rows \ {used[r]}) \cup {issued + 1}
    /\ held' = [held EXCEPT ![r] = issued + 1]
    /\ pc' = [pc EXCEPT ![r] = "rotated"]
    /\ UNCHANGED <<store, isRefreshing, kind, hdr, retry, used, posting,
                   uiVars, expired, lapsed, histVars>>

\* POST /auth/refresh deletes the old row and fails to insert the new one: 500.
RefreshHalfDone(r) ==
    /\ pc[r] = "refresh"
    /\ used[r] \in rows \ lapsed
    /\ rows' = rows \ {used[r]}
    /\ FailRefresh(r)
    /\ UNCHANGED <<store, isRefreshing, kind, hdr, retry, used, held, posting,
                   isAuthenticated, isInitialized, issued, expired, lapsed,
                   restarts, orphaned>>

\* No row, an expired one, a failing query, or the answer never arrives.
RefreshFails(r) ==
    /\ pc[r] \in {"refresh", "rotated"}
    /\ FailRefresh(r)
    /\ UNCHANGED <<store, isRefreshing, kind, hdr, retry, used, held, posting,
                   isAuthenticated, isInitialized, serverVars, histVars>>

RefreshAnswered(r) ==
    /\ pc[r] = "rotated"
    /\ pc' = [pc EXCEPT ![r] = "save"]
    /\ UNCHANGED <<store, isRefreshing, kind, hdr, retry, used, held, posting,
                   uiVars, serverVars, histVars>>

\* Variation: the replays run without saveTokens.
LeaderSaves_NotStored(r) ==
    LET replayed == {r} \cup failedQueue IN
    /\ pc[r] = "save"
    /\ pc' = [q \in Calls |-> IF q \in replayed THEN "attach" ELSE pc[q]]
    /\ hdr' = [q \in Calls |-> IF q \in replayed THEN held[r] ELSE hdr[q]]
    /\ isRefreshing' = FALSE
    /\ UNCHANGED <<store, kind, retry, used, held, posting, uiVars, serverVars, histVars>>

\* Variation: processQueue is not called after a refresh that succeeded.
LeaderSaves_QueueForgotten(r) ==
    /\ pc[r] = "save"
    /\ store' = held[r]
    /\ pc' = [pc EXCEPT ![r] = "attach"]
    /\ hdr' = [hdr EXCEPT ![r] = held[r]]
    /\ isRefreshing' = FALSE
    /\ UNCHANGED <<kind, retry, used, held, posting, uiVars, serverVars, histVars>>

\* saveTokens is done: processQueue(null, token) replays the queue and the leader
\* replays its own request; the promise of that replay is not awaited, so the
\* finally block resets isRefreshing in the same step.
LeaderSaves(r) ==
    LET replayed == {r} \cup failedQueue IN
    /\ pc[r] = "save"
    /\ store' = held[r]
    /\ pc' = [q \in Calls |-> IF q \in replayed THEN "attach" ELSE pc[q]]
    /\ hdr' = [q \in Calls |-> IF q \in replayed THEN held[r] ELSE hdr[q]]
    /\ isRefreshing' = FALSE
    /\ UNCHANGED <<kind, retry, used, held, posting, uiVars, serverVars, histVars>>

\* Variation: the catch block emits no sign-out.
LeaderClears_NoSignout(r) ==
    /\ pc[r] = "fail"
    /\ store' = 0
    /\ pc' = [pc EXCEPT ![r] = AfterReject(r)]
    /\ isLoading' = LoadingAfterReject({r})
    /\ isRefreshing' = FALSE
    /\ UNCHANGED <<kind, hdr, retry, used, held, posting, isAuthenticated,
                   isInitialized, serverVars, histVars>>

\* clearTokens is done: emit('signout') starts logout(), the leader is rejected.
\* Calls queued since processQueue ran stay in failedQueue.
LeaderClears(r) ==
    /\ pc[r] = "fail"
    /\ store' = 0
    /\ posting' = posting + 1
    /\ pc' = [pc EXCEPT ![r] = AfterReject(r)]
    /\ isLoading' = LoadingAfterReject({r})
    /\ isRefreshing' = FALSE
    /\ UNCHANGED <<kind, hdr, retry, used, held, isAuthenticated, isInitialized,
                   serverVars, histVars>>

-----------------------------------------------------------------------------
(* The session operations of authStore after their request.                *)

\* saveTokens of login and register; login then signs in.
KeepTokens(r) ==
    /\ pc[r] = "keep"
    /\ store' = held[r]
    /\ \/ kind[r] = "login" /\ pc' = [pc EXCEPT ![r] = "done"] /\ SignIn
       \/ /\ kind[r] = "register" /\ pc' = [pc EXCEPT ![r] = "verify"]
          /\ UNCHANGED uiVars
    /\ UNCHANGED <<isRefreshing, kind, hdr, retry, used, held, posting,
                   serverVars, histVars>>

\* register reads the tokens back and signs in only if they are the ones it saved.
VerifyTokens(r) ==
    /\ pc[r] = "verify"
    /\ \/ store = held[r] /\ pc' = [pc EXCEPT ![r] = "done"] /\ SignIn
       \/ /\ store # held[r] /\ pc' = [pc EXCEPT ![r] = "drop"]
          /\ UNCHANGED uiVars
    /\ UNCHANGED <<store, isRefreshing, kind, hdr, retry, used, held, posting,
                   serverVars, histVars>>

\* clearTokens of loadUser's catch block and of a registration that failed to verify.
DropTokens(r) ==
    /\ pc[r] = "drop"
    /\ store' = 0
    /\ pc' = [pc EXCEPT ![r] = "done"]
    /\ isLoading' = FALSE
    /\ IF kind[r] = "me" THEN isAuthenticated' = FALSE /\ isInitialized' = TRUE
                         ELSE UNCHANGED <<isAuthenticated, isInitialized>>
    /\ UNCHANGED <<isRefreshing, kind, hdr, retry, used, held, posting,
                   serverVars, histVars>>

\* The Sign Out button of ProfileScreen.
TapLogout ==
    /\ AppShown /\ posting < MaxLogouts
    /\ posting' = posting + 1
    /\ UNCHANGED <<store, isRefreshing, pc, kind, hdr, retry, used, held, uiVars,
                   serverVars, histVars>>

\* Variation: the continuation of logout() runs a second time.
LogoutFinishes_Twice ==
    /\ posting' = posting - 1
    /\ store' = 0
    /\ isAuthenticated' = FALSE
    /\ UNCHANGED <<isRefreshing, pc, kind, hdr, retry, used, held, isLoading,
                   isInitialized, serverVars, histVars>>

\* logout() after its POST, which carries no refresh_token (so the server deletes
\* no row) and whose outcome is ignored: clearTokens, then the store is reset.
LogoutFinishes ==
    /\ posting > 0
    /\ posting' = posting - 1
    /\ store' = 0
    /\ isAuthenticated' = FALSE
    /\ UNCHANGED <<isRefreshing, pc, kind, hdr, retry, used, held, isLoading,
                   isInitialized, serverVars, histVars>>

-----------------------------------------------------------------------------
(* The environment.                                                        *)

AccessExpires ==
    /\ \E t \in 1 .. issued : t \notin expired /\ expired' = expired \cup {t}
    /\ UNCHANGED <<clientVars, uiVars, issued, rows, lapsed, histVars>>

RefreshLapses ==
    /\ \E t \in rows \ lapsed : lapsed' = lapsed \cup {t}
    /\ UNCHANGED <<clientVars, uiVars, issued, rows, expired, histVars>>

\* Calls whose refresh token may already be gone from the server.
InRotation == {r \in Calls : pc[r] \in {"rotated", "save", "fail"}}

\* Calls that have sent POST /auth/refresh.
Refreshing == {r \in Calls : pc[r] = "refresh"} \cup InRotation

\* The app is killed and started again: memory is lost, the keychain is not.  A POST
\* /auth/refresh that it had sent may still be on its way.
Restart ==
    /\ restarts < MaxRestarts
    /\ restarts' = restarts + 1
    /\ orphaned' = orphaned \cup {used[r] : r \in Refreshing}
    /\ pc' = [r \in Calls |-> IF pc[r] = "idle" THEN "idle" ELSE "done"]
    /\ isRefreshing' = FALSE
    /\ posting' = 0
    /\ isAuthenticated' = FALSE /\ isLoading' = FALSE /\ isInitialized' = FALSE
    /\ UNCHANGED <<store, kind, hdr, retry, used, held, serverVars>>

\* The server takes a refresh of an app that was killed: the old row goes, and of the
\* new one nobody hears.
LateRefresh ==
    /\ \E t \in orphaned \cap (rows \ lapsed) : rows' = rows \ {t}
    /\ UNCHANGED <<clientVars, uiVars, issued, expired, lapsed, histVars>>

-----------------------------------------------------------------------------

\* The call's request ends: an answer, or the time-out of the axios instance.
Answered(r) == AnswerOk(r) \/ AnswerTokens(r) \/ AnswerError(r) \/ Answer401(r)

\* The leader's POST /auth/refresh gets on.
RefreshGoesOn(r) ==
    RefreshRotates(r) \/ RefreshHalfDone(r) \/ RefreshFails(r) \/ RefreshAnswered(r)

\* What the code does when a keychain operation is done.
Continues(r) ==
    \/ LoadUserReadsTokens(r) \/ Attach(r) \/ LeaderReadsTokens(r)
    \/ LeaderSaves(r) \/ LeaderClears(r)
    \/ KeepTokens(r) \/ VerifyTokens(r) \/ DropTokens(r)

Progress(r) == Answered(r) \/ RefreshGoesOn(r) \/ Continues(r)

Next ==
    \/ \E r \in Calls : StartData(r) \/ StartForm(r) \/ StartLoadUser(r) \/ Progress(r)
    \/ TapLogout \/ LogoutFinishes
    \/ AccessExpires \/ RefreshLapses \/ Restart \/ LateRefresh

Spec == Init /\ [][Next]_vars

\* A request ends: the axios instance has a time-out of 10 s.  A keychain operation
\* ends if the native keychain answers (OperationsEnd of module Keychain).  logout()
\* ends for both reasons.  The POST to /auth/refresh bypasses the instance and has no
\* time-out of its own: that it ends is an assumption on the network stack.  The user
\* and the clock owe nothing.
Fairness ==
    /\ \A r \in Calls : WF_vars(Answered(r)) /\ WF_vars(Continues(r))
    /\ \A r \in Calls : WF_vars(RefreshGoesOn(r))
    /\ WF_vars(LogoutFinishes)

FairSpec == Spec /\ Fairness
-----------------------------------------------------------------------------
(* Properties.                                                             *)

\* isRefreshing of client.ts guards one refresh cycle at a time: the flag is up
\* exactly while some call is between its 401 and its finally block, and no two
\* calls ever are.
SingleFlight ==
    /\ isRefreshing <=> \E r \in Calls : pc[r] \in LeaderPhases
    /\ \A r, q \in Calls :
          pc[r] \in LeaderPhases /\ pc[q] \in LeaderPhases => r = q

\* The pair in the keychain can still be refreshed: the server has a row for it,
\* however logins, sign-outs and refresh cycles interleave.  The exceptions are
\* the refresh cycle that is replacing it right now and one the app was killed in.
StoredSessionLive ==
    \/ store = 0
    \/ store \in rows
    \/ store \in orphaned
    \/ \E r \in InRotation : used[r] = store

\* Rotation makes a refresh token good for one use: POST /auth/refresh is sent
\* only with a token the server still has a row for (or one a killed app left).
RefreshSentWithLiveToken ==
    [][\A r \in Calls : pc[r] = "lead" /\ pc'[r] = "refresh"
                            => used'[r] \in rows \cup orphaned]_vars

\* The _retry flag keeps a request from refreshing for ever: through whatever 401s,
\* replays and queues it goes, one API call is given at most one token pair.
OnePairPerCall ==
    [][\A r \in Calls : held[r] # 0 => held'[r] = held[r]]_vars

\* The refresh tokens that were exchanged for the pair their call was given.
Replaced == {used[r] : r \in {q \in Calls : used[q] # 0 /\ held[q] # 0}}

Table == INSTANCE RefreshTokens WITH ever <- 1 .. issued, replaced <- Replaced

\* The server that the app sees takes only the steps of the table refresh_tokens: pairs
\* are inserted once, and a refresh gives out a pair when the row of the old one is gone.
SeesTokenTable == Table!Spec

\* Left in failedQueue by a refresh that failed: processQueue ran before the call
\* was queued, and the tokens are gone.
Stranded(r) == pc[r] = "queued" /\ ~isRefreshing /\ store = 0

\* Every API call ends for its caller, whatever 401s, refreshes and replays it goes
\* through, except a call stranded by a failed refresh: no retry loop, no deadlock
\* between the queue and the leader.
CallsSettle ==
    \A r \in Calls : pc[r] # "idle" ~> (pc[r] = "done" \/ Stranded(r))

\* The loader goes away, whichever call of the app is refreshed, queued or rejected while
\* login, register or loadUser waits, unless that very request is stranded.
LoaderEnds ==
    isLoading ~> \/ ~isLoading
                 \/ \E r \in Calls : Stranded(r) /\ kind[r] \in FormKinds \cup {"me"}

\* A refresh that fails ends the session: the sign-out event reaches the store.
FailedRefreshSignsOut ==
    \A r \in Calls : pc[r] = "fail" ~> ~isAuthenticated

\* Every API call returns to its caller (QA_FULL_MANUAL_CHECKLIST.md: "API calls
\* return: < 2 seconds"); a call queued while the catch block of the interceptor
\* awaits clearTokens is never resolved nor rejected.
CallsReturn == \A r \in Calls : pc[r] # "idle" ~> pc[r] = "done"

Quiet == posting = 0 /\ \A r \in Calls : pc[r] \in {"idle", "done", "queued"}

\* Once signed out, with nothing in progress, the keychain is empty
\* (QA_FULL_MANUAL_CHECKLIST.md: "Logout works and returns to Login"); a refresh
\* that answers after logout() cleared the tokens saves new ones.
SignedOutMeansNoTokens ==
    Quiet /\ isInitialized /\ ~isAuthenticated => store = 0
=============================================================================
