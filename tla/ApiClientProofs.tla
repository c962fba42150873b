--------------------------- MODULE ApiClientProofs ---------------------------
(***************************************************************************)
(* TLAPS proofs about ApiClient, for every set of calls and every bound.   *)
(***************************************************************************)
EXTENDS ApiClient, TLAPS

-----------------------------------------------------------------------------
(* Type correctness.                                                       *)

LEMMA PhaseFacts ==
    /\ LeaderPhases \subseteq Phases
    /\ \A k \in Calls : AfterReject(k) \in {"drop", "done"}
  BY DEF LeaderPhases, Phases, AfterReject

LEMMA InitTypeOK == Init => TypeOK
  <1>1. Init => FlagsOK
    BY DEF Init, FlagsOK
  <1>2. Init => DataOK
    BY ConstantsAssumption DEF Init, DataOK, Tokens, Phases, Kinds
  <1>3. QED
    BY <1>1, <1>2 DEF TypeOK

\* The steps of one call keep every variable in its type.
LEMMA ProgressTypeOK ==
    ASSUME TypeOK, NEW r \in Calls, Progress(r)
    PROVE  TypeOK'
  <1> USE ConstantsAssumption DEF TypeOK, FlagsOK, DataOK, Tokens, Kinds, uiVars, serverVars, histVars
  <1>1. CASE LoadUserReadsTokens(r)
    BY <1>1 DEF LoadUserReadsTokens, Phases
  <1>2. CASE Attach(r)
    BY <1>2 DEF Attach, Phases
  <1>3. CASE AnswerOk(r)
    BY <1>3 DEF AnswerOk, SignIn, Phases
  <1>4. CASE AnswerTokens(r)
    BY <1>4 DEF AnswerTokens, Phases
  <1>5. CASE AnswerError(r)
    BY <1>5 DEF AnswerError, AfterReject, LoadingAfterReject, Phases
  <1>6. CASE Answer401(r)
    BY <1>6 DEF Answer401, AfterReject, LoadingAfterReject, Phases, LeaderPhases
  <1>a. ASSUME FailRefresh(r)
        PROVE  pc' \in [Calls -> Phases] /\ isLoading' \in BOOLEAN
    BY <1>a DEF FailRefresh, AfterReject, LoadingAfterReject, Phases, LeaderPhases
  <1>7. CASE LeaderReadsTokens(r)
    BY <1>7, <1>a DEF LeaderReadsTokens, Phases, LeaderPhases
  <1>8. CASE RefreshRotates(r)
    <2>1. FlagsOK'
      BY <1>8 DEF RefreshRotates, Phases, LeaderPhases
    <2>2. DataOK'
      <3>0. issued + 1 \in Tokens
        BY <1>8 DEF RefreshRotates
      <3>1. issued' \in Tokens /\ rows' \subseteq Tokens
        <4> HIDE DEF Tokens
        <4> QED BY <1>8, <3>0 DEF RefreshRotates
      <3>2. pc' \in [Calls -> Phases] /\ held' \in [Calls -> Tokens]
        BY <1>8 DEF RefreshRotates, Phases, LeaderPhases
      <3>3. QED
        BY <1>8, <3>1, <3>2 DEF RefreshRotates
    <2>3. QED
      BY <2>1, <2>2
  <1>9. CASE RefreshHalfDone(r)
    BY <1>9, <1>a DEF RefreshHalfDone
  <1>10. CASE RefreshFails(r)
    BY <1>10, <1>a DEF RefreshFails
  <1>11. CASE RefreshAnswered(r)
    BY <1>11 DEF RefreshAnswered, Phases, LeaderPhases
  <1>12. CASE LeaderSaves(r)
    BY <1>12 DEF LeaderSaves, Phases
  <1>13. CASE LeaderClears(r)
    <2>1. FlagsOK'
      BY <1>13 DEF LeaderClears, AfterReject, LoadingAfterReject, Phases
    <2>2. DataOK'
      BY <1>13 DEF LeaderClears, AfterReject, LoadingAfterReject, Phases
    <2>3. QED
      BY <2>1, <2>2
  <1>14. CASE KeepTokens(r)
    BY <1>14 DEF KeepTokens, SignIn, Phases
  <1>15. CASE VerifyTokens(r)
    BY <1>15 DEF VerifyTokens, SignIn, Phases
  <1>16. CASE DropTokens(r)
    <2>1. FlagsOK'
      BY <1>16 DEF DropTokens, Phases
    <2>2. DataOK'
      BY <1>16 DEF DropTokens, Phases
    <2>3. QED
      BY <2>1, <2>2
  <1>17. QED
    BY <1>1, <1>2, <1>3, <1>4, <1>5, <1>6, <1>7, <1>8, <1>9, <1>10, <1>11, <1>12,
       <1>13, <1>14, <1>15, <1>16 DEF Progress, Answered, RefreshGoesOn, Continues

LEMMA NextTypeOK == TypeOK /\ [Next]_vars => TypeOK'
  <1> SUFFICES ASSUME TypeOK, [Next]_vars PROVE TypeOK'
    OBVIOUS
  <1> USE ConstantsAssumption DEF TypeOK, FlagsOK, DataOK, Tokens, Kinds, clientVars, uiVars,
                                  serverVars, histVars
  <1>1. ASSUME NEW r \in Calls, StartData(r) PROVE TypeOK'
    BY <1>1 DEF StartData, Phases
  <1>2. ASSUME NEW r \in Calls, StartForm(r) PROVE TypeOK'
    BY <1>2 DEF StartForm, FormKinds, Phases
  <1>3. ASSUME NEW r \in Calls, StartLoadUser(r) PROVE TypeOK'
    BY <1>3 DEF StartLoadUser, Phases
  <1>4. ASSUME NEW r \in Calls, Progress(r) PROVE TypeOK'
    BY <1>4, ProgressTypeOK
  <1>5. CASE TapLogout
    BY <1>5 DEF TapLogout
  <1>6. CASE LogoutFinishes
    <2>1. FlagsOK'
      BY <1>6 DEF LogoutFinishes
    <2>2. DataOK'
      BY <1>6 DEF LogoutFinishes
    <2>3. QED
      BY <2>1, <2>2
  <1>7. CASE AccessExpires
    BY <1>7 DEF AccessExpires
  <1>8. CASE RefreshLapses
    BY <1>8 DEF RefreshLapses
  <1>9. CASE Restart
    <2>1. FlagsOK'
      BY <1>9 DEF Restart, Refreshing, InRotation, Phases
    <2>2. DataOK'
      <3>1. orphaned' \subseteq Tokens
        BY <1>9 DEF Restart, Refreshing, InRotation
      <3>2. pc' \in [Calls -> Phases]
        BY <1>9 DEF Restart, Phases
      <3>3. restarts' \in Nat /\ posting' \in Nat
        BY <1>9 DEF Restart
      <3>4. QED
        BY <1>9, <3>1, <3>2, <3>3 DEF Restart
    <2>3. QED
      BY <2>1, <2>2
  <1>10. CASE LateRefresh
    BY <1>10 DEF LateRefresh
  <1>11. CASE UNCHANGED vars
    BY <1>11 DEF vars
  <1>12. QED
    BY <1>1, <1>2, <1>3, <1>4, <1>5, <1>6, <1>7, <1>8, <1>9, <1>10, <1>11 DEF Next

\* Every variable of the client, the store and the server keeps its type.
THEOREM TypeCorrect == Spec => []TypeOK
  BY InitTypeOK, NextTypeOK, PTL DEF Spec

-----------------------------------------------------------------------------
(* One refresh cycle at a time.                                            *)

\* A step that moves no call into or out of a refresh cycle and leaves the flag
\* alone keeps SingleFlight.
LEMMA SameLeaders ==
    ASSUME SingleFlight, isRefreshing' = isRefreshing,
           \A q \in Calls : pc'[q] \in LeaderPhases <=> pc[q] \in LeaderPhases
    PROVE  SingleFlight'
  BY DEF SingleFlight

\* The leader's last step lowers the flag and leaves no leader.
LEMMA LeaderLeaves ==
    ASSUME SingleFlight, NEW r \in Calls, pc[r] \in LeaderPhases,
           isRefreshing' = FALSE, pc'[r] \notin LeaderPhases,
           \A q \in Calls \ {r} : pc'[q] \in LeaderPhases => pc[q] \in LeaderPhases
    PROVE  SingleFlight'
  BY DEF SingleFlight

LEMMA ProgressSingleFlight ==
    ASSUME TypeOK, SingleFlight, NEW r \in Calls, Progress(r)
    PROVE  SingleFlight'
  <1> USE DEF TypeOK, DataOK
  <1>1. CASE LoadUserReadsTokens(r) \/ Attach(r) \/ AnswerOk(r) \/ AnswerTokens(r)
    BY <1>1, SameLeaders DEF LoadUserReadsTokens, Attach, AnswerOk, AnswerTokens,
                             LeaderPhases
  <1>2. CASE AnswerError(r)
    BY <1>2, SameLeaders DEF AnswerError, AfterReject, LeaderPhases
  <1>3. CASE Answer401(r)
    <2>1. CASE retry[r] \/ isRefreshing
      BY <1>3, <2>1, SameLeaders DEF Answer401, AfterReject, LeaderPhases
    <2>2. CASE ~retry[r] /\ ~isRefreshing
      <3>1. pc' = [pc EXCEPT ![r] = "lead"] /\ isRefreshing'
        BY <1>3, <2>2 DEF Answer401
      <3>2. \A q \in Calls : pc[q] \notin LeaderPhases
        BY <2>2 DEF SingleFlight
      <3>3. \A q \in Calls : pc'[q] \in LeaderPhases <=> q = r
        BY <3>1, <3>2 DEF LeaderPhases
      <3>4. QED
        BY <3>1, <3>3 DEF SingleFlight
    <2>3. QED
      BY <2>1, <2>2
  <1>4. ASSUME FailRefresh(r), pc[r] \in LeaderPhases, isRefreshing' = isRefreshing
        PROVE  SingleFlight'
    BY <1>4, SameLeaders DEF FailRefresh, failedQueue, AfterReject, LeaderPhases
  <1>5. CASE LeaderReadsTokens(r)
    <2>1. CASE store = 0
      BY <1>5, <2>1, <1>4 DEF LeaderReadsTokens, LeaderPhases
    <2>2. CASE store # 0
      BY <1>5, <2>2, SameLeaders DEF LeaderReadsTokens, LeaderPhases
    <2>3. QED
      BY <2>1, <2>2
  <1>6. CASE RefreshRotates(r) \/ RefreshAnswered(r)
    BY <1>6, SameLeaders DEF RefreshRotates, RefreshAnswered, LeaderPhases
  <1>7. CASE RefreshHalfDone(r) \/ RefreshFails(r)
    BY <1>7, <1>4 DEF RefreshHalfDone, RefreshFails, LeaderPhases
  <1>8. CASE LeaderSaves(r)
    BY <1>8, LeaderLeaves DEF LeaderSaves, failedQueue, LeaderPhases
  <1>9. CASE LeaderClears(r)
    BY <1>9, LeaderLeaves DEF LeaderClears, AfterReject, LeaderPhases
  <1>10. CASE KeepTokens(r) \/ VerifyTokens(r) \/ DropTokens(r)
    BY <1>10, SameLeaders DEF KeepTokens, VerifyTokens, DropTokens, LeaderPhases
  <1>11. QED
    BY <1>1, <1>2, <1>3, <1>5, <1>6, <1>7, <1>8, <1>9, <1>10
       DEF Progress, Answered, RefreshGoesOn, Continues

LEMMA NextSingleFlight == TypeOK /\ SingleFlight /\ [Next]_vars => SingleFlight'
  <1> SUFFICES ASSUME TypeOK, SingleFlight, [Next]_vars PROVE SingleFlight'
    OBVIOUS
  <1> USE DEF TypeOK, DataOK
  <1>1. ASSUME NEW r \in Calls, StartData(r) \/ StartForm(r) \/ StartLoadUser(r)
        PROVE  SingleFlight'
    BY <1>1, SameLeaders DEF StartData, StartForm, StartLoadUser, LeaderPhases
  <1>2. ASSUME NEW r \in Calls, Progress(r) PROVE SingleFlight'
    BY <1>2, ProgressSingleFlight
  <1>3. CASE TapLogout \/ LogoutFinishes \/ AccessExpires \/ RefreshLapses \/ LateRefresh
    BY <1>3, SameLeaders DEF TapLogout, LogoutFinishes, AccessExpires, RefreshLapses,
                             LateRefresh, clientVars
  <1>4. CASE Restart
    <2>1. \A q \in Calls : pc'[q] \notin LeaderPhases
      BY <1>4 DEF Restart, LeaderPhases
    <2>2. isRefreshing' = FALSE
      BY <1>4 DEF Restart
    <2>3. QED
      BY <2>1, <2>2 DEF SingleFlight
  <1>5. CASE UNCHANGED vars
    BY <1>5, SameLeaders DEF vars, clientVars
  <1>6. QED
    BY <1>1, <1>2, <1>3, <1>4, <1>5 DEF Next

\* However the responses of the calls interleave, at most one of them is between
\* its 401 and its finally block, and isRefreshing says exactly whether one is.
THEOREM OneRefreshAtATime == Spec => []SingleFlight
  <1>1. Init => SingleFlight
    BY DEF Init, SingleFlight, LeaderPhases
  <1>2. QED
    BY <1>1, NextSingleFlight, TypeCorrect, PTL DEF Spec

-----------------------------------------------------------------------------
(* The stored refresh token stays good.                                    *)
(*                                                                         *)
(* StoredSessionLive is not inductive alone: a pair that a response gave   *)
(* to a call but that is not in the keychain yet has to have its row too,  *)
(* and no refresh may be using it.  That holds because pair numbers only   *)
(* grow (NumbersIssued) and a refresh uses what the keychain holds.        *)

NumbersIssued ==
    /\ store <= issued
    /\ \A r \in Calls : used[r] <= issued /\ held[r] <= issued
    /\ \A t \in orphaned : t <= issued

Unsaved == {r \in Calls : pc[r] \in {"keep", "rotated", "save"}}

UnsavedPairsLive ==
    \A r \in Unsaved :
        /\ held[r] \in rows
        /\ held[r] # store /\ held[r] # 0 /\ held[r] \notin orphaned
        /\ \A q \in Calls : used[q] # held[r]
        /\ \A q \in Unsaved : held[q] = held[r] => q = r

SessionInv == NumbersIssued /\ UnsavedPairsLive /\ StoredSessionLive

\* Steps that touch neither the pairs nor the rows and start or end no rotation.
LEMMA SamePairs ==
    ASSUME SessionInv,
           UNCHANGED <<store, used, held, issued, rows, orphaned>>,
           Unsaved' \subseteq Unsaved, InRotation \subseteq InRotation'
    PROVE  SessionInv'
  <1>1. NumbersIssued'
    BY DEF SessionInv, NumbersIssued
  <1>2. UnsavedPairsLive'
    BY DEF SessionInv, UnsavedPairsLive
  <1>3. StoredSessionLive'
    BY DEF SessionInv, StoredSessionLive
  <1>4. QED
    BY <1>1, <1>2, <1>3 DEF SessionInv

\* clearTokens: the keychain is empty.
LEMMA TokensCleared ==
    ASSUME SessionInv, TypeOK, store' = 0,
           UNCHANGED <<used, held, issued, rows, orphaned>>,
           Unsaved' \subseteq Unsaved
    PROVE  SessionInv'
  <1>1. NumbersIssued'
    BY DEF SessionInv, NumbersIssued, TypeOK, DataOK, Tokens
  <1>2. UnsavedPairsLive'
    BY DEF SessionInv, UnsavedPairsLive
  <1>3. StoredSessionLive'
    BY DEF StoredSessionLive
  <1>4. QED
    BY <1>1, <1>2, <1>3 DEF SessionInv

\* saveTokens: a call stores the pair it was given.
LEMMA TokensSaved ==
    ASSUME SessionInv, NEW r \in Unsaved, store' = held[r],
           UNCHANGED <<used, held, issued, rows, orphaned>>,
           Unsaved' \subseteq Unsaved \ {r}
    PROVE  SessionInv'
  <1>1. NumbersIssued'
    BY DEF SessionInv, NumbersIssued, Unsaved
  <1>2. UnsavedPairsLive'
    BY DEF SessionInv, UnsavedPairsLive
  <1>3. StoredSessionLive'
    BY DEF SessionInv, StoredSessionLive, UnsavedPairsLive
  <1>4. QED
    BY <1>1, <1>2, <1>3 DEF SessionInv

\* A response issues a new pair to call r; at most the row of the pair that r
\* itself is refreshing goes away.
LEMMA PairIssued ==
    ASSUME SessionInv, TypeOK, NEW r \in Calls, r \notin Unsaved,
           issued' = issued + 1, held' = [held EXCEPT ![r] = issued + 1],
           UNCHANGED <<store, used, orphaned>>,
           Unsaved' \subseteq Unsaved \cup {r},
           InRotation \subseteq InRotation',
           \/ rows' = rows \cup {issued + 1}
           \/ rows' = (rows \ {used[r]}) \cup {issued + 1} /\ r \in InRotation'
    PROVE  SessionInv'
  <1> USE DEF TypeOK, DataOK, Tokens
  <1>0. /\ held'[r] = issued + 1
        /\ \A q \in Calls : q # r => held'[q] = held[q]
        /\ issued + 1 # 0 /\ issued + 1 # store /\ issued + 1 \notin orphaned
        /\ \A q \in Calls : used[q] # issued + 1 /\ held[q] # issued + 1
    BY ConstantsAssumption DEF SessionInv, NumbersIssued
  <1>1. NumbersIssued'
    BY <1>0, ConstantsAssumption DEF SessionInv, NumbersIssued
  <1>2. UnsavedPairsLive'
    <2> SUFFICES ASSUME NEW q \in Unsaved'
                 PROVE  /\ held'[q] \in rows'
                        /\ held'[q] # store' /\ held'[q] # 0 /\ held'[q] \notin orphaned'
                        /\ \A p \in Calls : used'[p] # held'[q]
                        /\ \A p \in Unsaved' : held'[p] = held'[q] => p = q
      BY DEF UnsavedPairsLive
    <2>1. q \in Calls /\ Unsaved' \subseteq Calls
      BY DEF Unsaved
    <2>2. CASE q = r
      BY <2>1, <2>2, <1>0
    <2>3. CASE q # r
      <3>1. q \in Unsaved /\ held'[q] = held[q]
        BY <2>1, <2>3, <1>0
      <3>2. held[q] \in rows'
        BY <3>1 DEF SessionInv, UnsavedPairsLive
      <3>3. \A p \in Unsaved' : held'[p] = held'[q] => p = q
        BY <3>1, <2>1, <1>0 DEF SessionInv, UnsavedPairsLive
      <3>4. QED
        BY <3>1, <3>2, <3>3 DEF SessionInv, UnsavedPairsLive
    <2>4. QED
      BY <2>2, <2>3
  <1>3. StoredSessionLive'
    BY DEF SessionInv, StoredSessionLive, InRotation
  <1>4. QED
    BY <1>1, <1>2, <1>3 DEF SessionInv

LEMMA ProgressSessionInv ==
    ASSUME TypeOK, SessionInv, NEW r \in Calls, Progress(r)
    PROVE  SessionInv'
  <1> USE DEF TypeOK, DataOK, Unsaved, InRotation, serverVars, histVars
  <1>1. CASE LoadUserReadsTokens(r) \/ Attach(r) \/ AnswerOk(r) \/ VerifyTokens(r)
    BY <1>1, SamePairs DEF LoadUserReadsTokens, Attach, AnswerOk, VerifyTokens
  <1>2. CASE AnswerError(r) \/ Answer401(r)
    BY <1>2, SamePairs DEF AnswerError, Answer401, AfterReject
  <1>3. CASE AnswerTokens(r)
    BY <1>3, PairIssued DEF AnswerTokens
  <1>4. ASSUME FailRefresh(r), pc[r] \in LeaderPhases
        PROVE  /\ Unsaved' \subseteq Unsaved
               /\ InRotation \subseteq InRotation' /\ r \in InRotation'
    BY <1>4 DEF FailRefresh, failedQueue, AfterReject, LeaderPhases
  <1>5. CASE LeaderReadsTokens(r)
    <2>1. CASE store = 0
      BY <1>5, <2>1, <1>4, SamePairs DEF LeaderReadsTokens, LeaderPhases
    <2>2. CASE store # 0
      <3>1. /\ UNCHANGED <<store, held, issued, rows, orphaned>>
            /\ used' = [used EXCEPT ![r] = store]
            /\ Unsaved' = Unsaved /\ InRotation' = InRotation /\ r \notin InRotation
        BY <1>5, <2>2 DEF LeaderReadsTokens
      <3>2. NumbersIssued'
        BY <3>1 DEF SessionInv, NumbersIssued
      <3>3. UnsavedPairsLive'
        <4> HIDE DEF Unsaved
        <4> QED BY <3>1 DEF SessionInv, UnsavedPairsLive
      <3>4. StoredSessionLive'
        <4> HIDE DEF InRotation
        <4>1. \A q \in InRotation : used'[q] = used[q]
          BY <3>1 DEF InRotation
        <4> QED BY <3>1, <4>1 DEF SessionInv, StoredSessionLive
      <3>5. QED
        BY <3>2, <3>3, <3>4 DEF SessionInv
    <2>3. QED
      BY <2>1, <2>2
  <1>6. CASE RefreshRotates(r)
    BY <1>6, PairIssued DEF RefreshRotates
  <1>7. CASE RefreshHalfDone(r)
    <2>1. /\ UNCHANGED <<store, used, held, issued, orphaned>>
          /\ rows' = rows \ {used[r]}
          /\ Unsaved' \subseteq Unsaved
          /\ InRotation \subseteq InRotation' /\ r \in InRotation'
      BY <1>7, <1>4 DEF RefreshHalfDone, LeaderPhases
    <2>2. NumbersIssued'
      BY <2>1 DEF SessionInv, NumbersIssued
    <2>3. UnsavedPairsLive'
      <3> HIDE DEF Unsaved
      <3> QED BY <2>1 DEF SessionInv, UnsavedPairsLive
    <2>4. StoredSessionLive'
      <3> HIDE DEF InRotation
      <3> QED BY <2>1 DEF SessionInv, StoredSessionLive
    <2>5. QED
      BY <2>2, <2>3, <2>4 DEF SessionInv
  <1>8. CASE RefreshFails(r)
    BY <1>8, <1>4, SamePairs DEF RefreshFails, LeaderPhases
  <1>9. CASE RefreshAnswered(r)
    BY <1>9, SamePairs DEF RefreshAnswered
  <1>10. CASE LeaderSaves(r)
    BY <1>10, TokensSaved DEF LeaderSaves, failedQueue
  <1>11. CASE LeaderClears(r) \/ DropTokens(r)
    BY <1>11, TokensCleared DEF LeaderClears, DropTokens, AfterReject
  <1>12. CASE KeepTokens(r)
    BY <1>12, TokensSaved DEF KeepTokens
  <1>13. QED
    BY <1>1, <1>2, <1>3, <1>5, <1>6, <1>7, <1>8, <1>9, <1>10, <1>11, <1>12
       DEF Progress, Answered, RefreshGoesOn, Continues

LEMMA NextSessionInv == TypeOK /\ SessionInv /\ [Next]_vars => SessionInv'
  <1> SUFFICES ASSUME TypeOK, SessionInv, [Next]_vars PROVE SessionInv'
    OBVIOUS
  <1> USE DEF TypeOK, DataOK, Unsaved, InRotation
  <1>1. ASSUME NEW r \in Calls, StartData(r) \/ StartForm(r) \/ StartLoadUser(r)
        PROVE  SessionInv'
    BY <1>1, SamePairs DEF StartData, StartForm, StartLoadUser, serverVars, histVars
  <1>2. ASSUME NEW r \in Calls, Progress(r) PROVE SessionInv'
    BY <1>2, ProgressSessionInv
  <1>3. CASE TapLogout \/ AccessExpires \/ RefreshLapses
    BY <1>3, SamePairs DEF TapLogout, AccessExpires, RefreshLapses, clientVars,
                           serverVars, histVars
  <1>4. CASE LogoutFinishes
    BY <1>4, TokensCleared DEF LogoutFinishes, serverVars, histVars
  <1>5. CASE Restart
    <2>1. /\ UNCHANGED <<store, used, held, issued, rows>>
          /\ orphaned' = orphaned \cup {used[q] : q \in Refreshing}
          /\ Unsaved' = {}
      BY <1>5 DEF Restart, serverVars
    <2>2. NumbersIssued' /\ UnsavedPairsLive'
      <3>1. Refreshing \subseteq Calls
        BY DEF Refreshing
      <3>2. \A t \in orphaned' : t <= issued'
        BY <2>1, <3>1 DEF SessionInv, NumbersIssued
      <3> QED
        BY <2>1, <3>2 DEF SessionInv, NumbersIssued, UnsavedPairsLive
    <2>3. StoredSessionLive'
      <3> HIDE DEF InRotation
      <3> QED BY <2>1 DEF SessionInv, StoredSessionLive, Refreshing
    <2>4. QED
      BY <2>2, <2>3 DEF SessionInv
  <1>6. CASE LateRefresh
    <2>1. PICK t \in orphaned : rows' = rows \ {t}
      BY <1>6 DEF LateRefresh
    <2>2. /\ UNCHANGED <<store, used, held, issued, orphaned>>
          /\ Unsaved' = Unsaved /\ InRotation' = InRotation
      BY <1>6 DEF LateRefresh, clientVars, histVars
    <2>3. NumbersIssued'
      BY <2>2 DEF SessionInv, NumbersIssued
    <2> HIDE DEF Unsaved, InRotation
    <2>4. UnsavedPairsLive'
      BY <2>1, <2>2 DEF SessionInv, UnsavedPairsLive
    <2>5. StoredSessionLive'
      BY <2>1, <2>2 DEF SessionInv, StoredSessionLive
    <2>6. QED
      BY <2>3, <2>4, <2>5 DEF SessionInv
  <1>7. CASE UNCHANGED vars
    BY <1>7, SamePairs DEF vars, clientVars, serverVars, histVars
  <1>8. QED
    BY <1>1, <1>2, <1>3, <1>4, <1>5, <1>6, <1>7 DEF Next

LEMMA SessionInvariant == Spec => []SessionInv
  <1>1. Init => SessionInv
    BY DEF Init, SessionInv, NumbersIssued, UnsavedPairsLive, Unsaved,
           StoredSessionLive
  <1>2. QED
    BY <1>1, NextSessionInv, TypeCorrect, PTL DEF Spec

\* The keychain never keeps a refresh token the server has dropped, unless the
\* refresh that is replacing it is still running or died with the app.
THEOREM StoredSessionStaysLive == Spec => []StoredSessionLive
  BY SessionInvariant, PTL DEF SessionInv

-----------------------------------------------------------------------------

\* Only the leader's getTokens step sends POST /auth/refresh.
LEMMA SendStep ==
    ASSUME TypeOK, SingleFlight, SessionInv, [Next]_vars, NEW r \in Calls,
           pc[r] = "lead", pc'[r] = "refresh"
    PROVE  used'[r] \in rows \cup orphaned
  <1> USE DEF TypeOK, DataOK
  <1>1. LeaderReadsTokens(r) /\ store # 0
    <2>1. ASSUME NEW q \in Calls, StartData(q) \/ StartForm(q) \/ StartLoadUser(q)
          PROVE  FALSE
      BY <2>1 DEF StartData, StartForm, StartLoadUser
    <2>2. ASSUME NEW q \in Calls, Progress(q) PROVE LeaderReadsTokens(r) /\ store # 0
      <3>1. CASE FailRefresh(q)
        BY <3>1 DEF FailRefresh, failedQueue, AfterReject
      <3>2. CASE LeaderReadsTokens(q) /\ ~FailRefresh(q)
        BY <3>2 DEF LeaderReadsTokens
      <3>3. CASE LeaderSaves(q)
        BY <3>3 DEF LeaderSaves
      <3>4. CASE AnswerError(q) \/ Answer401(q) \/ LeaderClears(q)
        BY <3>4 DEF AnswerError, Answer401, LeaderClears, AfterReject
      <3>5. CASE LoadUserReadsTokens(q) \/ Attach(q) \/ AnswerOk(q) \/ AnswerTokens(q)
        BY <3>5 DEF LoadUserReadsTokens, Attach, AnswerOk, AnswerTokens
      <3>6. CASE RefreshRotates(q) \/ RefreshAnswered(q) \/ KeepTokens(q)
                  \/ VerifyTokens(q) \/ DropTokens(q)
        BY <3>6 DEF RefreshRotates, RefreshAnswered, KeepTokens, VerifyTokens, DropTokens
      <3>7. QED
        BY <2>2, <3>1, <3>2, <3>3, <3>4, <3>5, <3>6
           DEF Progress, Answered, RefreshGoesOn, Continues,
               RefreshHalfDone, RefreshFails
    <2>3. ASSUME Restart PROVE FALSE
      BY <2>3 DEF Restart
    <2>4. ASSUME UNCHANGED pc PROVE FALSE
      BY <2>4
    <2>5. QED
      BY <2>1, <2>2, <2>3, <2>4 DEF Next, TapLogout, LogoutFinishes, AccessExpires,
                                    RefreshLapses, LateRefresh, vars, clientVars
  <1>2. used'[r] = store
    BY <1>1 DEF LeaderReadsTokens
  <1>3. InRotation = {}
    BY DEF SingleFlight, InRotation, LeaderPhases
  <1>4. QED
    BY <1>1, <1>2, <1>3 DEF SessionInv, StoredSessionLive

\* A refresh token is sent to the server only while it is good: single flight and
\* the session invariant together.
THEOREM RefreshTokenUsedOnce == Spec => RefreshSentWithLiveToken
  <1>1. TypeOK /\ SingleFlight /\ SessionInv /\ [Next]_vars
          => [\A r \in Calls : pc[r] = "lead" /\ pc'[r] = "refresh"
                                   => used'[r] \in rows \cup orphaned]_vars
    BY SendStep
  <1>2. QED
    BY <1>1, TypeCorrect, OneRefreshAtATime, SessionInvariant, PTL
       DEF Spec, RefreshSentWithLiveToken

-----------------------------------------------------------------------------
(* One pair per call, and the table refresh_tokens.                        *)

\* _retry is set by the 401 that makes a call the leader and is never reset: a call
\* without it has used no refresh token, and was given no pair before its answer; a call
\* that signs in never leads.
PairsOf(r) ==
    /\ pc[r] \in LeaderPhases => retry[r]
    /\ pc[r] \in {"lead", "refresh"} => held[r] = 0
    /\ pc[r] = "refresh" => used[r] # 0
    /\ pc[r] = "idle" => ~retry[r]
    /\ kind[r] \in {"login", "register"} => ~retry[r]
    /\ ~retry[r] => used[r] = 0
    /\ ~retry[r] /\ pc[r] \in {"idle", "load", "attach", "sent", "queued"} => held[r] = 0

PairsInv == \A r \in Calls : PairsOf(r)

\* A call that a step does not touch, beyond rejecting it, replaying it from the queue or
\* killing it.
LEMMA PairsUntouched ==
  ASSUME NEW q \in Calls, PairsOf(q), pc[q] \in Phases,
         kind'[q] = kind[q], retry'[q] = retry[q], used'[q] = used[q], held'[q] = held[q],
         \/ pc'[q] = pc[q] \/ pc'[q] \in {"drop", "done"}
         \/ pc[q] = "queued" /\ pc'[q] = "attach"
  PROVE  PairsOf(q)'
  BY DEF PairsOf, LeaderPhases

LEMMA ProgressPairs ==
  ASSUME TypeOK, PairsInv, NEW r \in Calls, Progress(r)
  PROVE  PairsInv'
  <1> USE DEF TypeOK, DataOK, FlagsOK
  <1> SUFFICES ASSUME NEW q \in Calls PROVE PairsOf(q)'
    BY DEF PairsInv
  <1>0. PairsOf(q) /\ PairsOf(r)
    BY DEF PairsInv
  <1>1. CASE LoadUserReadsTokens(r) \/ Attach(r) \/ AnswerOk(r) \/ AnswerTokens(r)
    BY <1>0, <1>1 DEF LoadUserReadsTokens, Attach, AnswerOk, AnswerTokens, PairsOf, LeaderPhases
  <1>2. CASE AnswerError(r)
    BY <1>0, <1>2, PairsUntouched DEF AnswerError, AfterReject
  <1>3. CASE Answer401(r)
    <2>1. kind[r] \notin {"login", "register"} /\ pc[r] = "sent"
      BY <1>3 DEF Answer401, Accepts
    <2> QED
      BY <1>0, <1>3, <2>1 DEF Answer401, AfterReject, PairsOf, LeaderPhases
  <1>4. ASSUME FailRefresh(r), pc[r] \in LeaderPhases, UNCHANGED <<kind, retry, used, held>>
        PROVE  PairsOf(q)'
    <2>1. CASE q = r
      BY <1>0, <1>4, <2>1 DEF FailRefresh, PairsOf, LeaderPhases
    <2>2. CASE q # r
      BY <1>0, <1>4, <2>2, PairsUntouched DEF FailRefresh, failedQueue, AfterReject
    <2> QED
      BY <2>1, <2>2
  <1>5. CASE LeaderReadsTokens(r)
    <2>1. CASE store = 0
      BY <1>4, <1>5, <2>1 DEF LeaderReadsTokens, LeaderPhases
    <2>2. CASE store # 0
      BY <1>0, <1>5, <2>2 DEF LeaderReadsTokens, PairsOf, LeaderPhases
    <2> QED
      BY <2>1, <2>2
  <1>6. CASE RefreshRotates(r) \/ RefreshAnswered(r)
    BY <1>0, <1>6 DEF RefreshRotates, RefreshAnswered, PairsOf, LeaderPhases
  <1>7. CASE RefreshHalfDone(r) \/ RefreshFails(r)
    BY <1>4, <1>7 DEF RefreshHalfDone, RefreshFails, LeaderPhases
  <1>8. CASE LeaderSaves(r)
    <2>1. CASE q = r
      BY <1>0, <1>8, <2>1 DEF LeaderSaves, PairsOf, LeaderPhases
    <2>2. CASE q # r
      BY <1>0, <1>8, <2>2, PairsUntouched DEF LeaderSaves, failedQueue
    <2> QED
      BY <2>1, <2>2
  <1>9. CASE LeaderClears(r)
    BY <1>0, <1>9, PairsUntouched DEF LeaderClears, AfterReject
  <1>10. CASE KeepTokens(r) \/ VerifyTokens(r) \/ DropTokens(r)
    BY <1>0, <1>10 DEF KeepTokens, VerifyTokens, DropTokens, PairsOf, LeaderPhases
  <1>11. QED
    BY <1>1, <1>2, <1>3, <1>5, <1>6, <1>7, <1>8, <1>9, <1>10
       DEF Progress, Answered, RefreshGoesOn, Continues

LEMMA NextPairs == TypeOK /\ PairsInv /\ [Next]_vars => PairsInv'
  <1> SUFFICES ASSUME TypeOK, PairsInv, [Next]_vars PROVE PairsInv'
    OBVIOUS
  <1> USE DEF TypeOK, DataOK, FlagsOK
  <1>1. ASSUME NEW r \in Calls, StartData(r) \/ StartForm(r) \/ StartLoadUser(r)
        PROVE  PairsInv'
    <2> SUFFICES ASSUME NEW q \in Calls PROVE PairsOf(q)'
      BY DEF PairsInv
    <2>1. PairsOf(q)
      BY DEF PairsInv
    <2> QED
      BY <1>1, <2>1 DEF StartData, StartForm, StartLoadUser, PairsOf, LeaderPhases
  <1>2. ASSUME NEW r \in Calls, Progress(r) PROVE PairsInv'
    BY <1>2, ProgressPairs
  <1>3. CASE \/ TapLogout \/ LogoutFinishes \/ AccessExpires \/ RefreshLapses
             \/ LateRefresh \/ UNCHANGED vars
    <2>1. UNCHANGED <<pc, kind, retry, used, held>>
      BY <1>3 DEF TapLogout, LogoutFinishes, AccessExpires, RefreshLapses, LateRefresh, vars,
                  clientVars
    <2> QED
      BY <2>1 DEF PairsInv, PairsOf
  <1>4. CASE Restart
    <2> SUFFICES ASSUME NEW q \in Calls PROVE PairsOf(q)'
      BY DEF PairsInv
    <2>1. PairsOf(q)
      BY DEF PairsInv
    <2> QED
      BY <1>4, <2>1, PairsUntouched DEF Restart
  <1>5. QED
    BY <1>1, <1>2, <1>3, <1>4 DEF Next

LEMMA PairsInvariant == Spec => []PairsInv
  <1>1. Init => PairsInv
    BY DEF Init, PairsInv, PairsOf, LeaderPhases
  <1>2. QED
    BY <1>1, NextPairs, TypeCorrect, PTL DEF Spec

\* The steps that matter to the pairs and the rows.
LEMMA PairSteps ==
  ASSUME [Next]_vars
  PROVE  \/ UNCHANGED <<issued, rows, lapsed, used, held>>
         \/ \E r \in Calls : \/ AnswerTokens(r) \/ LeaderReadsTokens(r)
                            \/ RefreshRotates(r) \/ RefreshHalfDone(r)
         \/ RefreshLapses \/ LateRefresh
  <1> USE DEF serverVars, clientVars
  <1>1. ASSUME NEW r \in Calls, StartData(r) \/ StartForm(r) \/ StartLoadUser(r)
        PROVE  UNCHANGED <<issued, rows, lapsed, used, held>>
    BY <1>1 DEF StartData, StartForm, StartLoadUser
  <1>2. ASSUME NEW r \in Calls, Continues(r), ~LeaderReadsTokens(r)
        PROVE  UNCHANGED <<issued, rows, lapsed, used, held>>
    BY <1>2 DEF Continues, LoadUserReadsTokens, Attach, LeaderSaves, LeaderClears, KeepTokens,
                VerifyTokens, DropTokens
  <1>3. ASSUME NEW r \in Calls, AnswerOk(r) \/ AnswerError(r) \/ Answer401(r)
                                  \/ RefreshFails(r) \/ RefreshAnswered(r)
        PROVE  UNCHANGED <<issued, rows, lapsed, used, held>>
    BY <1>3 DEF AnswerOk, AnswerError, Answer401, RefreshFails, RefreshAnswered
  <1>4. CASE TapLogout \/ LogoutFinishes \/ AccessExpires \/ Restart \/ UNCHANGED vars
    BY <1>4 DEF TapLogout, LogoutFinishes, AccessExpires, Restart, vars
  <1>5. QED
    BY <1>1, <1>2, <1>3, <1>4 DEF Next, Progress, Answered, RefreshGoesOn

LEMMA PairKept ==
  ASSUME TypeOK, PairsInv, [Next]_vars, NEW r \in Calls, held[r] # 0
  PROVE  held'[r] = held[r]
  <1> USE DEF TypeOK, DataOK, FlagsOK
  <1>1. ASSUME NEW q \in Calls, AnswerTokens(q) \/ RefreshRotates(q) PROVE q # r
    BY <1>1 DEF AnswerTokens, RefreshRotates, PairsInv, PairsOf
  <1>2. QED
    BY <1>1, PairSteps DEF AnswerTokens, RefreshRotates, LeaderReadsTokens, RefreshHalfDone,
                           RefreshLapses, LateRefresh, clientVars

\* One API call is given at most one token pair, for any number of calls: a request that
\* is replayed and gets a 401 again does not refresh again.
THEOREM OnePairForOneCall == Spec => OnePairPerCall
  <1>1. TypeOK /\ PairsInv /\ [Next]_vars
          => [\A r \in Calls : held[r] # 0 => held'[r] = held[r]]_vars
    BY PairKept
  <1>2. QED
    BY <1>1, TypeCorrect, PairsInvariant, PTL DEF Spec, OnePairPerCall

\* A call that is given its pair adds the token it used to the replaced ones, if it used one.
LEMMA ReplacedByPair ==
  ASSUME TypeOK, NEW r \in Calls, NEW n \in Tokens \ {0}, held[r] = 0,
         held' = [held EXCEPT ![r] = n], used' = used
  PROVE  Replaced' = Replaced \cup ({used[r]} \ {0})
  BY DEF Replaced, TypeOK, DataOK

\* A call without a pair may choose its token.
LEMMA ReplacedByUse ==
  ASSUME TypeOK, NEW r \in Calls, NEW n, held[r] = 0,
         used' = [used EXCEPT ![r] = n], held' = held
  PROVE  Replaced' = Replaced
  BY DEF Replaced, TypeOK, DataOK

LEMMA NextNumber ==
  ASSUME TypeOK, issued < MaxTokens, issued' = issued + 1
  PROVE  /\ issued + 1 \in Tokens \ {0} /\ issued + 1 \notin 1 .. issued
         /\ 1 .. issued' = (1 .. issued) \cup {issued + 1}
  BY ConstantsAssumption DEF TypeOK, DataOK, Tokens

LEMMA TableStep ==
  ASSUME TypeOK, PairsInv, NumbersIssued, [Next]_vars
  PROVE  [Table!Next]_(Table!vars)
  <1> USE DEF TypeOK, DataOK, FlagsOK
  <1>1. CASE UNCHANGED <<issued, rows, lapsed, used, held>>
    BY <1>1 DEF Table!vars, Replaced
  <1>2. ASSUME NEW r \in Calls, AnswerTokens(r) PROVE Table!Next
    <2>1. held[r] = 0 /\ used[r] = 0
      BY <1>2 DEF AnswerTokens, PairsInv, PairsOf
    <2>2. /\ issued < MaxTokens /\ issued' = issued + 1 /\ rows' = rows \cup {issued + 1}
          /\ held' = [held EXCEPT ![r] = issued + 1] /\ used' = used /\ lapsed' = lapsed
      BY <1>2 DEF AnswerTokens
    <2>3. /\ issued + 1 \in Tokens \ {0} /\ issued + 1 \notin 1 .. issued
          /\ 1 .. issued' = (1 .. issued) \cup {issued + 1}
      BY <2>2, NextNumber
    <2>4. Replaced' = Replaced
      BY <2>1, <2>2, <2>3, ReplacedByPair
    <2>5. Table!SignIn(issued + 1)
      BY <2>2, <2>3, <2>4 DEF Table!SignIn
    <2> QED
      BY <2>3, <2>5 DEF Table!Next
  <1>3. ASSUME NEW r \in Calls, LeaderReadsTokens(r) PROVE UNCHANGED Table!vars
    <2>1. /\ held[r] = 0 /\ held' = held
          /\ used' = used \/ used' = [used EXCEPT ![r] = store]
          /\ UNCHANGED <<issued, rows, lapsed>>
      BY <1>3 DEF LeaderReadsTokens, PairsInv, PairsOf, serverVars
    <2>2. Replaced' = Replaced
      <3>1. CASE used' = used
        BY <2>1, <3>1 DEF Replaced
      <3> QED
        BY <2>1, <3>1, ReplacedByUse
    <2> QED
      BY <2>1, <2>2 DEF Table!vars
  <1>4. ASSUME NEW r \in Calls, RefreshRotates(r) PROVE Table!Next
    <2>1. held[r] = 0 /\ used[r] # 0 /\ used[r] \in 1 .. issued /\ used[r] \in Tokens
      BY <1>4 DEF RefreshRotates, PairsInv, PairsOf, NumbersIssued, Tokens
    <2>2. /\ issued < MaxTokens /\ issued' = issued + 1
          /\ rows' = (rows \ {used[r]}) \cup {issued + 1}
          /\ held' = [held EXCEPT ![r] = issued + 1] /\ used' = used /\ lapsed' = lapsed
      BY <1>4 DEF RefreshRotates
    <2>3. /\ issued + 1 \in Tokens \ {0} /\ issued + 1 \notin 1 .. issued
          /\ 1 .. issued' = (1 .. issued) \cup {issued + 1}
      BY <2>2, NextNumber
    <2>4. Replaced' = Replaced \cup {used[r]}
      BY <2>1, <2>2, <2>3, ReplacedByPair
    <2>5. Table!Refresh(used[r], issued + 1)
      BY <2>1, <2>2, <2>3, <2>4 DEF Table!Refresh
    <2> QED
      BY <2>1, <2>3, <2>5 DEF Table!Next
  <1>5. ASSUME NEW r \in Calls, RefreshHalfDone(r) PROVE Table!Next
    <2>1. /\ used[r] \in Tokens /\ rows' = rows \ {used[r]}
          /\ UNCHANGED <<issued, lapsed, used, held>>
      BY <1>5 DEF RefreshHalfDone
    <2>2. Table!Delete(used[r])
      BY <2>1 DEF Table!Delete, Replaced
    <2> QED
      BY <2>1, <2>2 DEF Table!Next
  <1>6. CASE RefreshLapses
    <2>1. PICK t \in rows \ lapsed : lapsed' = lapsed \cup {t}
      BY <1>6 DEF RefreshLapses
    <2>2. UNCHANGED <<issued, rows, used, held>>
      BY <1>6 DEF RefreshLapses, clientVars
    <2>3. Table!Lapse(t)
      BY <2>1, <2>2 DEF Table!Lapse, Replaced
    <2> QED
      BY <2>1, <2>3 DEF Table!Next
  <1>7. CASE LateRefresh
    <2>1. PICK t \in orphaned : rows' = rows \ {t}
      BY <1>7 DEF LateRefresh
    <2>2. UNCHANGED <<issued, lapsed, used, held>> /\ t \in Tokens
      BY <1>7, <2>1 DEF LateRefresh, clientVars
    <2>3. Table!Delete(t)
      BY <2>1, <2>2 DEF Table!Delete, Replaced
    <2> QED
      BY <2>2, <2>3 DEF Table!Next
  <1>8. QED
    BY <1>1, <1>2, <1>3, <1>4, <1>5, <1>6, <1>7, PairSteps

LEMMA TableInit == Init => Table!Init
  <1> SUFFICES ASSUME Init PROVE Table!Init
    OBVIOUS
  <1>1. issued = store /\ store \in {0, 1} \cap Tokens /\ rows = {store} \ {0} /\ lapsed = {}
    BY DEF Init
  <1>2. 1 .. issued = rows /\ 1 .. issued \subseteq Tokens
    <2>1. CASE store = 0
      BY <1>1, <2>1
    <2>2. CASE store = 1
      BY <1>1, <2>2
    <2> QED
      BY <1>1, <2>1, <2>2
  <1>3. Replaced = {}
    BY DEF Init, Replaced
  <1> QED
    BY <1>1, <1>2, <1>3 DEF Table!Init

\* For any number of calls, every step of the server as the app sees it is a step of the
\* table refresh_tokens, the one that the routes of AuthSessions keep.
THEOREM AppSeesTokenTable == Spec => SeesTokenTable
  <1>1. TypeOK /\ PairsInv /\ SessionInv /\ [Next]_vars => [Table!Next]_(Table!vars)
    BY TableStep DEF SessionInv
  <1>2. QED
    BY <1>1, TableInit, TypeCorrect, PairsInvariant, SessionInvariant, PTL
       DEF Spec, SeesTokenTable, Table!Spec
=============================================================================
