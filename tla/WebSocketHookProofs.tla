------------------------- MODULE WebSocketHookProofs -------------------------
(***************************************************************************)
(* Proofs about WebSocketHook, for any number of sockets and any           *)
(* MAX_RECONNECTS.                                                         *)
(***************************************************************************)
EXTENDS WebSocketHook, TLAPS

LEMMA ClosedState == \A st \in States : Closed(st) \in States
  BY DEF Closed, States, Alive

LEMMA CloseCurrentType ==
  ASSUME NEW ss \in [Sockets -> States]
  PROVE  CloseCurrent(ss) \in [Sockets -> States]
  BY ClosedState DEF CloseCurrent

LEMMA ScheduleType ==
  ASSUME TypeOK, scheduleReconnect
  PROVE  /\ reconnectAttempts' \in 0 .. MAX_RECONNECTS
         /\ latest' \in BOOLEAN /\ older' \in Nat
         /\ mounted => latest' \/ reconnectAttempts' = MAX_RECONNECTS
<1>1. latest' \in BOOLEAN
  BY DEF TypeOK, scheduleReconnect
<1>2. older' \in Nat
  BY DEF TypeOK, scheduleReconnect
<1>3. reconnectAttempts' \in 0 .. MAX_RECONNECTS
  BY HookAssumption DEF TypeOK, scheduleReconnect
<1>4. mounted => latest' \/ reconnectAttempts' = MAX_RECONNECTS
  BY Zenon DEF scheduleReconnect
<1> QED
  BY <1>1, <1>2, <1>3, <1>4

LEMMA DisconnectType ==
  ASSUME TypeOK, disconnect
  PROVE  latest' \in BOOLEAN /\ sock' \in [Sockets -> States]
  BY CloseCurrentType DEF TypeOK, disconnect

LEMMA ConnectType ==
  ASSUME TypeOK, connect
  PROVE  waiting' \in Nat /\ waiting' > 0 /\ excused' \in BOOLEAN
<1>1. waiting' \in Nat /\ waiting' > 0
  BY DEF TypeOK, connect
<1>2. excused' \in BOOLEAN
  BY Zenon DEF connect
<1> QED
  BY <1>1, <1>2

\* The types of the hook's state, for any number of sockets.
THEOREM TypeCorrect == Spec => []TypeOK
<1>1. Init => TypeOK
  <2> SUFFICES ASSUME Init PROVE TypeOK
    OBVIOUS
  <2>1. reconnectAttempts \in 0 .. MAX_RECONNECTS /\ waiting \in Nat /\ older \in Nat
    BY HookAssumption DEF Init
  <2>2. sock \in [Sockets -> States] /\ current \in Sockets \cup {None}
    BY DEF Init, States
  <2>3. /\ mounted \in BOOLEAN /\ active \in BOOLEAN /\ isConnected \in BOOLEAN
        /\ latest \in BOOLEAN /\ hasTokens \in BOOLEAN /\ serverUp \in BOOLEAN
        /\ excused \in BOOLEAN
    BY Zenon DEF Init
  <2> QED
    BY <2>1, <2>2, <2>3 DEF TypeOK
<1>2. TypeOK /\ [Next]_vars => TypeOK'
  <2> SUFFICES ASSUME TypeOK, [Next]_vars PROVE TypeOK'
    OBVIOUS
  <2>1. CASE ConnectReturns
    BY <2>1 DEF ConnectReturns, TypeOK, envVars
  <2>2. CASE ConnectOpens
    BY <2>2 DEF ConnectOpens, TypeOK, envVars, States, Alive
  <2>3. CASE ConnectThrows
    BY <2>3, ScheduleType DEF ConnectThrows, TypeOK, envVars
  <2>4. CASE TimerFires
    <3>1. waiting' \in Nat /\ excused' \in BOOLEAN
      BY <2>4, ConnectType DEF TimerFires
    <3>2. older' \in Nat
      BY <2>4 DEF TimerFires, TypeOK
    <3>3. latest' \in BOOLEAN
      BY <2>4, Zenon DEF TimerFires, TypeOK
    <3> QED
      BY <2>4, <3>1, <3>2, <3>3 DEF TimerFires, TypeOK, envVars
  <2>5. ASSUME NEW s \in Sockets, onopen(s) PROVE TypeOK'
    BY <2>5, HookAssumption DEF onopen, TypeOK, envVars, States, Alive
  <2>6. ASSUME NEW s \in Sockets, onclose(s) PROVE TypeOK'
    BY <2>6, ScheduleType DEF onclose, TypeOK, envVars, States
  <2>7. ASSUME NEW s \in Sockets, onerror(s) PROVE TypeOK'
    <3>1. [sock EXCEPT ![s] = "closed"] \in [Sockets -> States]
      BY DEF TypeOK, States
    <3> QED
      BY <2>7, <3>1, ScheduleType, CloseCurrentType DEF onerror, TypeOK, envVars
  <2>8. CASE Foreground
    BY <2>8, ConnectType DEF Foreground, TypeOK, envVars
  <2>9. CASE Background
    BY <2>9, DisconnectType DEF Background, TypeOK, envVars
  <2>10. CASE ChangeCommunity
    BY <2>10, DisconnectType, ConnectType DEF ChangeCommunity, TypeOK, envVars
  <2>11. CASE Disconnect
    BY <2>11, DisconnectType DEF Disconnect, TypeOK, envVars
  <2>12. CASE Unmount
    BY <2>12, DisconnectType DEF Unmount, TypeOK, envVars
  <2>13. CASE Environment
    BY <2>13 DEF Environment, TypeOK, hookVars
  <2>14. CASE UNCHANGED vars
    BY <2>14 DEF vars, hookVars, envVars, TypeOK
  <2> QED
    BY <2>1, <2>2, <2>3, <2>4, <2>5, <2>6, <2>7, <2>8, <2>9, <2>10, <2>11, <2>12, <2>13, <2>14
       DEF Next, Resumes, Reports
<1> QED
  BY <1>1, <1>2, PTL DEF Spec

-----------------------------------------------------------------------------

\* Closing ws.current leaves an opened socket open or closing.
LEMMA CloseKeepsOpened ==
  ASSUME TypeOK, NEW s \in Sockets, sock[s] \in {"open", "closing"}
  PROVE  CloseCurrent(sock)[s] \in {"open", "closing"}
  BY DEF CloseCurrent, Closed

\* isConnected goes with an opened socket whose close was not reported, whichever of
\* the sockets of overlapping connects that is.
THEOREM ConnectedGoesWithSocket == Spec => []ConnectedHasSocket
<1>1. Init => ConnectedHasSocket
  BY DEF Init, ConnectedHasSocket
<1>2. TypeOK /\ ConnectedHasSocket /\ [Next]_vars => ConnectedHasSocket'
  <2> SUFFICES ASSUME TypeOK, ConnectedHasSocket, [Next]_vars, isConnected'
               PROVE  \E s \in Sockets : sock'[s] \in {"open", "closing"}
    BY DEF ConnectedHasSocket
  <2>1. ASSUME isConnected' = isConnected, sock' = sock
        PROVE  \E s \in Sockets : sock'[s] \in {"open", "closing"}
    BY <2>1 DEF ConnectedHasSocket
  <2>2. ASSUME isConnected' = isConnected, disconnect
        PROVE  \E s \in Sockets : sock'[s] \in {"open", "closing"}
    BY <2>2, CloseKeepsOpened DEF ConnectedHasSocket, disconnect
  <2>3. CASE ConnectOpens
    <3>1. PICK t \in Sockets : sock[t] \in {"open", "closing"}
      BY <2>3 DEF ConnectOpens, ConnectedHasSocket
    <3>2. sock'[t] = sock[t]
      BY <2>3, <3>1 DEF ConnectOpens, TypeOK
    <3> QED
      BY <3>1, <3>2
  <2>4. ASSUME NEW s \in Sockets, onopen(s)
        PROVE  \E t \in Sockets : sock'[t] \in {"open", "closing"}
    BY <2>4 DEF onopen, TypeOK
  <2>5. ASSUME NEW s \in Sockets, onclose(s) \/ onerror(s) PROVE FALSE
    BY <2>5 DEF onclose, onerror
  <2>6. CASE ConnectReturns \/ ConnectThrows \/ TimerFires \/ Foreground \/ Environment
    BY <2>1, <2>6 DEF ConnectReturns, ConnectThrows, TimerFires, Foreground, Environment, hookVars
  <2>7. CASE Background \/ ChangeCommunity \/ Disconnect \/ Unmount
    BY <2>2, <2>7 DEF Background, ChangeCommunity, Disconnect, Unmount
  <2>8. CASE UNCHANGED vars
    BY <2>1, <2>8 DEF vars, hookVars
  <2> QED
    BY <2>3, <2>4, <2>5, <2>6, <2>7, <2>8 DEF Next, Resumes, Reports
<1> QED
  BY <1>1, <1>2, TypeCorrect, PTL DEF Spec

-----------------------------------------------------------------------------

\* A socket that is alive, a timer or a pending connect() keeps the hook from being idle.
LEMMA NotIdle ==
  ASSUME NEW s \in Sockets, sock'[s] \in Alive PROVE ~Idle'
  BY DEF Idle, live

\* A hook in the foreground stops only after MAX_RECONNECTS, for lack of tokens, or
\* when it is told to.
THEOREM HookKeepsTrying == Spec => []NoSilentStop
<1>1. Init => NoSilentStop
  BY DEF Init, NoSilentStop, Idle
<1>2. TypeOK /\ ConnectedHasSocket /\ NoSilentStop /\ [Next]_vars => NoSilentStop'
  <2> SUFFICES ASSUME TypeOK, ConnectedHasSocket, NoSilentStop, [Next]_vars,
                      mounted', active', Idle'
               PROVE  reconnectAttempts' = MAX_RECONNECTS \/ excused'
    BY DEF NoSilentStop
  <2>1. waiting' = 0 /\ ~latest'
    BY DEF Idle
  <2>2. ASSUME mounted' = mounted, scheduleReconnect PROVE reconnectAttempts' = MAX_RECONNECTS
    BY <2>1, <2>2, ScheduleType
  <2>3. ASSUME connect PROVE FALSE
    BY <2>1, <2>3, ConnectType
  <2>4. ASSUME mounted' = mounted, active' = active, excused' = excused,
               UNCHANGED hookVars
        PROVE  reconnectAttempts' = MAX_RECONNECTS \/ excused'
    BY <2>4 DEF NoSilentStop, Idle, live, hookVars
  <2>5. CASE ConnectReturns
    BY <2>5 DEF ConnectReturns
  <2>6. CASE ConnectOpens
    BY <2>6, NotIdle DEF ConnectOpens, TypeOK, Alive
  <2>7. CASE ConnectThrows
    BY <2>2, <2>7 DEF ConnectThrows
  <2>8. CASE TimerFires \/ ChangeCommunity
    BY <2>3, <2>8 DEF TimerFires, ChangeCommunity
  <2>9. ASSUME NEW s \in Sockets, onopen(s) PROVE FALSE
    BY <2>9, NotIdle DEF onopen, TypeOK, Alive
  <2>10. ASSUME NEW s \in Sockets, onclose(s) \/ onerror(s)
         PROVE  reconnectAttempts' = MAX_RECONNECTS
    BY <2>2, <2>10 DEF onclose, onerror
  <2>11. CASE Foreground
    <3>1. isConnected /\ sock' = sock
      BY <2>3, <2>11 DEF Foreground
    <3>2. PICK s \in Sockets : sock[s] \in {"open", "closing"}
      BY <3>1 DEF ConnectedHasSocket
    <3> QED
      BY <3>1, <3>2, NotIdle DEF Alive
  <2>12. CASE Background \/ Unmount
    BY <2>12 DEF Background, Unmount
  <2>13. CASE Disconnect
    BY <2>13 DEF Disconnect
  <2>14. CASE Environment
    BY <2>4, <2>14 DEF Environment
  <2>15. CASE UNCHANGED vars
    BY <2>4, <2>15 DEF vars
  <2> QED
    BY <2>5, <2>6, <2>7, <2>8, <2>9, <2>10, <2>11, <2>12, <2>13, <2>14, <2>15
       DEF Next, Resumes, Reports
<1> QED
  BY <1>1, <1>2, TypeCorrect, ConnectedGoesWithSocket, PTL DEF Spec
=============================================================================
