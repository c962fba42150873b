---------------------------- MODULE WebSocketHook ----------------------------
(***************************************************************************)
(* The hook of mobile/src/hooks/useWebSocket.ts: one component that uses   *)
(* it, from its mount to the end, through app state changes, lost          *)
(* connections and reconnect timers.                                       *)
(*                                                                         *)
(* connect() awaits the keychain and then overwrites ws.current, so more   *)
(* than one socket may be alive; the handlers of every one of them keep    *)
(* running.  A pending timer is either the one reconnectTimer.current      *)
(* names or an older one that nothing can clear any more.  A socket that   *)
(* is closed and dropped may be used again for a new one.                  *)
(***************************************************************************)
EXTENDS Naturals, FiniteSets

CONSTANTS Sockets,          \* the WebSocket objects
          None,             \* null
          MAX_RECONNECTS,
          MaxLoad           \* bound on sockets, timers and connects alive when one is added

ASSUME HookAssumption ==
    None \notin Sockets /\ MAX_RECONNECTS \in Nat \ {0} /\ MaxLoad \in Nat

VARIABLES
    mounted, active,        \* the component; the app is in the foreground
    isConnected, reconnectAttempts,
    current,                \* ws.current
    sock,                   \* state of each socket
    waiting,                \* number of connect() that await getTokens
    latest,                 \* the timer of reconnectTimer.current is pending
    older,                  \* number of other pending timers
    hasTokens, serverUp,    \* the keychain has tokens; the server takes connections
    excused                 \* history: since the last connect() was called, one found no
                            \* tokens or the screen called disconnect()

hookVars == <<isConnected, reconnectAttempts, current, sock, waiting, latest, older>>
envVars  == <<hasTokens, serverUp>>
vars     == <<mounted, active, hookVars, envVars, excused>>

\* "aborting" is a socket that was closed before it opened.
Alive  == {"connecting", "aborting", "open", "closing"}
States == Alive \cup {"closed"}

\* Types of the hook's refs and state and of the sockets.
TypeOK ==
    /\ mounted \in BOOLEAN /\ active \in BOOLEAN /\ isConnected \in BOOLEAN
    /\ latest \in BOOLEAN /\ hasTokens \in BOOLEAN /\ serverUp \in BOOLEAN
    /\ excused \in BOOLEAN
    /\ reconnectAttempts \in 0 .. MAX_RECONNECTS
    /\ current \in Sockets \cup {None}
    /\ sock \in [Sockets -> States]
    /\ waiting \in Nat /\ older \in Nat

\* The component was mounted: its first effect has called connect().
Init ==
    /\ mounted = TRUE /\ active = TRUE
    /\ isConnected = FALSE /\ reconnectAttempts = 0 /\ current = None
    /\ sock = [s \in Sockets |-> "closed"]
    /\ waiting = 1 /\ latest = FALSE /\ older = 0
    /\ hasTokens \in BOOLEAN /\ serverUp \in BOOLEAN /\ excused = FALSE

-----------------------------------------------------------------------------

live == {s \in Sockets : sock[s] \in Alive}
Load == Cardinality(live) + waiting + older + (IF latest THEN 1 ELSE 0)

\* WebSocket.close(): a socket that is closed or closing is left alone.
Closed(st) == IF st = "connecting" THEN "aborting" ELSE IF st = "open" THEN "closing" ELSE st

\* ws.current?.close(), in the state of the sockets ss.
CloseCurrent(ss) == [s \in Sockets |-> IF s = current THEN Closed(ss[s]) ELSE ss[s]]

\* Variation: the limit is checked with > instead of >=.
scheduleReconnect_OneMore ==
    \/ /\ reconnectAttempts <= MAX_RECONNECTS
       /\ reconnectAttempts' = reconnectAttempts + 1
       /\ latest' = TRUE /\ older' = older + (IF latest THEN 1 ELSE 0)
    \/ /\ reconnectAttempts > MAX_RECONNECTS \/ ~mounted
       /\ UNCHANGED <<reconnectAttempts, latest, older>>

\* The updater of setReconnectAttempts.  After the unmount React may or may not run it.
scheduleReconnect ==
    \/ /\ reconnectAttempts < MAX_RECONNECTS
       /\ reconnectAttempts' = reconnectAttempts + 1
       /\ latest' = TRUE /\ older' = older + (IF latest THEN 1 ELSE 0)
    \/ /\ reconnectAttempts = MAX_RECONNECTS \/ ~mounted
       /\ UNCHANGED <<reconnectAttempts, latest, older>>

\* connect(), up to its await.
connect == waiting' = waiting + 1 /\ excused' = FALSE

disconnect == latest' = FALSE /\ sock' = CloseCurrent(sock)

\* connect() resumes: no tokens.
ConnectReturns ==
    /\ waiting > 0 /\ ~hasTokens
    /\ waiting' = waiting - 1 /\ excused' = TRUE
    /\ UNCHANGED <<mounted, active, isConnected, reconnectAttempts, current, sock, latest, older,
                   envVars>>

\* connect() resumes: a new socket replaces ws.current.
ConnectOpens ==
    /\ waiting > 0 /\ hasTokens
    /\ waiting' = waiting - 1
    /\ \E s \in Sockets :
          /\ sock[s] = "closed"
          /\ sock' = [sock EXCEPT ![s] = "connecting"]
          /\ current' = s
    /\ UNCHANGED <<mounted, active, isConnected, reconnectAttempts, latest, older, envVars,
                   excused>>

\* connect() resumes: the constructor throws.
ConnectThrows ==
    /\ waiting > 0 /\ hasTokens
    /\ waiting' = waiting - 1
    /\ scheduleReconnect
    /\ UNCHANGED <<mounted, active, isConnected, current, sock, envVars, excused>>

\* A reconnect timer fires.
TimerFires ==
    /\ \/ latest /\ latest' = FALSE /\ UNCHANGED older
       \/ older > 0 /\ older' = older - 1 /\ UNCHANGED latest
    /\ connect
    /\ UNCHANGED <<mounted, active, isConnected, reconnectAttempts, current, sock, envVars>>

-----------------------------------------------------------------------------
(* The handlers of a socket.                                               *)

onopen(s) ==
    /\ \/ sock[s] = "connecting" /\ serverUp /\ sock' = [sock EXCEPT ![s] = "open"]
       \/ sock[s] = "aborting" /\ sock' = [sock EXCEPT ![s] = "closing"]
    /\ isConnected' = TRUE /\ reconnectAttempts' = 0
    /\ UNCHANGED <<mounted, active, current, waiting, latest, older, envVars, excused>>

\* Variation: the handler only schedules the reconnect.
onclose_StaysConnected(s) ==
    /\ sock[s] \in {"aborting", "closing"} \/ (sock[s] = "open" /\ ~serverUp)
    /\ sock' = [sock EXCEPT ![s] = "closed"]
    /\ scheduleReconnect
    /\ UNCHANGED <<mounted, active, isConnected, current, waiting, envVars, excused>>

\* Variation: a socket that is not ws.current any more does not reconnect.
onclose_OnlyCurrent(s) ==
    /\ sock[s] \in {"aborting", "closing"} \/ (sock[s] = "open" /\ ~serverUp)
    /\ sock' = [sock EXCEPT ![s] = "closed"]
    /\ isConnected' = FALSE
    /\ IF s = current THEN scheduleReconnect ELSE UNCHANGED <<reconnectAttempts, latest, older>>
    /\ UNCHANGED <<mounted, active, current, waiting, envVars, excused>>

\* A close that was asked for, or the server's.
onclose(s) ==
    /\ sock[s] \in {"aborting", "closing"} \/ (sock[s] = "open" /\ ~serverUp)
    /\ sock' = [sock EXCEPT ![s] = "closed"]
    /\ isConnected' = FALSE
    /\ scheduleReconnect
    /\ UNCHANGED <<mounted, active, current, waiting, envVars, excused>>

\* A socket fails: error and close are reported one after the other.  onerror closes
\* whatever socket is ws.current.
onerror(s) ==
    /\ sock[s] \in {"aborting", "closing"} \/ (sock[s] \in Alive /\ ~serverUp)
    /\ sock' = CloseCurrent([sock EXCEPT ![s] = "closed"])
    /\ isConnected' = FALSE
    /\ scheduleReconnect
    /\ UNCHANGED <<mounted, active, current, waiting, envVars, excused>>

-----------------------------------------------------------------------------
(* The component and the app.                                              *)

\* Variation: the app state listener does not connect.
Foreground_Waits ==
    /\ mounted /\ active' = TRUE
    /\ UNCHANGED <<mounted, hookVars, envVars, excused>>

\* An "active" event; inactive and back to active is one, too.
Foreground ==
    /\ mounted /\ active' = TRUE
    /\ \/ isConnected /\ UNCHANGED <<waiting, excused>>
       \/ ~isConnected /\ Load < MaxLoad /\ connect
    /\ UNCHANGED <<mounted, isConnected, reconnectAttempts, current, sock, latest, older, envVars>>

Background ==
    /\ mounted /\ active
    /\ active' = FALSE
    /\ disconnect
    /\ UNCHANGED <<mounted, isConnected, reconnectAttempts, current, waiting, older, envVars,
                   excused>>

\* The component is rendered with another communityId: the first effect runs again.
ChangeCommunity ==
    /\ mounted /\ active /\ Load < MaxLoad
    /\ disconnect /\ connect
    /\ UNCHANGED <<mounted, active, isConnected, reconnectAttempts, current, older, envVars>>

\* The component calls the disconnect it was given.
Disconnect ==
    /\ mounted /\ active
    /\ disconnect
    /\ excused' = TRUE
    /\ UNCHANGED <<mounted, active, isConnected, reconnectAttempts, current, waiting, older,
                   envVars>>

Unmount ==
    /\ mounted
    /\ mounted' = FALSE
    /\ disconnect
    /\ UNCHANGED <<active, isConnected, reconnectAttempts, current, waiting, older, envVars,
                   excused>>

\* The user signs in or out, the server comes and goes.
Environment ==
    /\ \/ hasTokens' = ~hasTokens /\ UNCHANGED serverUp
       \/ serverUp' = ~serverUp /\ UNCHANGED hasTokens
    /\ UNCHANGED <<mounted, active, hookVars, excused>>

Resumes == ConnectReturns \/ ConnectOpens \/ ConnectThrows

Reports(s) == onopen(s) \/ onclose(s) \/ onerror(s)

Next ==
    \/ Resumes \/ TimerFires
    \/ \E s \in Sockets : Reports(s)
    \/ Foreground \/ Background \/ ChangeCommunity \/ Disconnect \/ Unmount \/ Environment

Spec == Init /\ [][Next]_vars

\* Promises resume, timers fire, and what happens to a socket is reported.
FairSpec ==
    /\ Spec /\ WF_vars(Resumes) /\ WF_vars(TimerFires)
    /\ \A s \in Sockets : WF_vars(sock[s] # "open" /\ Reports(s))

-----------------------------------------------------------------------------
(* Properties.                                                             *)

Idle == live = {} /\ waiting = 0 /\ older = 0 /\ ~latest

\* isConnected is true only while some socket has opened and its close has not been
\* reported, whichever of several sockets opened and closed in between: a foreground
\* event that trusts isConnected and does not connect is followed by a close.
ConnectedHasSocket == isConnected => \E s \in Sockets : sock[s] \in {"open", "closing"}

\* A hook in the foreground does not stop silently: with no socket, no timer and no
\* connect() under way it has used up its MAX_RECONNECTS, found no tokens, or was
\* told to disconnect.
NoSilentStop ==
    mounted /\ active /\ Idle => reconnectAttempts = MAX_RECONNECTS \/ excused

\* With tokens, a server and the app in the foreground for good, the hook is connected
\* again after every lost or replaced socket, unless it ran out of attempts or was told
\* to disconnect.
Recovers ==
    <>[](mounted /\ active /\ hasTokens /\ serverUp /\ ~excused)
        => []<>(isConnected \/ reconnectAttempts = MAX_RECONNECTS)
=============================================================================
