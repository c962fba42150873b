------------------------------ MODULE Keychain -------------------------------
(***************************************************************************)
(* getTokens, saveTokens and clearTokens of mobile/src/utils/keychain.ts.  *)
(* Each races a call of the native keychain against a timer of two         *)
(* seconds.  A call that lost the race is not cancelled: it still runs,    *)
(* and nobody hears its answer.  fallbackTokens is consulted when the      *)
(* native item is missing or unreadable.                                   *)
(*                                                                         *)
(* Operations run concurrently: every API request reads the tokens while a *)
(* refresh, a login or a sign-out writes them.                             *)
(***************************************************************************)
EXTENDS Naturals, Sequences

CONSTANTS Ops,        \* the operations the app calls, each used once
          NoTokens,   \* null
          Earlier,    \* the pair an earlier run of the app saved
          Corrupt     \* an item with an empty user name or password

ASSUME ValuesAssumption ==
    /\ NoTokens \notin Ops /\ Earlier \notin Ops /\ Corrupt \notin Ops
    /\ NoTokens # Earlier /\ NoTokens # Corrupt /\ Earlier # Corrupt

VARIABLES
    item,             \* what the native keychain holds for SERVICE
    fallbackTokens,
    queue,            \* native calls not run yet, in the order they were made
    kind, phase,      \* of each operation
    value,            \* what the native call of a getTokens read
    result,           \* what a getTokens returned
    last,             \* history: the last saveTokens or clearTokens called since the start
    landed,           \* history: the native call of last has run and worked
    erasing,          \* history: a getTokens called resetGenericPassword since last was called
    trouble,          \* history: a native call failed, a timer fired, or the item was corrupt
    initial,          \* history: the item when the app started
    expected          \* history: what the writes called before a getTokens make of the tokens

nativeVars == <<item, queue>>
jsVars     == <<fallbackTokens, kind, phase, value, result>>
histVars   == <<last, landed, erasing, trouble, initial, expected>>
vars       == <<nativeVars, jsVars, histVars>>

\* A pair is named by the saveTokens that was called with it.
Pairs  == Ops \cup {Earlier}
Tokens == Pairs \cup {NoTokens}
Items  == Tokens \cup {Corrupt}

\* "waiting" for the native call, "answered" or "failed" when it has run but the
\* operation has not resumed, "resetting" and "resetDone" around the second native
\* call of getTokens.
Phases == {"idle", "waiting", "answered", "failed", "resetting", "resetDone",
           "done", "killed"}

NativeCalls == [op : Ops, call : {"get", "set", "reset"}]

\* Types of the native keychain, the operations and the history.
TypeOK ==
    /\ item \in Items /\ queue \in Seq(NativeCalls)
    /\ fallbackTokens \in Tokens
    /\ kind \in [Ops -> {"get", "save", "clear"}] /\ phase \in [Ops -> Phases]
    /\ value \in [Ops -> Items] /\ result \in [Ops -> Tokens]
    /\ last \in Ops \cup {NoTokens} /\ initial \in Items
    /\ landed \in BOOLEAN /\ erasing \in BOOLEAN /\ trouble \in BOOLEAN
    /\ expected \in [Ops -> Items]

Init ==
    /\ item \in {NoTokens, Earlier, Corrupt} /\ queue = <<>>
    /\ fallbackTokens = NoTokens
    /\ kind = [o \in Ops |-> "get"] /\ phase = [o \in Ops |-> "idle"]
    /\ value = [o \in Ops |-> NoTokens] /\ result = [o \in Ops |-> NoTokens]
    /\ last = NoTokens /\ initial = item
    /\ landed = FALSE /\ erasing = FALSE /\ trouble = FALSE
    /\ expected = [o \in Ops |-> NoTokens]

-----------------------------------------------------------------------------
(* The operations, up to their first await.                                *)

\* What the writes called so far make of the tokens, on a keychain that works.
Written == IF last = NoTokens THEN initial
           ELSE IF kind[last] = "save" THEN last ELSE NoTokens

Calls(o, call) == queue' = Append(queue, [op |-> o, call |-> call])

getTokens(o) ==
    /\ phase[o] = "idle"
    /\ kind' = [kind EXCEPT ![o] = "get"]
    /\ phase' = [phase EXCEPT ![o] = "waiting"]
    /\ Calls(o, "get")
    /\ expected' = [expected EXCEPT ![o] = Written]
    /\ UNCHANGED <<item, fallbackTokens, value, result, last, landed, erasing, trouble, initial>>

\* Variation: the service is reset after the write instead of before it.
saveTokens_ResetAfter(o) ==
    /\ phase[o] = "idle"
    /\ kind' = [kind EXCEPT ![o] = "save"]
    /\ phase' = [phase EXCEPT ![o] = "waiting"]
    /\ queue' = queue \o <<[op |-> o, call |-> "set"], [op |-> o, call |-> "reset"]>>
    /\ last' = o /\ landed' = FALSE /\ erasing' = FALSE
    /\ UNCHANGED <<item, fallbackTokens, value, result, trouble, initial, expected>>

saveTokens(o) ==
    /\ phase[o] = "idle"
    /\ kind' = [kind EXCEPT ![o] = "save"]
    /\ phase' = [phase EXCEPT ![o] = "waiting"]
    /\ Calls(o, "set")
    /\ last' = o /\ landed' = FALSE /\ erasing' = FALSE
    /\ UNCHANGED <<item, fallbackTokens, value, result, trouble, initial, expected>>

clearTokens(o) ==
    /\ phase[o] = "idle"
    /\ kind' = [kind EXCEPT ![o] = "clear"]
    /\ phase' = [phase EXCEPT ![o] = "waiting"]
    /\ fallbackTokens' = NoTokens
    /\ Calls(o, "reset")
    /\ last' = o /\ landed' = FALSE /\ erasing' = FALSE
    /\ UNCHANGED <<item, value, result, trouble, initial, expected>>

-----------------------------------------------------------------------------
(* The native keychain (react-native-keychain): one call after the other,  *)
(* in the order of the calls; a call that fails changes nothing.           *)

\* The operation that waits for native call c, if it still does, hears about it.
Hears(c, how) ==
    phase' = [phase EXCEPT ![c.op] =
                 IF @ = "waiting" THEN how
                 ELSE IF @ = "resetting" /\ c.call = "reset" THEN "resetDone" ELSE @]

NativeRuns ==
    /\ queue # <<>>
    /\ LET c == Head(queue) IN
       /\ item' = IF c.call = "get" THEN item
                  ELSE IF c.call = "set" THEN c.op ELSE NoTokens
       /\ value' = IF c.call = "get" THEN [value EXCEPT ![c.op] = item] ELSE value
       /\ landed' = (landed \/ c.op = last)
       /\ Hears(c, "answered")
    /\ queue' = Tail(queue)
    /\ UNCHANGED <<fallbackTokens, kind, result, last, erasing, trouble, initial, expected>>

NativeFails ==
    /\ queue # <<>>
    /\ Hears(Head(queue), "failed")
    /\ queue' = Tail(queue)
    /\ trouble' = TRUE
    /\ UNCHANGED <<item, fallbackTokens, kind, value, result, last, landed, erasing,
                   initial, expected>>

-----------------------------------------------------------------------------
(* The operations after their first await.                                 *)

Ends(o) == phase' = [phase EXCEPT ![o] = "done"]

\* Variation: the reset is awaited but not called.
Resets_NotCalled(o) ==
    /\ phase' = [phase EXCEPT ![o] = "resetting"]
    /\ erasing' = TRUE /\ trouble' = TRUE
    /\ UNCHANGED <<nativeVars, fallbackTokens, kind, value, result, last, landed,
                   initial, expected>>

\* getTokens found the item unreadable: it resets the keychain, outside the timer.
Resets(o) ==
    /\ phase' = [phase EXCEPT ![o] = "resetting"]
    /\ Calls(o, "reset")
    /\ erasing' = TRUE /\ trouble' = TRUE
    /\ UNCHANGED <<item, fallbackTokens, kind, value, result, last, landed, initial, expected>>

\* Variation: the item is not checked for empty strings.
GetReturns_Unchecked(o) ==
    /\ kind[o] = "get" /\ phase[o] = "answered"
    /\ result' = [result EXCEPT ![o] = IF value[o] = NoTokens THEN fallbackTokens
                                                              ELSE value[o]]
    /\ Ends(o)
    /\ UNCHANGED <<nativeVars, fallbackTokens, kind, value, histVars>>

\* getTokens read a pair, or nothing and then returns the fallback.
GetReturns(o) ==
    /\ kind[o] = "get" /\ phase[o] = "answered" /\ value[o] # Corrupt
    /\ result' = [result EXCEPT ![o] = IF value[o] = NoTokens THEN fallbackTokens
                                                              ELSE value[o]]
    /\ Ends(o)
    /\ UNCHANGED <<nativeVars, fallbackTokens, kind, value, histVars>>

GetGivesUp(o) ==
    /\ kind[o] = "get"
    /\ phase[o] = "failed" \/ (phase[o] = "answered" /\ value[o] = Corrupt)
    /\ Resets(o)

GetReturnsFallback(o) ==
    /\ kind[o] = "get" /\ phase[o] = "resetDone"
    /\ result' = [result EXCEPT ![o] = fallbackTokens]
    /\ Ends(o)
    /\ UNCHANGED <<nativeVars, fallbackTokens, kind, value, histVars>>

\* Variation: the fallback keeps the pair after a write that worked.
SaveReturns_KeepsFallback(o) ==
    /\ kind[o] = "save" /\ phase[o] \in {"answered", "failed"}
    /\ fallbackTokens' = o
    /\ Ends(o)
    /\ UNCHANGED <<nativeVars, kind, value, result, histVars>>

SaveReturns(o) ==
    /\ kind[o] = "save" /\ phase[o] \in {"answered", "failed"}
    /\ fallbackTokens' = IF phase[o] = "answered" THEN NoTokens ELSE o
    /\ Ends(o)
    /\ UNCHANGED <<nativeVars, kind, value, result, histVars>>

ClearReturns(o) ==
    /\ kind[o] = "clear" /\ phase[o] \in {"answered", "failed"}
    /\ Ends(o)
    /\ UNCHANGED <<nativeVars, fallbackTokens, kind, value, result, histVars>>

\* withTimeout rejects: the operation takes its catch block.
Racing(o) == phase[o] \in {"waiting", "answered", "failed"}

GetTimesOut(o) == kind[o] = "get" /\ Racing(o) /\ Resets(o)

WriteTimesOut(o) ==
    /\ kind[o] # "get" /\ Racing(o)
    /\ fallbackTokens' = IF kind[o] = "save" THEN o ELSE fallbackTokens
    /\ Ends(o)
    /\ trouble' = TRUE
    /\ UNCHANGED <<nativeVars, kind, value, result, last, landed, erasing, initial, expected>>

\* The app is killed and started again: the native item is all that is left.
Restart ==
    /\ \E o \in Ops : phase[o] # "idle"
    /\ queue' = <<>> /\ fallbackTokens' = NoTokens
    /\ phase' = [o \in Ops |-> IF phase[o] \in {"idle", "done"} THEN phase[o] ELSE "killed"]
    /\ last' = NoTokens /\ initial' = item
    /\ landed' = FALSE /\ erasing' = FALSE /\ trouble' = FALSE
    /\ UNCHANGED <<item, kind, value, result, expected>>

-----------------------------------------------------------------------------

\* An operation resumes, or its timer fires.
Resumes(o) ==
    \/ GetReturns(o) \/ GetGivesUp(o) \/ GetReturnsFallback(o)
    \/ SaveReturns(o) \/ ClearReturns(o)
    \/ GetTimesOut(o) \/ WriteTimesOut(o)

Next ==
    \/ \E o \in Ops : getTokens(o) \/ saveTokens(o) \/ clearTokens(o) \/ Resumes(o)
    \/ NativeRuns \/ NativeFails \/ Restart

Spec == Init /\ [][Next]_vars

\* Timers fire, promises resume, and the native keychain runs its calls sooner or later.
FairSpec ==
    Spec /\ (\A o \in Ops : WF_vars(Resumes(o))) /\ WF_vars(NativeRuns \/ NativeFails)

-----------------------------------------------------------------------------
(* Properties.                                                             *)

IsSave(o) == o \in Ops /\ kind[o] = "save"

\* saveTokens sticks: once its native write has worked, and as long as no write is
\* called and no getTokens resets the keychain, the item is its pair, whatever slow
\* writes of earlier operations are still to run or to time out.
SaveSticks == IsSave(last) /\ landed /\ ~erasing => item = last

\* Nobody waits for nothing: an operation that awaits the native keychain has a call there
\* that has not run, and the reset that getTokens awaits outside the timer is a call of
\* its own, behind the one that timed out.
WaitersAreQueued ==
    \A o \in Ops : phase[o] \in {"waiting", "resetting"} =>
        \E i \in 1 .. Len(queue) :
            queue[i].op = o /\ (phase[o] = "resetting" => queue[i].call = "reset")

\* On a keychain that works in time, getTokens returns what the last write called
\* before it left, awaited or not: fallbackTokens never gets in the way.
ReadsLatestWrite ==
    [][\A o \in Ops :
          kind[o] = "get" /\ phase[o] = "answered" /\ phase'[o] = "done" /\ ~trouble
              => result'[o] = expected[o]]_vars

\* Every operation ends, through whatever time-outs and failures, if the native
\* keychain answers its calls sooner or later.
OperationsEnd ==
    \A o \in Ops : phase[o] # "idle" ~> phase[o] \in {"done", "killed"}
=============================================================================
