----------------------------- MODULE TokenStore ------------------------------
(***************************************************************************)
(* What the rest of the app expects of mobile/src/utils/keychain.ts: one   *)
(* cell that holds a token pair or nothing.  Reads, saves and clears take  *)
(* effect one at a time, in the order in which they were called, at some   *)
(* moment between the call and the return.  Only the cell survives a       *)
(* restart of the app.                                                     *)
(*                                                                         *)
(* The promise holds while the native keychain works in time, and again    *)
(* from the next start of the app.                                         *)
(***************************************************************************)
EXTENDS Sequences

CONSTANTS Ops, NoTokens,
          Initial       \* what the cell may hold when the app starts

VARIABLES tokens,       \* the cell
          order,        \* the operations called and not served yet
          kind, phase,  \* of each operation
          reply,        \* what a read found
          returned,     \* what a read returned
          works         \* the native keychain has worked in time since the app started

vars == <<tokens, order, kind, phase, reply, returned, works>>

Init ==
    /\ tokens \in Initial /\ order = <<>> /\ works = TRUE
    /\ kind = [o \in Ops |-> "get"] /\ phase = [o \in Ops |-> "idle"]
    /\ reply = [o \in Ops |-> NoTokens] /\ returned = [o \in Ops |-> NoTokens]

Call(o, k) ==
    /\ phase[o] = "idle"
    /\ kind' = [kind EXCEPT ![o] = k]
    /\ phase' = [phase EXCEPT ![o] = "called"]
    /\ order' = Append(order, o)
    /\ UNCHANGED <<tokens, reply, returned>>

Serve ==
    /\ order # <<>>
    /\ LET o == Head(order) IN
       /\ phase' = [phase EXCEPT ![o] = "served"]
       /\ \/ kind[o] = "get" /\ reply' = [reply EXCEPT ![o] = tokens] /\ UNCHANGED tokens
          \/ kind[o] = "save" /\ tokens' = o /\ UNCHANGED reply
          \/ kind[o] = "clear" /\ tokens' = NoTokens /\ UNCHANGED reply
    /\ order' = Tail(order)
    /\ UNCHANGED <<kind, returned>>

Return(o) ==
    /\ phase[o] = "served"
    /\ phase' = [phase EXCEPT ![o] = "done"]
    /\ returned' = IF kind[o] = "get" THEN [returned EXCEPT ![o] = reply[o]] ELSE returned
    /\ UNCHANGED <<tokens, order, kind, reply>>

Restart ==
    /\ order' = <<>>
    /\ phase' = [o \in Ops |-> IF phase[o] \in {"called", "served"} THEN "killed" ELSE phase[o]]
    /\ UNCHANGED <<tokens, kind, reply, returned>>

Operates ==
    \/ \E o \in Ops, k \in {"get", "save", "clear"} : Call(o, k)
    \/ \E o \in Ops : Return(o)
    \/ Serve \/ Restart

\* The app starts again after trouble: nothing is under way, and the cell is what it is.
Recovers ==
    /\ tokens' = tokens /\ order' = <<>>
    /\ \A o \in Ops : phase'[o] \in {"idle", "done", "killed"}

Next ==
    \/ works /\ works' /\ Operates
    \/ ~works /\ works' /\ Recovers
    \/ ~works'                          \* trouble: nothing is promised

Spec == Init /\ [][Next]_vars
=============================================================================
