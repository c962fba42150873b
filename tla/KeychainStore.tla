---------------------------- MODULE KeychainStore ----------------------------
(***************************************************************************)
(* keychain.ts implements TokenStore: it is a single cell as long as the   *)
(* native keychain works in time, that is, no call fails or takes longer   *)
(* than the timer and no corrupt item is read.  ApiClient uses the token   *)
(* store in this form.                                                     *)
(***************************************************************************)
EXTENDS Keychain

StorePhase == [o \in Ops |-> CASE phase[o] = "waiting"  -> "called"
                               [] phase[o] = "answered" -> "served"
                               [] OTHER                 -> phase[o]]

StoreOrder == [i \in 1 .. Len(queue) |-> queue[i].op]

Store == INSTANCE TokenStore WITH
            Initial <- {NoTokens, Earlier, Corrupt},
            tokens <- item, order <- StoreOrder, phase <- StorePhase,
            reply <- value, returned <- result, works <- ~trouble

\* While the native keychain works in time, getTokens, saveTokens and clearTokens are a
\* single cell with operations in the order of their calls: neither fallbackTokens nor
\* the awaits inside the operations show.  After trouble the next start of the app finds
\* the cell as it is and nothing under way.
KeychainIsStore == Store!Spec
=============================================================================
