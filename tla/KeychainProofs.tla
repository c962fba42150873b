--------------------------- MODULE KeychainProofs ----------------------------
(***************************************************************************)
(* TLAPS proofs about Keychain, for any set of operations.                 *)
(***************************************************************************)
EXTENDS KeychainStore, TLAPS, SequenceTheorems

LEMMA EmptyQueue == <<>> \in Seq(NativeCalls)
  OBVIOUS

LEMMA InitTypeOK == Init => TypeOK
  <1> SUFFICES ASSUME Init PROVE TypeOK
    OBVIOUS
  <1>1. item \in Items /\ initial \in Items
    BY DEF Init, Items, Tokens, Pairs
  <1>2. /\ NoTokens \in Items /\ NoTokens \in Tokens /\ "idle" \in Phases
        /\ queue \in Seq(NativeCalls)
    BY EmptyQueue DEF Init, Items, Tokens, Phases
  <1>3. QED
    BY <1>1, <1>2 DEF Init, TypeOK

\* Appending a native call keeps the type of the queue.
LEMMA CallsType ==
    ASSUME TypeOK, NEW o \in Ops, NEW call \in {"get", "set", "reset"}, Calls(o, call)
    PROVE  queue' \in Seq(NativeCalls)
  BY DEF TypeOK, Calls, NativeCalls

LEMMA ResetsTypeOK ==
    ASSUME TypeOK, NEW o \in Ops, Resets(o)
    PROVE  TypeOK'
  <1>1. queue' \in Seq(NativeCalls)
    BY CallsType DEF Resets
  <1>2. QED
    BY <1>1 DEF Resets, TypeOK, Phases

\* The head of a queue that is not empty is a native call.
LEMMA HeadCall ==
    ASSUME TypeOK, queue # <<>>
    PROVE  /\ Head(queue) \in NativeCalls
           /\ Head(queue).op \in Ops
           /\ Tail(queue) \in Seq(NativeCalls)
  <1>1. queue \in Seq(NativeCalls)
    BY DEF TypeOK
  <1>2. Head(queue) \in NativeCalls /\ Tail(queue) \in Seq(NativeCalls)
    BY <1>1
  <1>3. QED
    BY <1>2 DEF NativeCalls

LEMMA NativeTypeOK ==
    ASSUME TypeOK, NativeRuns \/ NativeFails
    PROVE  TypeOK'
  <1>0. queue # <<>>
    BY DEF NativeRuns, NativeFails
  <1>1. PICK c \in NativeCalls : c = Head(queue) /\ c.op \in Ops /\ Tail(queue) \in Seq(NativeCalls)
    BY <1>0, HeadCall
  <1>2. CASE NativeRuns
    <2>1. item' \in Items /\ value' \in [Ops -> Items]
      BY <1>1, <1>2 DEF NativeRuns, TypeOK, Items, Tokens, Pairs
    <2>2. phase' \in [Ops -> Phases]
      BY <1>1, <1>2 DEF NativeRuns, Hears, TypeOK, Phases
    <2>3. landed' \in BOOLEAN
      BY <1>2 DEF NativeRuns
    <2>4. QED
      BY <1>1, <1>2, <2>1, <2>2, <2>3 DEF NativeRuns, TypeOK
  <1>3. CASE NativeFails
    <2>2. phase' \in [Ops -> Phases]
      BY <1>1, <1>3 DEF NativeFails, Hears, TypeOK, Phases
    <2>4. QED
      BY <1>1, <1>3, <2>2 DEF NativeFails, TypeOK
  <1>4. QED
    BY <1>2, <1>3

LEMMA NextTypeOK == TypeOK /\ [Next]_vars => TypeOK'
  <1> SUFFICES ASSUME TypeOK, [Next]_vars PROVE TypeOK'
    OBVIOUS
  <1>1. ASSUME NEW o \in Ops, getTokens(o) PROVE TypeOK'
    <2>1. queue' \in Seq(NativeCalls)
      BY <1>1, CallsType DEF getTokens
    <2>2. Written \in Items
      BY DEF Written, TypeOK, Items, Tokens, Pairs
    <2>3. QED
      BY <1>1, <2>1, <2>2 DEF getTokens, TypeOK, Phases
  <1>2. ASSUME NEW o \in Ops, saveTokens(o) PROVE TypeOK'
    <2>1. queue' \in Seq(NativeCalls)
      BY <1>2, CallsType DEF saveTokens
    <2>2. QED
      BY <1>2, <2>1 DEF saveTokens, TypeOK, Phases
  <1>3. ASSUME NEW o \in Ops, clearTokens(o) PROVE TypeOK'
    <2>1. queue' \in Seq(NativeCalls)
      BY <1>3, CallsType DEF clearTokens
    <2>2. QED
      BY <1>3, <2>1 DEF clearTokens, TypeOK, Phases, Tokens
  <1>4. ASSUME NEW o \in Ops, GetReturns(o) \/ GetReturnsFallback(o) PROVE TypeOK'
    <2>1. result' \in [Ops -> Tokens]
      BY <1>4 DEF GetReturns, GetReturnsFallback, TypeOK, Items
    <2>2. QED
      BY <1>4, <2>1 DEF GetReturns, GetReturnsFallback, Ends, TypeOK, Phases, nativeVars, histVars
  <1>5. ASSUME NEW o \in Ops, GetGivesUp(o) \/ GetTimesOut(o) PROVE TypeOK'
    BY <1>5, ResetsTypeOK DEF GetGivesUp, GetTimesOut
  <1>6. ASSUME NEW o \in Ops, SaveReturns(o) \/ ClearReturns(o) \/ WriteTimesOut(o)
        PROVE  TypeOK'
    BY <1>6 DEF SaveReturns, ClearReturns, WriteTimesOut, Ends, TypeOK, Phases, Tokens,
                Pairs, nativeVars, histVars
  <1>7. CASE NativeRuns \/ NativeFails
    BY <1>7, NativeTypeOK
  <1>8. CASE Restart
    <2>1. phase' \in [Ops -> Phases]
      BY <1>8 DEF Restart, TypeOK, Phases
    <2>2. queue' \in Seq(NativeCalls) /\ fallbackTokens' \in Tokens /\ initial' \in Items
      BY <1>8, EmptyQueue DEF Restart, TypeOK, Tokens
    <2>3. QED
      BY <1>8, <2>1, <2>2 DEF Restart, TypeOK
  <1>9. CASE UNCHANGED vars
    BY <1>9 DEF vars, nativeVars, jsVars, histVars, TypeOK
  <1>10. QED
    BY <1>1, <1>2, <1>3, <1>4, <1>5, <1>6, <1>7, <1>8, <1>9 DEF Next, Resumes

\* The native keychain, the operations and the history keep their types.
THEOREM TypeCorrect == Spec => []TypeOK
  BY InitTypeOK, NextTypeOK, PTL DEF Spec

-----------------------------------------------------------------------------
(* A saved pair sticks.                                                    *)

\* Operations that have made no native call yet are in no call; only saveTokens
\* calls setGenericPassword.
QueueOwned ==
    \A i \in 1 .. Len(queue) :
        /\ phase[queue[i].op] # "idle"
        /\ kind[queue[i].op] = "save" <=> queue[i].call = "set"

\* Behind the write of the last saveTokens only reads are queued.
OnlyReadsBehind ==
    \A i \in 1 .. Len(queue) : queue[i].op = last =>
        \A j \in 1 .. Len(queue) : i < j => queue[j].call = "get"

\* Once that write has run, only reads are left.
OnlyReadsLeft == \A i \in 1 .. Len(queue) : queue[i].call = "get"

StickInv ==
    /\ QueueOwned
    /\ last \in Ops => phase[last] # "idle"
    /\ IsSave(last) /\ ~erasing =>
          /\ OnlyReadsBehind
          /\ landed => item = last /\ OnlyReadsLeft

LEMMA AppendFacts ==
    ASSUME TypeOK, NEW o \in Ops, NEW call \in {"get", "set", "reset"}, Calls(o, call)
    PROVE  /\ Len(queue) \in Nat /\ Len(queue') = Len(queue) + 1
           /\ \A i \in 1 .. Len(queue) : queue'[i] = queue[i]
           /\ queue'[Len(queue) + 1].op = o /\ queue'[Len(queue) + 1].call = call
  <1> DEFINE c == [op |-> o, call |-> call]
  <1>1. c \in NativeCalls /\ c.op = o /\ c.call = call
    BY DEF NativeCalls
  <1>2. queue \in Seq(NativeCalls) /\ queue' = Append(queue, c)
    BY DEF TypeOK, Calls
  <1> HIDE DEF c
  <1>3. QED
    BY <1>1, <1>2

LEMMA TailFacts ==
    ASSUME TypeOK, queue # <<>>, queue' = Tail(queue)
    PROVE  /\ Len(queue) \in Nat /\ Len(queue) >= 1 /\ Len(queue') = Len(queue) - 1
           /\ \A i \in 1 .. Len(queue') : i + 1 \in 1 .. Len(queue) /\ queue'[i] = queue[i + 1]
           /\ Head(queue) = queue[1]
  <1>1. queue \in Seq(NativeCalls)
    BY DEF TypeOK
  <1>2. QED
    BY <1>1

\* The native calls have an operation.
LEMMA QueueOps ==
    ASSUME TypeOK, NEW i \in 1 .. Len(queue)
    PROVE  queue[i].op \in Ops
  <1>1. queue \in Seq(NativeCalls)
    BY DEF TypeOK
  <1>2. queue[i] \in NativeCalls
    BY <1>1
  <1>3. QED
    BY <1>2 DEF NativeCalls

\* A call appended by an operation that has left "idle" and is of the right kind.
LEMMA AppendOwned ==
    ASSUME TypeOK, QueueOwned, NEW o \in Ops, NEW call \in {"get", "set", "reset"},
           Calls(o, call), phase'[o] # "idle", kind'[o] = "save" <=> call = "set",
           \A q \in Ops \ {o} : phase'[q] = phase[q] /\ kind'[q] = kind[q],
           phase[o] = "idle" \/ kind'[o] = kind[o]
    PROVE  QueueOwned'
  <1> SUFFICES ASSUME NEW i \in 1 .. Len(queue')
               PROVE  /\ phase'[queue'[i].op] # "idle"
                      /\ kind'[queue'[i].op] = "save" <=> queue'[i].call = "set"
    BY DEF QueueOwned
  <1>1. CASE i \in 1 .. Len(queue)
    <2>1. queue'[i] = queue[i] /\ queue[i].op \in Ops
      BY <1>1, AppendFacts, QueueOps
    <2>2. /\ phase[queue[i].op] # "idle"
          /\ kind[queue[i].op] = "save" <=> queue[i].call = "set"
      BY <1>1 DEF QueueOwned
    <2>3. QED
      BY <2>1, <2>2
  <1>2. CASE i = Len(queue) + 1
    BY <1>2, AppendFacts
  <1>3. i \in 1 .. Len(queue) \/ i = Len(queue) + 1
    BY AppendFacts
  <1>4. QED
    BY <1>1, <1>2, <1>3

LEMMA GetTokensStick ==
    ASSUME TypeOK, StickInv, NEW o \in Ops, getTokens(o)
    PROVE  StickInv'
  <1>1. /\ phase[o] = "idle" /\ phase'[o] = "waiting" /\ kind'[o] = "get"
        /\ Calls(o, "get")
        /\ \A q \in Ops \ {o} : phase'[q] = phase[q] /\ kind'[q] = kind[q]
        /\ last' = last /\ landed' = landed /\ erasing' = erasing /\ item' = item
    BY DEF getTokens, TypeOK
  <1>2. QueueOwned'
    BY <1>1, AppendOwned DEF StickInv
  <1>3. last' \in Ops => phase'[last'] # "idle"
    BY <1>1 DEF StickInv
  <1>4. ASSUME IsSave(last)', ~erasing' PROVE OnlyReadsBehind' /\ (landed' => item' = last' /\ OnlyReadsLeft')
    <2>1. IsSave(last) /\ ~erasing
      BY <1>1, <1>4 DEF IsSave
    <2>2. OnlyReadsBehind /\ (landed => item = last /\ OnlyReadsLeft)
      BY <2>1 DEF StickInv
    <2>3. OnlyReadsBehind'
      <3>1. OnlyReadsBehind
        BY <2>2
      <3>2. last' = last /\ last # o
        BY <1>1, <1>4 DEF IsSave
      <3>3. QED
        BY <1>1, <3>1, <3>2, AppendFacts DEF OnlyReadsBehind
    <2>4. OnlyReadsLeft => OnlyReadsLeft'
      BY <1>1, AppendFacts DEF OnlyReadsLeft
    <2>5. QED
      BY <1>1, <2>2, <2>3, <2>4
  <1>5. QED
    BY <1>2, <1>3, <1>4 DEF StickInv

\* The operation that is called now is in no native call: its write comes last.
LEMMA SaveTokensStick ==
    ASSUME TypeOK, StickInv, NEW o \in Ops, saveTokens(o)
    PROVE  StickInv'
  <1>1. /\ phase[o] = "idle" /\ phase'[o] = "waiting" /\ kind'[o] = "save"
        /\ Calls(o, "set")
        /\ \A q \in Ops \ {o} : phase'[q] = phase[q] /\ kind'[q] = kind[q]
        /\ last' = o
    BY DEF saveTokens, TypeOK
  <1>2. QueueOwned'
    BY <1>1, AppendOwned DEF StickInv
  <1>3. OnlyReadsBehind'
    <2>1. \A i \in 1 .. Len(queue) : queue[i].op # o
      BY <1>1 DEF StickInv, QueueOwned
    <2>2. QED
      BY <1>1, <2>1, AppendFacts DEF OnlyReadsBehind
  <1>4. ~landed'
    BY DEF saveTokens
  <1>5. QED
    BY <1>1, <1>2, <1>3, <1>4 DEF StickInv

LEMMA ClearTokensStick ==
    ASSUME TypeOK, StickInv, NEW o \in Ops, clearTokens(o)
    PROVE  StickInv'
  <1>1. /\ phase[o] = "idle" /\ phase'[o] = "waiting" /\ kind'[o] = "clear"
        /\ Calls(o, "reset")
        /\ \A q \in Ops \ {o} : phase'[q] = phase[q] /\ kind'[q] = kind[q]
        /\ last' = o
    BY DEF clearTokens, TypeOK
  <1>2. QueueOwned'
    BY <1>1, AppendOwned DEF StickInv
  <1>3. ~IsSave(last)'
    BY <1>1 DEF IsSave
  <1>4. QED
    BY <1>1, <1>2, <1>3 DEF StickInv

LEMMA ResetsStick ==
    ASSUME TypeOK, StickInv, NEW o \in Ops, Resets(o), kind[o] = "get"
    PROVE  StickInv'
  <1>1. /\ phase'[o] = "resetting" /\ kind' = kind /\ last' = last
        /\ Calls(o, "reset")
        /\ \A q \in Ops \ {o} : phase'[q] = phase[q]
    BY DEF Resets, TypeOK
  <1>2. QueueOwned'
    BY <1>1, AppendOwned DEF StickInv
  <1>3. erasing'
    BY DEF Resets
  <1>4. last' \in Ops => phase'[last'] # "idle"
    BY <1>1 DEF StickInv
  <1>5. QED
    BY <1>2, <1>3, <1>4 DEF StickInv

\* Steps that change neither the native keychain nor the history of writes.
LEMMA ReturnsStick ==
    ASSUME TypeOK, StickInv, UNCHANGED <<item, queue, kind, last, landed, erasing>>,
           \A q \in Ops : phase[q] # "idle" => phase'[q] # "idle"
    PROVE  StickInv'
  <1>1. QueueOwned'
    BY QueueOps DEF StickInv, QueueOwned
  <1>2. (OnlyReadsBehind' <=> OnlyReadsBehind) /\ (OnlyReadsLeft' <=> OnlyReadsLeft)
        /\ (IsSave(last)' <=> IsSave(last))
    BY DEF OnlyReadsBehind, OnlyReadsLeft, IsSave
  <1>3. QED
    BY <1>1, <1>2 DEF StickInv

LEMMA NativeStick ==
    ASSUME TypeOK, StickInv, NativeRuns \/ NativeFails
    PROVE  StickInv'
  <1>0. /\ queue # <<>> /\ queue' = Tail(queue)
        /\ kind' = kind /\ last' = last /\ erasing' = erasing
    BY DEF NativeRuns, NativeFails
  <1>1. PICK c \in NativeCalls : c = Head(queue) /\ c = queue[1] /\ c.op \in Ops
    BY <1>0, HeadCall, TailFacts
  <1>2. \A q \in Ops : phase[q] # "idle" => phase'[q] # "idle"
    BY <1>1 DEF NativeRuns, NativeFails, Hears, TypeOK
  <1>3. QueueOwned'
    <2> SUFFICES ASSUME NEW i \in 1 .. Len(queue')
                 PROVE  /\ phase'[queue'[i].op] # "idle"
                        /\ kind'[queue'[i].op] = "save" <=> queue'[i].call = "set"
      BY DEF QueueOwned
    <2>1. i + 1 \in 1 .. Len(queue) /\ queue'[i] = queue[i + 1]
      BY <1>0, TailFacts
    <2>2. queue[i + 1].op \in Ops
      BY <2>1, QueueOps
    <2>3. /\ phase[queue[i + 1].op] # "idle"
          /\ kind[queue[i + 1].op] = "save" <=> queue[i + 1].call = "set"
      BY <2>1 DEF StickInv, QueueOwned
    <2>4. QED
      BY <1>0, <1>2, <2>1, <2>2, <2>3
  <1>4. last' \in Ops => phase'[last'] # "idle"
    BY <1>0, <1>2 DEF StickInv
  <1>5. ASSUME IsSave(last)', ~erasing' PROVE OnlyReadsBehind' /\ (landed' => item' = last' /\ OnlyReadsLeft')
    <2>1. IsSave(last) /\ ~erasing
      BY <1>0, <1>5 DEF IsSave
    <2>2. OnlyReadsBehind /\ (landed => item = last /\ OnlyReadsLeft)
      BY <2>1 DEF StickInv
    <2>3. OnlyReadsBehind => OnlyReadsBehind'
      BY <1>0, TailFacts DEF OnlyReadsBehind
    <2>4. OnlyReadsLeft => OnlyReadsLeft'
      BY <1>0, TailFacts DEF OnlyReadsLeft
    <2>5. CASE NativeFails
      <3>1. landed' = landed /\ item' = item
        BY <2>5 DEF NativeFails
      <3>2. QED
        BY <1>0, <2>2, <2>3, <2>4, <3>1
    <2>6. CASE NativeRuns /\ c.op = last
      <3>1. 1 \in 1 .. Len(queue)
        BY <1>0, TailFacts
      <3>2. c.call = "set"
        BY <1>1, <2>1, <2>6, <3>1 DEF StickInv, QueueOwned, IsSave
      <3>3. item' = last
        BY <1>1, <2>6, <3>2 DEF NativeRuns
      <3>4. OnlyReadsLeft'
        <4>1. OnlyReadsBehind
          BY <2>2
        <4>2. \A j \in 1 .. Len(queue) : 1 < j => queue[j].call = "get"
          BY <1>1, <2>6, <3>1, <4>1 DEF OnlyReadsBehind
        <4>3. QED
          BY <1>0, <4>2, TailFacts DEF OnlyReadsLeft
      <3>5. QED
        BY <1>0, <2>2, <2>3, <3>3, <3>4
    <2>7. CASE NativeRuns /\ c.op # last
      <3>1. landed' = landed
        BY <1>1, <2>7 DEF NativeRuns, TypeOK
      <3>2. OnlyReadsLeft => item' = item
        <4>1. 1 \in 1 .. Len(queue)
          BY <1>0, TailFacts
        <4>2. OnlyReadsLeft => c.call = "get"
          BY <1>1, <4>1 DEF OnlyReadsLeft
        <4>3. QED
          BY <1>1, <2>7, <4>2 DEF NativeRuns
      <3>3. QED
        BY <1>0, <2>2, <2>3, <2>4, <3>1, <3>2
    <2>8. QED
      BY <2>5, <2>6, <2>7
  <1>6. QED
    BY <1>3, <1>4, <1>5 DEF StickInv

LEMMA NextStick == TypeOK /\ StickInv /\ [Next]_vars => StickInv'
  <1> SUFFICES ASSUME TypeOK, StickInv, [Next]_vars PROVE StickInv'
    OBVIOUS
  <1>1. ASSUME NEW o \in Ops, GetGivesUp(o) \/ GetTimesOut(o) PROVE StickInv'
    BY <1>1, ResetsStick DEF GetGivesUp, GetTimesOut
  <1>2. ASSUME NEW o \in Ops,
               \/ GetReturns(o) \/ GetReturnsFallback(o)
               \/ SaveReturns(o) \/ ClearReturns(o) \/ WriteTimesOut(o)
        PROVE  StickInv'
    <2>1. /\ UNCHANGED <<item, queue, kind, last, landed, erasing>>
          /\ Ends(o)
      BY <1>2 DEF GetReturns, GetReturnsFallback, SaveReturns, ClearReturns, WriteTimesOut,
                  nativeVars, histVars
    <2>2. \A q \in Ops : phase[q] # "idle" => phase'[q] # "idle"
      BY <2>1 DEF Ends, TypeOK
    <2>3. QED
      BY <2>1, <2>2, ReturnsStick
  <1>3. CASE Restart
    <2>1. queue' = <<>> /\ last' = NoTokens
      BY <1>3 DEF Restart
    <2>2. Len(queue') = 0
      BY <2>1
    <2>3. QueueOwned'
      BY <2>2 DEF QueueOwned
    <2>4. last' \notin Ops
      BY <2>1, ValuesAssumption
    <2>5. QED
      BY <2>3, <2>4 DEF StickInv, IsSave
  <1>4. CASE UNCHANGED vars
    <2>1. UNCHANGED <<item, queue, kind, phase, last, landed, erasing>>
      BY <1>4 DEF vars, nativeVars, jsVars, histVars
    <2>2. QED
      BY <2>1, ReturnsStick
  <1>5. QED
    BY <1>1, <1>2, <1>3, <1>4, GetTokensStick, SaveTokensStick, ClearTokensStick,
       NativeStick DEF Next, Resumes

\* Once the native write of the last saveTokens has worked, its pair stays in the
\* keychain until another write is called or a getTokens resets it.
THEOREM SavedPairSticks == Spec => []SaveSticks
  <1>1. Init => StickInv
    <2> SUFFICES ASSUME Init PROVE StickInv
      OBVIOUS
    <2>1. Len(queue) = 0 /\ last \notin Ops
      BY ValuesAssumption DEF Init
    <2>2. QED
      BY <2>1 DEF StickInv, QueueOwned, IsSave
  <1>2. StickInv => SaveSticks
    BY DEF StickInv, SaveSticks
  <1>3. QED
    BY <1>1, <1>2, NextStick, TypeCorrect, PTL DEF Spec

-----------------------------------------------------------------------------
(* keychain.ts implements TokenStore: as long as the native keychain works *)
(* in time, every operation waits for one call of its own.                 *)

\* The native call that an operation starts with.
FirstCall(k) == IF k = "get" THEN "get" ELSE IF k = "save" THEN "set" ELSE "reset"

QueueWaits ==
    \A i \in 1 .. Len(queue) :
        /\ phase[queue[i].op] = "waiting"
        /\ queue[i].call = FirstCall(kind[queue[i].op])

NobodyTwice ==
    \A i, j \in 1 .. Len(queue) : queue[i].op = queue[j].op => i = j

NoFailures == \A o \in Ops : phase[o] \notin {"failed", "resetting", "resetDone"}

\* As long as nothing went wrong.
Smooth == fallbackTokens = NoTokens /\ NoFailures /\ QueueWaits /\ NobodyTwice

SmoothInv == TypeOK /\ (~trouble => Smooth)

LEMMA InitSmooth == Init => SmoothInv
  BY InitTypeOK DEF Init, SmoothInv, Smooth, NoFailures, QueueWaits, NobodyTwice

LEMMA CallSmooth ==
  ASSUME SmoothInv, ~trouble, TypeOK', NEW o \in Ops,
         getTokens(o) \/ saveTokens(o) \/ clearTokens(o)
  PROVE  Smooth'
<1>1. PICK k \in {"get", "save", "clear"} :
          /\ kind' = [kind EXCEPT ![o] = k] /\ Calls(o, FirstCall(k))
          /\ FirstCall(k) \in {"get", "set", "reset"}
  BY DEF getTokens, saveTokens, clearTokens, FirstCall
<1>2. phase[o] = "idle" /\ phase' = [phase EXCEPT ![o] = "waiting"]
        /\ fallbackTokens' \in {fallbackTokens, NoTokens}
  BY DEF getTokens, saveTokens, clearTokens
<1>3. /\ Len(queue) \in Nat /\ Len(queue') = Len(queue) + 1
      /\ \A i \in 1 .. Len(queue) : queue'[i] = queue[i] /\ queue[i].op \in Ops
      /\ queue'[Len(queue) + 1].op = o /\ queue'[Len(queue) + 1].call = FirstCall(k)
  BY <1>1, AppendFacts, QueueOps DEF SmoothInv
<1>4. \A i \in 1 .. Len(queue) : queue[i].op # o
  BY <1>2 DEF SmoothInv, Smooth, QueueWaits
<1>5. QueueWaits'
  <2> SUFFICES ASSUME NEW i \in 1 .. Len(queue')
               PROVE  /\ phase'[queue'[i].op] = "waiting"
                      /\ queue'[i].call = FirstCall(kind'[queue'[i].op])
    BY DEF QueueWaits, FirstCall
  <2>1. \A q \in Ops \ {o} : phase'[q] = phase[q] /\ kind'[q] = kind[q]
    BY <1>1, <1>2 DEF SmoothInv, TypeOK
  <2>2. phase'[o] = "waiting" /\ kind'[o] = k
    BY <1>1, <1>2 DEF SmoothInv, TypeOK
  <2>3. CASE i \in 1 .. Len(queue)
    <3>1. /\ phase[queue[i].op] = "waiting"
          /\ queue[i].call = FirstCall(kind[queue[i].op])
      BY <2>3 DEF SmoothInv, Smooth, QueueWaits
    <3>2. queue'[i] = queue[i] /\ queue[i].op \in Ops \ {o}
      BY <1>3, <1>4, <2>3
    <3> QED
      BY <2>1, <3>1, <3>2
  <2>4. CASE i = Len(queue) + 1
    BY <1>3, <2>2, <2>4
  <2> QED
    BY <1>3, <2>3, <2>4
<1>6. NobodyTwice'
  BY <1>3, <1>4 DEF SmoothInv, Smooth, NobodyTwice
<1>7. NoFailures'
  BY <1>2 DEF SmoothInv, Smooth, NoFailures, TypeOK
<1> QED
  BY <1>2, <1>5, <1>6, <1>7 DEF Smooth, SmoothInv
LEMMA HeadSmooth ==
  ASSUME SmoothInv, ~trouble, queue # <<>>
  PROVE  \E c \in NativeCalls : /\ c = Head(queue) /\ c = queue[1] /\ c.op \in Ops
                               /\ phase[c.op] = "waiting"
                               /\ c.call = FirstCall(kind[c.op])
<1>1. PICK c \in NativeCalls : c = Head(queue) /\ c.op \in Ops
  BY HeadCall DEF SmoothInv
<1>2. Len(queue) \in Nat /\ Len(queue) >= 1 /\ c = queue[1]
  <2>1. queue \in Seq(NativeCalls)
    BY DEF SmoothInv, TypeOK
  <2> QED
    BY <1>1, <2>1
<1>3. phase[c.op] = "waiting" /\ c.call = FirstCall(kind[c.op])
  BY <1>2 DEF SmoothInv, Smooth, QueueWaits
<1> QED
  BY <1>1, <1>2, <1>3

LEMMA NativeSmooth ==
  ASSUME SmoothInv, ~trouble, TypeOK', NativeRuns
  PROVE  Smooth'
<1>1. PICK c \in NativeCalls : /\ c = Head(queue) /\ c = queue[1] /\ c.op \in Ops
                              /\ phase[c.op] = "waiting"
  BY HeadSmooth DEF NativeRuns
<1>2. /\ phase' = [phase EXCEPT ![c.op] = "answered"] /\ kind' = kind
      /\ fallbackTokens' = fallbackTokens
  BY <1>1 DEF NativeRuns, Hears
<1>3. /\ Len(queue) \in Nat /\ Len(queue) >= 1 /\ Len(queue') = Len(queue) - 1
      /\ \A i \in 1 .. Len(queue') : i + 1 \in 1 .. Len(queue) /\ queue'[i] = queue[i + 1]
  BY TailFacts DEF NativeRuns, SmoothInv
<1>4. \A i \in 1 .. Len(queue') : queue'[i].op \in Ops /\ queue'[i].op # c.op
  <2> SUFFICES ASSUME NEW i \in 1 .. Len(queue')
               PROVE  queue[i + 1].op \in Ops /\ queue[i + 1].op # queue[1].op
    BY <1>1, <1>3
  <2>1. i + 1 \in 1 .. Len(queue) /\ 1 \in 1 .. Len(queue) /\ i + 1 # 1
    BY <1>3
  <2> QED
    BY <2>1, QueueOps DEF SmoothInv, Smooth, NobodyTwice
<1>5. QueueWaits'
  <2> SUFFICES ASSUME NEW i \in 1 .. Len(queue')
               PROVE  /\ phase'[queue'[i].op] = "waiting"
                      /\ queue'[i].call = FirstCall(kind'[queue'[i].op])
    BY DEF QueueWaits, FirstCall
  <2>1. /\ phase[queue[i + 1].op] = "waiting"
        /\ queue[i + 1].call = FirstCall(kind[queue[i + 1].op])
    BY <1>3 DEF SmoothInv, Smooth, QueueWaits
  <2> QED
    BY <1>2, <1>3, <1>4, <2>1 DEF SmoothInv, TypeOK
<1>6. NobodyTwice'
  BY <1>3 DEF SmoothInv, Smooth, NobodyTwice
<1>7. NoFailures'
  BY <1>1, <1>2 DEF SmoothInv, Smooth, NoFailures, TypeOK
<1> QED
  BY <1>2, <1>5, <1>6, <1>7 DEF Smooth, SmoothInv

\* An operation that returns has nothing in the queue.
LEMMA ReturnSmooth ==
  ASSUME SmoothInv, ~trouble, TypeOK', NEW o \in Ops,
         GetReturns(o) \/ SaveReturns(o) \/ ClearReturns(o)
  PROVE  Smooth'
<1>1. phase[o] = "answered" /\ phase' = [phase EXCEPT ![o] = "done"]
        /\ queue' = queue /\ kind' = kind /\ fallbackTokens' \in {fallbackTokens, NoTokens}
  BY DEF GetReturns, SaveReturns, ClearReturns, Ends, nativeVars, SmoothInv, Smooth, NoFailures
<1>2. \A i \in 1 .. Len(queue) : queue[i].op \in Ops /\ queue[i].op # o
  BY <1>1, QueueOps DEF SmoothInv, Smooth, QueueWaits
<1>3. QueueWaits'
  <2>1. \A q \in Ops \ {o} : phase'[q] = phase[q]
    BY <1>1 DEF SmoothInv, TypeOK
  <2> QED
    BY <1>1, <1>2, <2>1 DEF QueueWaits, SmoothInv, Smooth, FirstCall
<1>4. NobodyTwice'
  BY <1>1 DEF NobodyTwice, SmoothInv, Smooth
<1>5. NoFailures'
  BY <1>1 DEF NoFailures, SmoothInv, Smooth, TypeOK
<1> QED
  BY <1>1, <1>3, <1>4, <1>5 DEF Smooth, SmoothInv

LEMMA RestartSmooth ==
  ASSUME TypeOK, Restart
  PROVE  Smooth'
<1>1. queue' = <<>> /\ Len(queue') = 0
  BY DEF Restart
<1>2. NoFailures'
  BY DEF Restart, NoFailures, TypeOK
<1> QED
  BY <1>1, <1>2 DEF Restart, Smooth, QueueWaits, NobodyTwice

LEMMA StepSmooth == SmoothInv /\ [Next]_vars => SmoothInv'
<1> SUFFICES ASSUME SmoothInv, [Next]_vars, ~trouble' PROVE Smooth'
  BY NextTypeOK DEF SmoothInv
<1>0. TypeOK /\ TypeOK'
  BY NextTypeOK DEF SmoothInv
<1>1. ASSUME NEW o \in Ops, getTokens(o) \/ saveTokens(o) \/ clearTokens(o) PROVE Smooth'
  <2>1. ~trouble
    BY <1>1 DEF getTokens, saveTokens, clearTokens
  <2> QED
    BY <1>0, <1>1, <2>1, CallSmooth
<1>2. CASE NativeRuns
  <2>1. ~trouble
    BY <1>2 DEF NativeRuns
  <2> QED
    BY <1>0, <1>2, <2>1, NativeSmooth
<1>3. CASE NativeFails
  BY <1>3 DEF NativeFails
<1>4. ASSUME NEW o \in Ops, GetReturns(o) \/ SaveReturns(o) \/ ClearReturns(o) PROVE Smooth'
  <2>1. ~trouble
    BY <1>4 DEF GetReturns, SaveReturns, ClearReturns, histVars
  <2> QED
    BY <1>0, <1>4, <2>1, ReturnSmooth
<1>5. ASSUME NEW o \in Ops, GetGivesUp(o) \/ GetTimesOut(o) \/ WriteTimesOut(o) PROVE Smooth'
  BY <1>5 DEF GetGivesUp, GetTimesOut, WriteTimesOut, Resets
<1>6. ASSUME NEW o \in Ops, GetReturnsFallback(o) PROVE Smooth'
  BY <1>6 DEF GetReturnsFallback, histVars, SmoothInv, Smooth, NoFailures
<1>7. CASE Restart
  BY <1>0, <1>7, RestartSmooth
<1>8. CASE UNCHANGED vars
  BY <1>8 DEF vars, nativeVars, jsVars, histVars, SmoothInv, Smooth, NoFailures, QueueWaits,
              NobodyTwice
<1> QED
  BY <1>1, <1>2, <1>3, <1>4, <1>5, <1>6, <1>7, <1>8 DEF Next, Resumes
-----------------------------------------------------------------------------
(* The refinement.                                                         *)

LEMMA OrderIsSeq ==
  ASSUME TypeOK
  PROVE  /\ StoreOrder \in Seq(Ops) /\ Len(StoreOrder) = Len(queue)
         /\ \A i \in 1 .. Len(queue) : StoreOrder[i] = queue[i].op
<1>1. Len(queue) \in Nat
  BY DEF TypeOK
<1>2. \A i \in 1 .. Len(queue) : queue[i].op \in Ops
  BY QueueOps
<1> QED
  BY <1>1, <1>2 DEF StoreOrder

LEMMA OrderIsSeqAfter ==
  ASSUME TypeOK'
  PROVE  /\ StoreOrder' \in Seq(Ops) /\ Len(StoreOrder') = Len(queue')
         /\ \A i \in 1 .. Len(queue') : StoreOrder'[i] = queue'[i].op
<1>1. Len(queue') \in Nat
  BY DEF TypeOK
<1>2. \A i \in 1 .. Len(queue') : queue'[i] \in NativeCalls
  BY DEF TypeOK
<1>3. \A c \in NativeCalls : c.op \in Ops
  BY DEF NativeCalls
<1> QED
  BY <1>1, <1>2, <1>3 DEF StoreOrder

LEMMA OrderAppended ==
  ASSUME TypeOK, TypeOK', NEW o \in Ops, NEW call \in {"get", "set", "reset"}, Calls(o, call)
  PROVE  StoreOrder' = Append(StoreOrder, o)
<1>1. /\ Len(queue) \in Nat /\ Len(queue') = Len(queue) + 1
      /\ \A i \in 1 .. Len(queue) : queue'[i] = queue[i]
      /\ queue'[Len(queue) + 1].op = o
  BY AppendFacts
<1>2. PICK before \in Seq(Ops), after \in Seq(Ops) :
          /\ before = StoreOrder /\ Len(before) = Len(queue)
          /\ \A i \in 1 .. Len(queue) : before[i] = queue[i].op
          /\ after = StoreOrder' /\ Len(after) = Len(queue')
          /\ \A i \in 1 .. Len(queue') : after[i] = queue'[i].op
  BY OrderIsSeq, OrderIsSeqAfter
<1>3. Append(before, o) \in Seq(Ops) /\ Len(Append(before, o)) = Len(after)
  BY <1>1, <1>2
<1>4. \A i \in 1 .. Len(after) : after[i] = Append(before, o)[i]
  BY <1>1, <1>2
<1>5. after = Append(before, o)
  BY <1>3, <1>4, SeqEqual
<1> QED
  BY <1>2, <1>5

LEMMA OrderServed ==
  ASSUME TypeOK, TypeOK', queue # <<>>, queue' = Tail(queue)
  PROVE  StoreOrder # <<>> /\ Head(StoreOrder) = Head(queue).op /\ StoreOrder' = Tail(StoreOrder)
<1>1. /\ Len(queue) \in Nat /\ Len(queue) >= 1 /\ Len(queue') = Len(queue) - 1
      /\ \A i \in 1 .. Len(queue') : i + 1 \in 1 .. Len(queue) /\ queue'[i] = queue[i + 1]
      /\ Head(queue) = queue[1]
  BY TailFacts
<1>2. PICK before \in Seq(Ops), after \in Seq(Ops) :
          /\ before = StoreOrder /\ Len(before) = Len(queue)
          /\ \A i \in 1 .. Len(queue) : before[i] = queue[i].op
          /\ after = StoreOrder' /\ Len(after) = Len(queue')
          /\ \A i \in 1 .. Len(queue') : after[i] = queue'[i].op
  BY OrderIsSeq, OrderIsSeqAfter
<1>3. before # <<>> /\ Head(before) = before[1]
  BY <1>1, <1>2
<1>4. /\ Tail(before) \in Seq(Ops) /\ Len(Tail(before)) = Len(after)
      /\ \A i \in 1 .. Len(after) : Tail(before)[i] = before[i + 1]
  BY <1>1, <1>2, <1>3, HeadTailProperties
<1>5. \A i \in 1 .. Len(after) : after[i] = Tail(before)[i]
  BY <1>1, <1>2, <1>4
<1>6. after = Tail(before)
  BY <1>4, <1>5, SeqEqual
<1> QED
  BY <1>1, <1>2, <1>3, <1>6

LEMMA OrderEmpty ==
  ASSUME queue = <<>> PROVE StoreOrder = <<>>
  BY DEF StoreOrder
WorkingInv == SmoothInv /\ ~trouble

LEMMA StoreInit == Init => Store!Init
<1> SUFFICES ASSUME Init PROVE Store!Init
  OBVIOUS
<1>1. StoreOrder = <<>>
  BY OrderEmpty DEF Init
<1>2. StorePhase = [o \in Ops |-> "idle"]
  BY DEF Init, StorePhase
<1>3. (~trouble) = TRUE
  BY DEF Init
<1> QED
  BY <1>1, <1>2, <1>3 DEF Init, Store!Init

\* What the phases of one operation are in the store.
LEMMA PhaseMapped ==
  ASSUME TypeOK, NEW o \in Ops
  PROVE  /\ phase[o] = "waiting" => StorePhase[o] = "called"
         /\ phase[o] = "answered" => StorePhase[o] = "served"
         /\ phase[o] \notin {"waiting", "answered"} => StorePhase[o] = phase[o]
  BY DEF StorePhase

LEMMA PhaseMoves ==
  ASSUME TypeOK, NEW o \in Ops, NEW p, phase' = [phase EXCEPT ![o] = p]
  PROVE  StorePhase' = [StorePhase EXCEPT ![o] = CASE p = "waiting"  -> "called"
                                                   [] p = "answered" -> "served"
                                                   [] OTHER          -> p]
  BY DEF StorePhase, TypeOK

LEMMA StoreCalls ==
  ASSUME WorkingInv, TypeOK', NEW o \in Ops,
         getTokens(o) \/ saveTokens(o) \/ clearTokens(o)
  PROVE  \E k \in {"get", "save", "clear"} : Store!Call(o, k)
<1>1. PICK k \in {"get", "save", "clear"} :
          /\ kind' = [kind EXCEPT ![o] = k] /\ Calls(o, FirstCall(k))
          /\ FirstCall(k) \in {"get", "set", "reset"}
  BY DEF getTokens, saveTokens, clearTokens, FirstCall
<1>2. /\ phase[o] = "idle" /\ phase' = [phase EXCEPT ![o] = "waiting"]
      /\ UNCHANGED <<item, value, result>>
  BY DEF getTokens, saveTokens, clearTokens
<1>3. StoreOrder' = Append(StoreOrder, o)
  BY <1>1, OrderAppended DEF WorkingInv, SmoothInv
<1>4. StorePhase[o] = "idle" /\ StorePhase' = [StorePhase EXCEPT ![o] = "called"]
  BY <1>2, PhaseMapped, PhaseMoves DEF WorkingInv, SmoothInv
<1> QED
  BY <1>1, <1>2, <1>3, <1>4 DEF Store!Call

LEMMA StoreServes ==
  ASSUME WorkingInv, TypeOK', NativeRuns
  PROVE  Store!Serve
<1>1. PICK c \in NativeCalls : /\ c = Head(queue) /\ c.op \in Ops
                              /\ phase[c.op] = "waiting" /\ c.call = FirstCall(kind[c.op])
  BY HeadSmooth DEF NativeRuns, WorkingInv
<1>2. StoreOrder # <<>> /\ Head(StoreOrder) = c.op /\ StoreOrder' = Tail(StoreOrder)
  BY <1>1, OrderServed DEF NativeRuns, WorkingInv, SmoothInv
<1>3. phase' = [phase EXCEPT ![c.op] = "answered"]
  BY <1>1 DEF NativeRuns, Hears
<1>4. StorePhase' = [StorePhase EXCEPT ![c.op] = "served"]
  BY <1>1, <1>3, PhaseMoves DEF WorkingInv, SmoothInv
<1>5. \/ kind[c.op] = "get" /\ value' = [value EXCEPT ![c.op] = item] /\ item' = item
      \/ kind[c.op] = "save" /\ item' = c.op /\ value' = value
      \/ kind[c.op] = "clear" /\ item' = NoTokens /\ value' = value
  BY <1>1 DEF NativeRuns, FirstCall, WorkingInv, SmoothInv, TypeOK
<1> QED
  BY <1>1, <1>2, <1>4, <1>5 DEF NativeRuns, Store!Serve

LEMMA StoreReturns ==
  ASSUME WorkingInv, NEW o \in Ops, GetReturns(o) \/ SaveReturns(o) \/ ClearReturns(o)
  PROVE  Store!Return(o)
<1>1. /\ phase[o] = "answered" /\ phase' = [phase EXCEPT ![o] = "done"]
      /\ UNCHANGED <<item, queue, kind, value>>
  BY DEF GetReturns, SaveReturns, ClearReturns, Ends, nativeVars, WorkingInv, SmoothInv, Smooth,
         NoFailures
<1>2. StorePhase[o] = "served" /\ StorePhase' = [StorePhase EXCEPT ![o] = "done"]
  BY <1>1, PhaseMapped, PhaseMoves DEF WorkingInv, SmoothInv
<1>3. StoreOrder' = StoreOrder
  BY <1>1 DEF StoreOrder
<1>4. result' = IF kind[o] = "get" THEN [result EXCEPT ![o] = value[o]] ELSE result
  BY DEF GetReturns, SaveReturns, ClearReturns, WorkingInv, SmoothInv, Smooth
<1> QED
  BY <1>1, <1>2, <1>3, <1>4 DEF Store!Return

LEMMA StoreRestarts ==
  ASSUME WorkingInv, Restart
  PROVE  Store!Restart
<1>1. StoreOrder' = <<>>
  BY DEF Restart, StoreOrder
<1>2. StorePhase' = [o \in Ops |-> IF StorePhase[o] \in {"called", "served"} THEN "killed"
                                  ELSE StorePhase[o]]
  BY DEF Restart, StorePhase, WorkingInv, SmoothInv, Smooth, NoFailures, TypeOK, Phases
<1> QED
  BY <1>1, <1>2 DEF Restart, Store!Restart

LEMMA StoreWorks ==
  ASSUME WorkingInv, Next, ~trouble', SmoothInv', TypeOK'
  PROVE  Store!Operates
<1>1. ASSUME NEW o \in Ops, getTokens(o) \/ saveTokens(o) \/ clearTokens(o)
      PROVE  Store!Operates
  BY <1>1, StoreCalls DEF Store!Operates
<1>2. CASE NativeRuns
  BY <1>2, StoreServes DEF Store!Operates
<1>3. ASSUME NEW o \in Ops, GetReturns(o) \/ SaveReturns(o) \/ ClearReturns(o)
      PROVE  Store!Operates
  BY <1>3, StoreReturns DEF Store!Operates
<1>4. CASE Restart
  BY <1>4, StoreRestarts DEF Store!Operates
<1>5. CASE NativeFails
  BY <1>5 DEF NativeFails
<1>6. ASSUME NEW o \in Ops, GetGivesUp(o) \/ GetTimesOut(o) \/ WriteTimesOut(o) PROVE FALSE
  BY <1>6 DEF GetGivesUp, GetTimesOut, WriteTimesOut, Resets
<1>7. ASSUME NEW o \in Ops, GetReturnsFallback(o) PROVE FALSE
  BY <1>7 DEF GetReturnsFallback, WorkingInv, SmoothInv, Smooth, NoFailures
<1> QED
  BY <1>1, <1>2, <1>3, <1>4, <1>5, <1>6, <1>7 DEF Next, Resumes

\* Only a restart ends trouble.
LEMMA StoreRecovers ==
  ASSUME TypeOK, trouble, Next, ~trouble'
  PROVE  Store!Recovers
<1>1. Restart
  BY DEF Next, Resumes, getTokens, saveTokens, clearTokens, NativeRuns, NativeFails, GetReturns,
         SaveReturns, ClearReturns, Ends, GetReturnsFallback, GetGivesUp, GetTimesOut,
         WriteTimesOut, Resets, histVars
<1>2. item' = item /\ StoreOrder' = <<>>
  BY <1>1 DEF Restart, StoreOrder
<1>3. ASSUME NEW o \in Ops PROVE StorePhase'[o] \in {"idle", "done", "killed"}
  BY <1>1 DEF Restart, StorePhase, TypeOK, Phases
<1> QED
  BY <1>2, <1>3 DEF Store!Recovers

LEMMA StoreStep == SmoothInv /\ [Next]_vars => SmoothInv' /\ [Store!Next]_(Store!vars)
<1> SUFFICES ASSUME SmoothInv, [Next]_vars
             PROVE  SmoothInv' /\ [Store!Next]_(Store!vars)
  OBVIOUS
<1>1. SmoothInv' /\ TypeOK' /\ TypeOK
  BY StepSmooth DEF SmoothInv
<1>2. CASE trouble'
  BY <1>1, <1>2 DEF Store!Next
<1>3. CASE ~trouble' /\ Next
  <2>1. CASE trouble
    BY <1>1, <1>3, <2>1, StoreRecovers DEF Store!Next
  <2>2. CASE ~trouble
    BY <1>1, <1>3, <2>2, StoreWorks DEF Store!Next, WorkingInv
  <2> QED
    BY <2>1, <2>2
<1>4. CASE UNCHANGED vars
  <2>1. /\ item' = item /\ queue' = queue /\ kind' = kind /\ phase' = phase
        /\ value' = value /\ result' = result /\ trouble' = trouble
    BY <1>4 DEF vars, nativeVars, jsVars, histVars
  <2>2. StoreOrder' = StoreOrder
    BY <2>1 DEF StoreOrder
  <2>3. StorePhase' = StorePhase
    BY <2>1 DEF StorePhase
  <2> QED
    BY <1>1, <2>1, <2>2, <2>3 DEF Store!vars
<1> QED
  BY <1>2, <1>3, <1>4

\* keychain.ts implements the token store for any set of operations: a single cell while
\* the native keychain works in time, and again from the next start after trouble.
THEOREM KeychainImplementsStore == Spec => KeychainIsStore
  BY InitSmooth, StoreInit, StoreStep, PTL DEF Spec, KeychainIsStore, Store!Spec

-----------------------------------------------------------------------------
(* Reads see the writes called before them.  A read that waits in the      *)
(* queue, like one that would be called now, is governed by the last write *)
(* queued before it, or by the item if there is none: what that write      *)
(* makes of the tokens is what the read expects.                           *)

Effect(o) == IF kind[o] = "save" THEN o ELSE NoTokens

\* What the native keychain holds after the first k calls, if the k-th is a write.
Made(k) == IF k = 0 THEN item ELSE Effect(queue[k].op)

\* Between the k-th call, a write or the start of the queue, and position i are only reads.
Governs(k, i) ==
    /\ k < i
    /\ k > 0 => queue[k].call # "get"
    /\ \A j \in 1 .. Len(queue) : k < j /\ j < i => queue[j].call = "get"

WrittenGoverned ==
    \A k \in 0 .. Len(queue) : Governs(k, Len(queue) + 1) => Written = Made(k)

ReadsGoverned ==
    \A i \in 1 .. Len(queue), k \in 0 .. Len(queue) :
        queue[i].call = "get" /\ Governs(k, i) => expected[queue[i].op] = Made(k)

AnswersExpected ==
    \A o \in Ops : kind[o] = "get" /\ phase[o] = "answered" => value[o] = expected[o]

InOrder == WrittenGoverned /\ ReadsGoverned /\ AnswersExpected

ReadInv ==
    /\ SmoothInv
    /\ last \in Ops => phase[last] # "idle"
    /\ ~trouble => InOrder

LEMMA InitReads == Init => ReadInv
<1> SUFFICES ASSUME Init PROVE ReadInv
  OBVIOUS
<1>1. Len(queue) = 0 /\ last = NoTokens /\ last \notin Ops
  BY ValuesAssumption DEF Init
<1>2. WrittenGoverned /\ ReadsGoverned
  BY <1>1 DEF Init, WrittenGoverned, ReadsGoverned, Written, Made
<1>3. AnswersExpected
  BY DEF Init, AnswersExpected
<1> QED
  BY <1>1, <1>2, <1>3, InitSmooth DEF ReadInv, InOrder

\* A call that is appended changes nothing for the calls before it.
LEMMA AppendKeeps ==
  ASSUME TypeOK, NEW n \in Nat, n = Len(queue), NEW o \in Ops,
         NEW call \in {"get", "set", "reset"}, Calls(o, call), item' = item,
         \A q \in Ops \ {o} : kind'[q] = kind[q],
         \A i \in 1 .. Len(queue) : queue[i].op # o
  PROVE  /\ \A k \in 0 .. n : Made(k)' = Made(k)
         /\ \A k \in 0 .. n, i \in 1 .. n + 1 : Governs(k, i)' <=> Governs(k, i)
         /\ \A k \in 0 .. n : Governs(k, n + 2)' => call = "get" /\ Governs(k, n + 1)
         /\ Governs(n + 1, n + 2)' => call # "get"
<1>1. /\ Len(queue) \in Nat /\ Len(queue') = Len(queue) + 1
      /\ \A i \in 1 .. Len(queue) : queue'[i] = queue[i]
      /\ queue'[Len(queue) + 1].op = o /\ queue'[Len(queue) + 1].call = call
  BY AppendFacts
<1>2. ASSUME NEW k \in 0 .. n PROVE Made(k)' = Made(k)
  <2>1. CASE k = 0
    BY <2>1 DEF Made
  <2>2. CASE k # 0
    <3>1. k \in 1 .. Len(queue)
      BY <1>1, <2>2
    <3>2. queue[k].op \in Ops \ {o} /\ queue'[k] = queue[k]
      BY <1>1, <3>1, QueueOps
    <3>3. kind'[queue[k].op] = kind[queue[k].op]
      BY <3>2
    <3> QED
      BY <2>2, <3>2, <3>3 DEF Made, Effect
  <2> QED
    BY <2>1, <2>2
<1>3. ASSUME NEW k \in 0 .. n, NEW i \in 1 .. n + 1
      PROVE  Governs(k, i)' <=> Governs(k, i)
  BY <1>1 DEF Governs
<1>4. ASSUME NEW k \in 0 .. n, Governs(k, n + 2)'
      PROVE  call = "get" /\ Governs(k, n + 1)
  BY <1>1, <1>4 DEF Governs
<1>5. Governs(n + 1, n + 2)' => call # "get"
  BY <1>1 DEF Governs
<1> QED
  BY <1>2, <1>3, <1>4, <1>5

\* An operation that is called now is neither queued nor the last write.
LEMMA CallerIsNew ==
  ASSUME ReadInv, ~trouble, NEW o \in Ops, phase[o] = "idle"
  PROVE  o # last /\ \A i \in 1 .. Len(queue) : queue[i].op # o
  BY DEF ReadInv, SmoothInv, Smooth, QueueWaits

LEMMA GetReads ==
  ASSUME ReadInv, ~trouble, SmoothInv', NEW o \in Ops, getTokens(o)
  PROVE  InOrder'
<1>1. TypeOK /\ TypeOK' /\ InOrder /\ last \in Ops \cup {NoTokens}
  BY DEF ReadInv, SmoothInv, TypeOK
<1>2. /\ phase[o] = "idle" /\ phase'[o] = "waiting" /\ kind'[o] = "get"
      /\ Calls(o, "get") /\ item' = item /\ last' = last /\ initial' = initial
      /\ \A q \in Ops \ {o} : /\ phase'[q] = phase[q] /\ kind'[q] = kind[q]
                             /\ expected'[q] = expected[q]
      /\ value' = value /\ expected'[o] = Written
  BY <1>1 DEF getTokens, TypeOK
<1>3. o # last /\ \A i \in 1 .. Len(queue) : queue[i].op # o
  BY <1>2, CallerIsNew
<1>4. PICK n \in Nat : n = Len(queue)
  BY <1>1 DEF TypeOK
<1>5. /\ Len(queue') = n + 1
      /\ \A i \in 1 .. n : queue'[i] = queue[i] /\ queue[i].op \in Ops
      /\ queue'[n + 1].op = o /\ queue'[n + 1].call = "get"
  BY <1>1, <1>2, <1>4, AppendFacts, QueueOps
<1>6. /\ \A k \in 0 .. n : Made(k)' = Made(k)
      /\ \A k \in 0 .. n, i \in 1 .. n + 1 : Governs(k, i)' <=> Governs(k, i)
      /\ \A k \in 0 .. n : Governs(k, n + 2)' => Governs(k, n + 1)
      /\ ~Governs(n + 1, n + 2)'
  BY <1>1, <1>2, <1>3, <1>4, AppendKeeps
<1>7. Written' = Written
  BY <1>1, <1>2, <1>3, ValuesAssumption DEF Written
<1>8. \A k \in 0 .. n : Governs(k, n + 1) => Written = Made(k)
  BY <1>1, <1>4 DEF InOrder, WrittenGoverned
<1>9. WrittenGoverned'
  <2> SUFFICES ASSUME NEW k \in 0 .. n + 1, Governs(k, n + 2)' PROVE Written' = Made(k)'
    BY <1>4, <1>5 DEF WrittenGoverned
  <2>1. k \in 0 .. n
    BY <1>6
  <2> QED
    BY <1>6, <1>7, <1>8, <2>1
<1>10. ReadsGoverned'
  <2> SUFFICES ASSUME NEW i \in 1 .. n + 1, NEW k \in 0 .. n + 1,
                      queue'[i].call = "get", Governs(k, i)'
               PROVE  expected'[queue'[i].op] = Made(k)'
    BY <1>5 DEF ReadsGoverned
  <2>1. k \in 0 .. n /\ k < i
    BY DEF Governs
  <2>2. CASE i = n + 1
    BY <1>2, <1>5, <1>6, <1>8, <2>1, <2>2
  <2>3. CASE i \in 1 .. n
    <3>1. Governs(k, i) /\ Made(k)' = Made(k)
      BY <1>6, <2>1
    <3>2. queue'[i] = queue[i] /\ queue[i].op \in Ops \ {o}
      BY <1>3, <1>4, <1>5, <2>3
    <3>3. expected[queue[i].op] = Made(k)
      BY <1>1, <1>4, <2>1, <2>3, <3>1, <3>2 DEF InOrder, ReadsGoverned
    <3> QED
      BY <1>2, <3>1, <3>2, <3>3
  <2> QED
    BY <2>2, <2>3
<1>11. AnswersExpected'
  BY <1>1, <1>2 DEF InOrder, AnswersExpected
<1> QED
  BY <1>9, <1>10, <1>11 DEF InOrder

LEMMA WriteReads ==
  ASSUME ReadInv, ~trouble, SmoothInv', NEW o \in Ops, saveTokens(o) \/ clearTokens(o)
  PROVE  InOrder'
<1>1. TypeOK /\ TypeOK' /\ InOrder
  BY DEF ReadInv, SmoothInv
<1>2. /\ phase[o] = "idle" /\ phase'[o] = "waiting" /\ kind'[o] \in {"save", "clear"}
      /\ item' = item /\ last' = o
      /\ \A q \in Ops \ {o} : phase'[q] = phase[q] /\ kind'[q] = kind[q]
      /\ value' = value /\ expected' = expected
  BY <1>1 DEF saveTokens, clearTokens, TypeOK
<1>3. PICK call \in {"set", "reset"} : Calls(o, call)
  BY DEF saveTokens, clearTokens
<1>4. o # last /\ \A i \in 1 .. Len(queue) : queue[i].op # o
  BY <1>2, CallerIsNew
<1>5. PICK n \in Nat : n = Len(queue)
  BY <1>1 DEF TypeOK
<1>6. /\ Len(queue') = n + 1
      /\ \A i \in 1 .. n : queue'[i] = queue[i] /\ queue[i].op \in Ops
      /\ queue'[n + 1].op = o /\ queue'[n + 1].call = call
  BY <1>1, <1>3, <1>5, AppendFacts, QueueOps
<1>7. /\ \A k \in 0 .. n : Made(k)' = Made(k)
      /\ \A k \in 0 .. n, i \in 1 .. n + 1 : Governs(k, i)' <=> Governs(k, i)
      /\ \A k \in 0 .. n : ~Governs(k, n + 2)'
  BY <1>1, <1>2, <1>3, <1>4, <1>5, AppendKeeps
<1>8. WrittenGoverned'
  <2> SUFFICES ASSUME NEW k \in 0 .. n + 1, Governs(k, n + 2)' PROVE Written' = Made(k)'
    BY <1>5, <1>6 DEF WrittenGoverned
  <2>1. k = n + 1
    BY <1>7
  <2> QED
    BY <1>2, <1>6, <2>1, ValuesAssumption DEF Written, Made, Effect
<1>9. ReadsGoverned'
  <2> SUFFICES ASSUME NEW i \in 1 .. n + 1, NEW k \in 0 .. n + 1,
                      queue'[i].call = "get", Governs(k, i)'
               PROVE  expected'[queue'[i].op] = Made(k)'
    BY <1>6 DEF ReadsGoverned
  <2>1. k \in 0 .. n /\ i \in 1 .. n
    BY <1>3, <1>6 DEF Governs
  <2>2. Governs(k, i) /\ Made(k)' = Made(k) /\ queue'[i] = queue[i]
    BY <1>6, <1>7, <2>1
  <2> QED
    BY <1>1, <1>2, <1>5, <2>1, <2>2 DEF InOrder, ReadsGoverned
<1>10. AnswersExpected'
  BY <1>1, <1>2 DEF InOrder, AnswersExpected
<1> QED
  BY <1>8, <1>9, <1>10 DEF InOrder

\* When the first call has run, the calls move up by one; a write has become the item.
LEMMA ServedKeeps ==
  ASSUME ReadInv, ~trouble, NativeRuns, NEW n \in Nat, n = Len(queue)
  PROVE  \A i \in 1 .. n, k \in 0 .. n : Governs(k, i)' =>
             \E g \in 0 .. n : Governs(g, i + 1) /\ Made(k)' = Made(g)
<1>1. TypeOK
  BY DEF ReadInv, SmoothInv
<1>2. /\ n >= 1 /\ Len(queue') = n - 1 /\ queue # <<>> /\ queue' = Tail(queue)
      /\ \A i \in 1 .. n - 1 : queue'[i] = queue[i + 1]
  BY <1>1, TailFacts DEF NativeRuns
<1>3. PICK c \in NativeCalls : /\ c = Head(queue) /\ c = queue[1] /\ c.op \in Ops
                              /\ c.call = FirstCall(kind[c.op])
  BY <1>2, HeadSmooth DEF ReadInv
<1>4. /\ kind' = kind
      /\ item' = IF c.call = "get" THEN item ELSE Effect(c.op)
  BY <1>1, <1>3 DEF NativeRuns, Effect, FirstCall, TypeOK
<1> SUFFICES ASSUME NEW i \in 1 .. n, NEW k \in 0 .. n, Governs(k, i)'
             PROVE  \E g \in 0 .. n : Governs(g, i + 1) /\ Made(k)' = Made(g)
  OBVIOUS
<1>5. /\ k < i /\ (k > 0 => queue'[k].call # "get")
      /\ \A j \in 1 .. n - 1 : k < j /\ j < i => queue'[j].call = "get"
  BY <1>2 DEF Governs
<1>6. \A j \in 1 .. n : k + 1 < j /\ j < i + 1 => queue[j].call = "get"
  <2> SUFFICES ASSUME NEW j \in 1 .. n, k + 1 < j, j < i + 1 PROVE queue[j].call = "get"
    OBVIOUS
  <2>1. j - 1 \in 1 .. n - 1 /\ k < j - 1 /\ j - 1 < i /\ (j - 1) + 1 = j
    OBVIOUS
  <2> QED
    BY <1>2, <1>5, <2>1
<1>7. CASE k > 0
  <2>1. k \in 1 .. n - 1 /\ k + 1 \in 0 .. n /\ queue'[k] = queue[k + 1]
    BY <1>2, <1>5, <1>7
  <2>2. Governs(k + 1, i + 1)
    BY <1>5, <1>6, <1>7, <2>1 DEF Governs
  <2>3. Made(k)' = Made(k + 1)
    BY <1>4, <1>7, <2>1 DEF Made, Effect
  <2> QED
    BY <2>1, <2>2, <2>3
<1>8. CASE k = 0 /\ c.call = "get"
  <2>1. Governs(0, i + 1)
    BY <1>3, <1>6, <1>8 DEF Governs
  <2>2. Made(k)' = Made(0)
    BY <1>4, <1>8 DEF Made
  <2> QED
    BY <2>1, <2>2
<1>9. CASE k = 0 /\ c.call # "get"
  <2>1. Governs(1, i + 1)
    BY <1>3, <1>6, <1>9 DEF Governs
  <2>2. Made(k)' = Made(1)
    BY <1>3, <1>4, <1>9 DEF Made
  <2> QED
    BY <1>2, <2>1, <2>2
<1> QED
  BY <1>7, <1>8, <1>9

LEMMA NativeReads ==
  ASSUME ReadInv, ~trouble, SmoothInv', NativeRuns
  PROVE  InOrder'
<1>1. TypeOK /\ TypeOK' /\ InOrder
  BY DEF ReadInv, SmoothInv
<1>2. PICK n \in Nat : n = Len(queue)
  BY <1>1 DEF TypeOK
<1>3. /\ n >= 1 /\ Len(queue') = n - 1 /\ queue # <<>> /\ queue' = Tail(queue)
      /\ \A i \in 1 .. n - 1 : queue'[i] = queue[i + 1]
  BY <1>1, <1>2, TailFacts DEF NativeRuns
<1>4. \A i \in 1 .. n, k \in 0 .. n : Governs(k, i)' =>
          \E g \in 0 .. n : Governs(g, i + 1) /\ Made(k)' = Made(g)
  BY <1>2, ServedKeeps
<1>5. PICK c \in NativeCalls : /\ c = Head(queue) /\ c = queue[1] /\ c.op \in Ops
                              /\ phase[c.op] = "waiting" /\ c.call = FirstCall(kind[c.op])
  BY <1>3, HeadSmooth DEF ReadInv
<1>6. UNCHANGED <<kind, expected, last, initial>>
  BY DEF NativeRuns
<1>7. WrittenGoverned'
  <2> SUFFICES ASSUME NEW k \in 0 .. n - 1, Governs(k, n)' PROVE Written' = Made(k)'
    BY <1>3 DEF WrittenGoverned
  <2>1. PICK g \in 0 .. n : Governs(g, n + 1) /\ Made(k)' = Made(g)
    BY <1>3, <1>4
  <2>2. Written' = Written
    BY <1>6 DEF Written
  <2> QED
    BY <1>1, <1>2, <2>1, <2>2 DEF InOrder, WrittenGoverned
<1>8. ReadsGoverned'
  <2> SUFFICES ASSUME NEW i \in 1 .. n - 1, NEW k \in 0 .. n - 1,
                      queue'[i].call = "get", Governs(k, i)'
               PROVE  expected'[queue'[i].op] = Made(k)'
    BY <1>3 DEF ReadsGoverned
  <2>1. PICK g \in 0 .. n : Governs(g, i + 1) /\ Made(k)' = Made(g)
    BY <1>4
  <2>2. i + 1 \in 1 .. n /\ queue'[i] = queue[i + 1]
    BY <1>3
  <2> QED
    BY <1>1, <1>2, <1>6, <2>1, <2>2 DEF InOrder, ReadsGoverned
<1>9. AnswersExpected'
  <2>1. CASE kind[c.op] = "get"
    <3>1. c.call = "get" /\ value' = [value EXCEPT ![c.op] = item]
      BY <1>5, <2>1 DEF NativeRuns, FirstCall
    <3>2. Governs(0, 1) /\ 1 \in 1 .. n
      BY <1>2, <1>3 DEF Governs
    <3>3. expected[c.op] = Made(0)
      BY <1>1, <1>2, <1>5, <3>1, <3>2 DEF InOrder, ReadsGoverned
    <3>4. expected[c.op] = item
      BY <3>3 DEF Made
    <3> QED
      BY <1>1, <1>5, <1>6, <3>1, <3>4 DEF NativeRuns, Hears, InOrder, AnswersExpected, TypeOK
  <2>2. CASE kind[c.op] # "get"
    <3>1. c.call # "get" /\ value' = value
      BY <1>5, <2>2 DEF NativeRuns, FirstCall
    <3> QED
      BY <1>1, <1>5, <1>6, <2>2, <3>1 DEF NativeRuns, Hears, InOrder, AnswersExpected, TypeOK
  <2> QED
    BY <2>1, <2>2
<1> QED
  BY <1>7, <1>8, <1>9 DEF InOrder

\* Returns leave the queue, the item and what was read alone.
LEMMA ReturnReads ==
  ASSUME ReadInv, ~trouble, UNCHANGED <<item, queue, kind, value, last, initial, expected>>,
         \A q \in Ops : phase'[q] = "answered" => phase[q] = "answered"
  PROVE  InOrder'
<1>1. InOrder
  BY DEF ReadInv
<1>2. WrittenGoverned'
  BY <1>1 DEF InOrder, WrittenGoverned, Governs, Made, Effect, Written
<1>3. ReadsGoverned'
  BY <1>1 DEF InOrder, ReadsGoverned, Governs, Made, Effect
<1>4. AnswersExpected'
  BY <1>1 DEF InOrder, AnswersExpected
<1> QED
  BY <1>2, <1>3, <1>4 DEF InOrder

LEMMA RestartReads ==
  ASSUME TypeOK, Restart
  PROVE  InOrder'
<1>1. queue' = <<>> /\ Len(queue') = 0
  BY DEF Restart
<1>2. WrittenGoverned' /\ ReadsGoverned'
  BY <1>1 DEF Restart, WrittenGoverned, ReadsGoverned, Written, Made
<1>3. AnswersExpected'
  BY DEF Restart, AnswersExpected, TypeOK
<1> QED
  BY <1>2, <1>3 DEF InOrder

LEMMA StepReads == ReadInv /\ [Next]_vars => ReadInv'
<1> SUFFICES ASSUME ReadInv, [Next]_vars PROVE ReadInv'
  OBVIOUS
<1>1. SmoothInv' /\ TypeOK /\ TypeOK'
  BY StepSmooth DEF ReadInv, SmoothInv
<1>2. last' \in Ops => phase'[last'] # "idle"
  <2>1. ASSUME NEW o \in Ops, getTokens(o) \/ saveTokens(o) \/ clearTokens(o)
        PROVE  last' \in Ops => phase'[last'] # "idle"
    BY <1>1, <2>1 DEF getTokens, saveTokens, clearTokens, ReadInv, TypeOK
  <2>2. ASSUME NEW o \in Ops, Resumes(o) PROVE last' \in Ops => phase'[last'] # "idle"
    BY <1>1, <2>2 DEF Resumes, GetReturns, SaveReturns, ClearReturns, Ends, GetReturnsFallback,
                      GetGivesUp, GetTimesOut, WriteTimesOut, Resets, histVars, ReadInv, TypeOK
  <2>3. CASE NativeRuns \/ NativeFails
    <3>1. queue # <<>> /\ last' = last
      BY <2>3 DEF NativeRuns, NativeFails
    <3>2. Head(queue).op \in Ops
      BY <1>1, <3>1, HeadCall
    <3>3. \A q \in Ops : phase[q] # "idle" => phase'[q] # "idle"
      BY <1>1, <2>3, <3>2 DEF NativeRuns, NativeFails, Hears, TypeOK
    <3> QED
      BY <3>1, <3>3 DEF ReadInv
  <2>4. CASE Restart
    BY <2>4, ValuesAssumption DEF Restart
  <2>5. CASE UNCHANGED vars
    BY <2>5 DEF vars, jsVars, histVars, ReadInv
  <2> QED
    BY <2>1, <2>2, <2>3, <2>4, <2>5 DEF Next
<1>3. ASSUME ~trouble' PROVE InOrder'
  <2>1. CASE Restart
    BY <1>1, <2>1, RestartReads
  <2>2. ASSUME NEW o \in Ops, getTokens(o) \/ saveTokens(o) \/ clearTokens(o)
        PROVE  InOrder'
    <3>1. ~trouble
      BY <1>3, <2>2 DEF getTokens, saveTokens, clearTokens
    <3> QED
      BY <1>1, <2>2, <3>1, GetReads, WriteReads
  <2>3. CASE NativeRuns
    <3>1. ~trouble
      BY <1>3, <2>3 DEF NativeRuns
    <3> QED
      BY <1>1, <2>3, <3>1, NativeReads
  <2>4. CASE NativeFails
    BY <1>3, <2>4 DEF NativeFails
  <2>5. ASSUME NEW o \in Ops,
               GetReturns(o) \/ SaveReturns(o) \/ ClearReturns(o) \/ GetReturnsFallback(o)
        PROVE  InOrder'
    <3>1. /\ UNCHANGED <<item, queue, kind, value, last, initial, expected, trouble>>
          /\ Ends(o)
      BY <2>5 DEF GetReturns, SaveReturns, ClearReturns, GetReturnsFallback, nativeVars, histVars
    <3>2. \A q \in Ops : phase'[q] = "answered" => phase[q] = "answered"
      BY <1>1, <3>1 DEF Ends, TypeOK
    <3> QED
      BY <1>3, <3>1, <3>2, ReturnReads
  <2>6. ASSUME NEW o \in Ops, GetGivesUp(o) \/ GetTimesOut(o) \/ WriteTimesOut(o)
        PROVE  InOrder'
    BY <1>3, <2>6 DEF GetGivesUp, GetTimesOut, WriteTimesOut, Resets
  <2>7. CASE UNCHANGED vars
    <3>1. UNCHANGED <<item, queue, kind, phase, value, last, initial, expected, trouble>>
      BY <2>7 DEF vars, nativeVars, jsVars, histVars
    <3> QED
      BY <1>3, <3>1, ReturnReads
  <2> QED
    BY <2>1, <2>2, <2>3, <2>4, <2>5, <2>6, <2>7 DEF Next, Resumes
<1> QED
  BY <1>1, <1>2, <1>3 DEF ReadInv

\* On a keychain that works in time, getTokens returns what the last write called before
\* it made of the tokens, for any set of operations under way and in any order of their
\* returns.
THEOREM ReadsSeeWrites == Spec => ReadsLatestWrite
<1>1. ASSUME ReadInv, [Next]_vars, NEW o \in Ops, kind[o] = "get", phase[o] = "answered",
             phase'[o] = "done", ~trouble
      PROVE  result'[o] = expected[o]
  <2>1. TypeOK /\ fallbackTokens = NoTokens /\ value[o] = expected[o]
    BY <1>1 DEF ReadInv, SmoothInv, Smooth, InOrder, AnswersExpected
  <2>2. GetReturns(o)
    <3>1. ASSUME NEW p \in Ops, Resumes(p) PROVE GetReturns(o)
      <4>1. p = o
        BY <1>1, <2>1, <3>1 DEF Resumes, GetReturns, GetGivesUp, GetReturnsFallback, Resets,
                                SaveReturns, ClearReturns, GetTimesOut, WriteTimesOut, Ends, TypeOK
      <4> QED
        BY <1>1, <2>1, <3>1, <4>1 DEF Resumes, GetGivesUp, GetReturnsFallback, Resets,
                                SaveReturns, ClearReturns, GetTimesOut, WriteTimesOut, Ends, TypeOK
    <3>2. ASSUME NEW p \in Ops, getTokens(p) \/ saveTokens(p) \/ clearTokens(p) PROVE FALSE
      BY <1>1, <2>1, <3>2 DEF getTokens, saveTokens, clearTokens, TypeOK
    <3>3. CASE NativeRuns \/ NativeFails
      <4>1. Head(queue).op \in Ops
        BY <2>1, <3>3, HeadCall DEF NativeRuns, NativeFails
      <4> QED
        BY <1>1, <2>1, <3>3, <4>1 DEF NativeRuns, NativeFails, Hears, TypeOK
    <3>4. CASE Restart
      BY <1>1, <2>1, <3>4 DEF Restart, TypeOK
    <3>5. CASE UNCHANGED vars
      BY <1>1, <3>5 DEF vars, jsVars
    <3> QED
      BY <1>1, <3>1, <3>2, <3>3, <3>4, <3>5 DEF Next
  <2> QED
    BY <2>1, <2>2 DEF GetReturns, TypeOK
<1>2. ReadInv /\ [Next]_vars =>
        [\A o \in Ops : kind[o] = "get" /\ phase[o] = "answered" /\ phase'[o] = "done"
                           /\ ~trouble => result'[o] = expected[o]]_vars
  BY <1>1
<1> QED
  BY <1>2, InitReads, StepReads, PTL DEF Spec, ReadsLatestWrite

-----------------------------------------------------------------------------
(* Nobody waits for nothing.  With the types, WaitersAreQueued is          *)
(* inductive.                                                              *)

\* A call joins the queue behind the others, which stay.
LEMMA CallerQueued ==
  ASSUME TypeOK, WaitersAreQueued, NEW o \in Ops, NEW c \in {"get", "set", "reset"},
         NEW p \in Phases, Calls(o, c), phase' = [phase EXCEPT ![o] = p],
         p = "resetting" => c = "reset"
  PROVE  WaitersAreQueued'
<1>0. /\ Len(queue) \in Nat /\ Len(queue') = Len(queue) + 1
      /\ \A i \in 1 .. Len(queue) : queue'[i] = queue[i]
      /\ queue'[Len(queue) + 1].op = o /\ queue'[Len(queue) + 1].call = c
  BY AppendFacts
<1> SUFFICES ASSUME NEW x \in Ops, phase'[x] \in {"waiting", "resetting"}
             PROVE  \E i \in 1 .. Len(queue') : /\ queue'[i].op = x
                                                /\ phase'[x] = "resetting" => queue'[i].call = "reset"
  BY DEF WaitersAreQueued
<1>1. CASE x = o
  <2>1. phase'[o] = p /\ Len(queue) + 1 \in 1 .. Len(queue')
    BY <1>0 DEF TypeOK
  <2> QED
    BY <1>0, <1>1, <2>1
<1>2. CASE x # o
  <2>1. phase'[x] = phase[x]
    BY <1>2 DEF TypeOK
  <2>2. PICK i \in 1 .. Len(queue) :
            queue[i].op = x /\ (phase[x] = "resetting" => queue[i].call = "reset")
    BY <2>1 DEF WaitersAreQueued
  <2>3. i \in 1 .. Len(queue') /\ queue'[i] = queue[i]
    BY <1>0, <2>2
  <2> QED
    BY <2>1, <2>2, <2>3
<1> QED
  BY <1>1, <1>2

\* The native keychain takes the first call away from its operation only.
LEMMA ServedQueued ==
  ASSUME TypeOK, WaitersAreQueued, NativeRuns \/ NativeFails
  PROVE  WaitersAreQueued'
<1>1. queue # <<>> /\ queue' = Tail(queue) /\ \E how \in {"answered", "failed"} : Hears(Head(queue), how)
  BY DEF NativeRuns, NativeFails
<1>2. /\ Len(queue) \in Nat /\ Len(queue) >= 1 /\ Len(queue') = Len(queue) - 1
      /\ \A i \in 1 .. Len(queue') : queue'[i] = queue[i + 1]
      /\ Head(queue) = queue[1] /\ Head(queue).op \in Ops
  BY <1>1, TailFacts, HeadCall
<1>3. \A x \in Ops : phase'[x] \in {"waiting", "resetting"} =>
        /\ phase'[x] = phase[x]
        /\ x = queue[1].op => phase[x] = "resetting" /\ queue[1].call # "reset"
  BY <1>1, <1>2 DEF Hears, TypeOK
<1> SUFFICES ASSUME NEW x \in Ops, phase'[x] \in {"waiting", "resetting"}
             PROVE  \E i \in 1 .. Len(queue') : /\ queue'[i].op = x
                                                /\ phase'[x] = "resetting" => queue'[i].call = "reset"
  BY DEF WaitersAreQueued
<1>4. PICK i \in 1 .. Len(queue) :
          queue[i].op = x /\ (phase[x] = "resetting" => queue[i].call = "reset")
  BY <1>3 DEF WaitersAreQueued
<1>5. i # 1
  BY <1>3, <1>4
<1>6. i - 1 \in 1 .. Len(queue') /\ queue'[i - 1] = queue[i]
  BY <1>2, <1>4, <1>5
<1> QED
  BY <1>3, <1>4, <1>6

LEMMA StepQueued == TypeOK /\ WaitersAreQueued /\ [Next]_vars => WaitersAreQueued'
<1> SUFFICES ASSUME TypeOK, WaitersAreQueued, [Next]_vars PROVE WaitersAreQueued'
  OBVIOUS
<1>1. ASSUME NEW o \in Ops, getTokens(o) \/ saveTokens(o) \/ clearTokens(o)
      PROVE  WaitersAreQueued'
  BY <1>1, CallerQueued DEF getTokens, saveTokens, clearTokens, Phases
<1>2. ASSUME NEW o \in Ops, GetGivesUp(o) \/ GetTimesOut(o) PROVE WaitersAreQueued'
  BY <1>2, CallerQueued DEF GetGivesUp, GetTimesOut, Resets, Phases
<1>3. ASSUME NEW o \in Ops,
             \/ GetReturns(o) \/ GetReturnsFallback(o)
             \/ SaveReturns(o) \/ ClearReturns(o) \/ WriteTimesOut(o)
      PROVE  WaitersAreQueued'
  <2>1. queue' = queue /\ Ends(o)
    BY <1>3 DEF GetReturns, GetReturnsFallback, SaveReturns, ClearReturns, WriteTimesOut,
                nativeVars
  <2>2. \A x \in Ops : phase'[x] \in {"waiting", "resetting"} => phase'[x] = phase[x]
    BY <2>1 DEF Ends, TypeOK
  <2> QED
    BY <2>1, <2>2 DEF WaitersAreQueued
<1>4. CASE NativeRuns \/ NativeFails
  BY <1>4, ServedQueued
<1>5. CASE Restart
  <2>1. \A x \in Ops : phase'[x] \notin {"waiting", "resetting"}
    BY <1>5 DEF Restart
  <2> QED
    BY <2>1 DEF WaitersAreQueued
<1>6. CASE UNCHANGED vars
  BY <1>6 DEF vars, nativeVars, jsVars, WaitersAreQueued
<1> QED
  BY <1>1, <1>2, <1>3, <1>4, <1>5, <1>6 DEF Next, Resumes

\* Whatever times out, fails or is killed, an operation that awaits the native keychain has
\* a call there that is still to run, and the reset of getTokens is one of its own.
THEOREM NobodyWaitsForNothing == Spec => []WaitersAreQueued
<1>1. Init => WaitersAreQueued
  BY DEF Init, WaitersAreQueued
<1> QED
  BY <1>1, InitTypeOK, NextTypeOK, StepQueued, PTL DEF Spec
=============================================================================
