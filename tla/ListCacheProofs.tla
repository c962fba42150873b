--------------------------- MODULE ListCacheProofs ---------------------------
(***************************************************************************)
(* Proofs about ListCache, for any number of requests, areas and pages and *)
(* any CACHE_TTL.                                                          *)
(***************************************************************************)
EXTENDS ListCache, FiniteSetTheorems, TLAPS

LEMMA AgeSet == 0 \in 0 .. Lapsed
  BY CacheAssumption DEF Lapsed

LEMMA KeySet ==
  ASSUME NEW k \in Keys
  PROVE  k.area \in Areas /\ k.limit \in Nat \ {0} /\ Offset(k) \in Nat
<1>1. k \in [area : Areas, page : Nat \ {0}, limit : Nat \ {0}]
  BY CacheAssumption
<1>2. k.area \in Areas /\ k.page \in Nat \ {0} /\ k.limit \in Nat \ {0}
  BY <1>1
<1>3. k.page - 1 \in Nat
  BY <1>2
<1>4. \A x, y \in Nat : x * y \in Nat
  OBVIOUS
<1> QED
  BY <1>2, <1>3, <1>4 DEF Offset

\* The three cases of LIMIT and OFFSET: beyond the end, the last page, a full page.
LEMMA PageSize ==
  ASSUME NEW k \in Keys, NEW n \in Nat
  PROVE  Cardinality(Page(k, n)) = k.limit \/ n <= Offset(k) + Cardinality(Page(k, n))
<1> DEFINE o == Offset(k)
           l == k.limit
<1>1. o \in Nat /\ l \in Nat \ {0}
  BY KeySet
<1>2. Page(k, n) = {c \in 1 .. n : o + c <= n /\ n < o + l + c}
  BY DEF Page
<1> HIDE DEF o, l
<1>3. CASE n <= o
  <2>1. Page(k, n) = {}
    BY <1>1, <1>2, <1>3
  <2>2. Cardinality(Page(k, n)) = 0
    BY <2>1, FS_EmptySet
  <2> QED
    BY <1>1, <1>3, <2>2 DEF o
<1>4. CASE o < n /\ n <= o + l
  <2>1. Page(k, n) = 1 .. (n - o)
    BY <1>1, <1>2, <1>4
  <2>2. Cardinality(1 .. (n - o)) = (n - o) - 1 + 1
    BY <1>1, <1>4, FS_Interval
  <2> QED
    BY <1>1, <1>4, <2>1, <2>2 DEF o
<1>5. CASE n > o + l
  <2>1. Page(k, n) = (n - o - l + 1) .. (n - o)
    BY <1>1, <1>2, <1>5
  <2>2. Cardinality((n - o - l + 1) .. (n - o)) = (n - o) - (n - o - l + 1) + 1
    BY <1>1, <1>5, FS_Interval
  <2>3. (n - o) - (n - o - l + 1) + 1 = l
    BY <1>1
  <2> QED
    BY <2>1, <2>2, <2>3 DEF l
<1> QED
  BY <1>1, <1>3, <1>4, <1>5

\* A list read when the table had grown from t to n communities or more.
LEMMA ReadsWhole ==
  ASSUME NEW k \in Keys, NEW n \in Nat, NEW t \in 0 .. n
  PROVE  Cardinality(Page(k, n)) = k.limit \/ t <= Offset(k) + Cardinality(Page(k, n))
<1>1. CASE Cardinality(Page(k, n)) = k.limit
  BY <1>1
<1>2. CASE n <= Offset(k) + Cardinality(Page(k, n))
  <2>1. IsFiniteSet(Page(k, n))
    <3>1. IsFiniteSet(1 .. n)
      BY FS_Interval
    <3>2. Page(k, n) \subseteq 1 .. n
      BY DEF Page
    <3> QED
      BY <3>1, <3>2, FS_Subset
  <2>2. Cardinality(Page(k, n)) \in Nat
    BY <2>1, FS_CardinalityType
  <2> QED
    BY <1>2, <2>2, KeySet
<1> QED
  BY <1>1, <1>2, PageSize

LEMMA TotalSet ==
  ASSUME NEW p \in Payloads, NEW n \in 0 .. MaxRows
  PROVE  [p EXCEPT !.total = n] \in Payloads /\ [p EXCEPT !.total = n].total = n
  BY DEF Payloads

LEMMA DataSet ==
  ASSUME NEW p \in Payloads, NEW d \in SUBSET (1 .. MaxRows)
  PROVE  /\ [p EXCEPT !.data = d] \in Payloads
         /\ [p EXCEPT !.data = d].data = d /\ [p EXCEPT !.data = d].total = p.total
  BY DEF Payloads

LEMMA CountSets ==
  ASSUME TypeOK, NEW r \in Requests, Count(r)
  PROVE  /\ payload' \in [Requests -> Payloads] /\ payload'[r].total = rows[key[r].area]
         /\ \A q \in Requests \ {r} : payload'[q] = payload[q]
<1> DEFINE n == rows[key[r].area]
<1>1. payload' = [payload EXCEPT ![r] = [payload[r] EXCEPT !.total = n]]
  BY DEF Count
<1>2. payload[r] \in Payloads /\ n \in 0 .. MaxRows
  BY KeySet DEF TypeOK
<1> HIDE DEF n
<1>3. PICK p \in Payloads : p = [payload[r] EXCEPT !.total = n] /\ p.total = n
  BY <1>2, TotalSet, Zenon
<1> QED
  BY <1>1, <1>3 DEF TypeOK, n

LEMMA SelectSets ==
  ASSUME TypeOK, NEW r \in Requests, Select(r)
  PROVE  /\ payload' \in [Requests -> Payloads]
         /\ payload'[r].data = Page(key[r], rows[key[r].area])
         /\ payload'[r].total = payload[r].total
         /\ \A q \in Requests \ {r} : payload'[q] = payload[q]
<1> DEFINE n == rows[key[r].area]
           d == Page(key[r], n)
<1>1. payload' = [payload EXCEPT ![r] = [payload[r] EXCEPT !.data = d]]
  BY DEF Select
<1>2. payload[r] \in Payloads /\ n \in 0 .. MaxRows
  BY KeySet DEF TypeOK
<1>3. d \in SUBSET (1 .. MaxRows)
  BY <1>2, CacheAssumption DEF Page
<1> HIDE DEF n, d
<1>4. PICK p \in Payloads : /\ p = [payload[r] EXCEPT !.data = d]
                            /\ p.data = d /\ p.total = payload[r].total
  BY <1>2, <1>3, DataSet, Zenon
<1> QED
  BY <1>1, <1>4 DEF TypeOK, n, d

LEMMA NothingRead == Nothing \in Payloads
  BY CacheAssumption DEF Nothing, Payloads

\* The types of the cache and of the requests.
THEOREM TypeCorrect == Spec => []TypeOK
<1>1. Init => TypeOK
  <2> SUFFICES ASSUME Init PROVE TypeOK
    OBVIOUS
  <2>1. 0 \in 0 .. MaxRows
    BY CacheAssumption
  <2> QED
    BY <2>1, NothingRead, AgeSet DEF Init, TypeOK, Phases
<1>2. TypeOK /\ [Next]_vars => TypeOK'
  <2> SUFFICES ASSUME TypeOK, [Next]_vars PROVE TypeOK'
    OBVIOUS
  <2>1. ASSUME NEW r \in Requests, NEW k \in Keys, Arrives(r, k) PROVE TypeOK'
    <3>1. CASE Hit(r, k)
      BY <2>1, <3>1 DEF Arrives, Hit, Moves, TypeOK, Phases
    <3>2. CASE Miss(r, k)
      BY <2>1, <3>2, AgeSet DEF Arrives, Miss, Moves, TypeOK, Phases
    <3> QED
      BY <2>1, <3>1, <3>2 DEF Arrives
  <2>2. ASSUME NEW r \in Requests, Count(r) PROVE TypeOK'
    BY <2>2, CountSets DEF Count, Moves, TypeOK, Phases
  <2>3. ASSUME NEW r \in Requests, Select(r) PROVE TypeOK'
    BY <2>3, SelectSets DEF Select, Moves, TypeOK, Phases
  <2>4. ASSUME NEW r \in Requests, Fills(r) PROVE TypeOK'
    BY <2>4, AgeSet DEF Fills, Moves, TypeOK, Phases
  <2>5. ASSUME NEW r \in Requests, QueryFails(r) \/ Delivered(r) PROVE TypeOK'
    BY <2>5, NothingRead DEF QueryFails, Delivered, Ends, Moves, TypeOK, Phases
  <2>6. ASSUME NEW A \in SUBSET Areas, Create(A) PROVE TypeOK'
    <3>1. rows' \in [Areas -> 0 .. MaxRows]
      BY <2>6, CacheAssumption DEF Create, TypeOK
    <3> QED
      BY <2>6, <3>1 DEF Create, TypeOK, reqVars
  <2>7. CASE Tick
    <3>1. age' \in [Keys -> 0 .. Lapsed]
      BY <2>7, CacheAssumption DEF Tick, TypeOK, Lapsed
    <3> QED
      BY <2>7, <3>1 DEF Tick, TypeOK, reqVars
  <2>8. CASE Restart
    BY <2>8, AgeSet, NothingRead DEF Restart, TypeOK, Phases
  <2>9. CASE UNCHANGED vars
    BY <2>9 DEF vars, reqVars, TypeOK
  <2> QED
    BY <2>1, <2>2, <2>3, <2>4, <2>5, <2>6, <2>7, <2>8, <2>9 DEF Next, Works
<1> QED
  BY <1>1, <1>2, PTL DEF Spec

-----------------------------------------------------------------------------

\* The pages that are on their way to an answer, in the cache and in a request that has
\* read its list, and the count of a request that is about to: communities are only
\* added, so the table it reads then has all that were counted.
PagesInv ==
    /\ \A k \in Keys : Whole(k, cache[k])
    /\ \A r \in Requests :
          /\ phase[r] = "select" => payload[r].total <= rows[key[r].area]
          /\ phase[r] \in {"fill", "done"} => Whole(key[r], payload[r])

LEMMA NoEntryWhole == \A k \in Keys : Whole(k, NoEntry)
<1> SUFFICES ASSUME NEW k \in Keys PROVE Whole(k, NoEntry)
  OBVIOUS
<1>1. Cardinality({0}) = 1
  BY FS_Singleton
<1>2. NoEntry.total = 0 /\ NoEntry.data = {0}
  BY DEF NoEntry
<1> QED
  BY <1>1, <1>2, KeySet DEF Whole

\* A page that is not full is the last one by its own total, whatever is created
\* between the two statements, whichever request filled the cache, for any page sizes.
THEOREM ShortPagesAreLast == Spec => []ShortPageIsLast
<1>1. Init => PagesInv
  BY NoEntryWhole DEF Init, PagesInv
<1>2. TypeOK /\ TypeOK' /\ PagesInv /\ [Next]_vars => PagesInv'
  <2> SUFFICES ASSUME TypeOK, TypeOK', PagesInv, [Next]_vars PROVE PagesInv'
    OBVIOUS
  <2>2. ASSUME NEW r \in Requests, NEW k \in Keys, Arrives(r, k), Hit(r, k) PROVE PagesInv'
    BY <2>2 DEF Arrives, Hit, Moves, TypeOK, PagesInv, Whole
  <2>3. ASSUME NEW r \in Requests, NEW k \in Keys, Arrives(r, k), Miss(r, k) PROVE PagesInv'
    BY <2>3, NoEntryWhole DEF Arrives, Miss, Moves, TypeOK, PagesInv, Whole
  <2>4. ASSUME NEW r \in Requests, Count(r) PROVE PagesInv'
    <3>1. rows[key[r].area] <= rows[key[r].area]
      BY KeySet DEF TypeOK
    <3> QED
      BY <2>4, <3>1, CountSets DEF Count, Moves, TypeOK, PagesInv, Whole
  <2>5. ASSUME NEW r \in Requests, Select(r) PROVE PagesInv'
    <3> DEFINE n == rows[key[r].area]
    <3>1. key[r] \in Keys /\ n \in Nat /\ payload[r].total \in 0 .. n
      BY <2>5, KeySet DEF TypeOK, Payloads, Select, PagesInv
    <3>2. Whole(key[r], payload'[r])
      BY <2>5, <3>1, SelectSets, ReadsWhole DEF Whole
    <3> QED
      BY <2>5, <3>2, SelectSets DEF Select, Moves, TypeOK, PagesInv, Whole
  <2>6. ASSUME NEW r \in Requests, Fills(r) PROVE PagesInv'
    BY <2>6 DEF Fills, Moves, TypeOK, PagesInv, Whole
  <2>7. ASSUME NEW r \in Requests, QueryFails(r) \/ Delivered(r) PROVE PagesInv'
    BY <2>7 DEF QueryFails, Delivered, Ends, Moves, TypeOK, PagesInv, Whole
  <2>8. ASSUME NEW A \in SUBSET Areas, Create(A) PROVE PagesInv'
    <3>1. \A r \in Requests : /\ payload[r].total \in Nat /\ rows[key[r].area] \in Nat
                              /\ key[r].area \in Areas
      BY KeySet DEF TypeOK, Payloads
    <3>2. \A r \in Requests : payload[r].total <= rows[key[r].area]
                                 => payload[r].total <= rows'[key[r].area]
      BY <2>8, <3>1 DEF Create
    <3> QED
      BY <2>8, <3>2 DEF Create, reqVars, PagesInv, Whole
  <2>9. CASE Tick
    BY <2>9 DEF Tick, reqVars, PagesInv, Whole
  <2>10. CASE Restart
    BY <2>10, NoEntryWhole DEF Restart, PagesInv, Whole
  <2>11. CASE UNCHANGED vars
    BY <2>11 DEF vars, reqVars, PagesInv, Whole
  <2>12. ASSUME NEW r \in Requests, NEW k \in Keys, Arrives(r, k) PROVE PagesInv'
    <3>1. Hit(r, k) \/ Miss(r, k)
      BY <2>12 DEF Arrives
    <3> QED
      BY <2>2, <2>3, <2>12, <3>1
  <2>13. ASSUME NEW r \in Requests, Works(r) PROVE PagesInv'
    BY <2>4, <2>5, <2>6, <2>7, <2>13 DEF Works
  <2> QED
    BY <2>8, <2>9, <2>10, <2>11, <2>12, <2>13 DEF Next
<1>3. PagesInv => ShortPageIsLast
  BY DEF PagesInv, ShortPageIsLast, Answered
<1> QED
  BY <1>1, <1>2, <1>3, TypeCorrect, PTL DEF Spec
=============================================================================
