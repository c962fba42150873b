------------------------------ MODULE ListCache ------------------------------
(***************************************************************************)
(* GET /communities of LocusBackend/server.js and its in-memory cache.     *)
(* An entry is stored when its queries have answered, and nothing removes  *)
(* it before it expires.  A request names an area (its coordinates and     *)
(* radius, or none) and a page, and each page of each area has its own     *)
(* entry.                                                                  *)
(*                                                                         *)
(* Communities are created meanwhile; none is deleted and none moves, so   *)
(* the communities of an area are the numbers up to their count, in the    *)
(* order of created_at.                                                    *)
(*                                                                         *)
(* Time is kept as the age of the entries, in units that make CACHE_TTL a  *)
(* small number; an age beyond CACHE_TTL is as good as any other.          *)
(***************************************************************************)
EXTENDS Naturals, FiniteSets

CONSTANTS Requests,     \* a request may be made again once it was answered
          Areas,        \* the filters of the requests
          Everywhere,   \* a request without coordinates
          Keys,         \* the values of cacheKey: an area, a page and a limit
          CACHE_TTL,
          MaxRows       \* bound on the communities

ASSUME CacheAssumption ==
    /\ CACHE_TTL \in Nat /\ MaxRows \in Nat /\ Everywhere \in Areas
    /\ Keys \subseteq [area : Areas, page : Nat \ {0}, limit : Nat \ {0}]

VARIABLES
    rows,               \* number of communities of each area
    cache, age,         \* the entry of each key, and how long ago it was stored
    phase, key,         \* of each request
    payload             \* what its queries, or the cache, gave a request

reqVars == <<phase, key, payload>>
vars    == <<rows, cache, age, reqVars>>

Offset(k) == (k.page - 1) * k.limit

\* The page k of n communities, the newest first: community c is the (n - c + 1)th.
Page(k, n) == {c \in 1 .. n : Offset(k) + c <= n /\ n < Offset(k) + k.limit + c}

Payloads == [total : 0 .. MaxRows, data : SUBSET (1 .. MaxRows)]
NoEntry  == [total |-> 0, data |-> {0}]
Nothing  == [total |-> 0, data |-> {}]

Phases == {"idle", "count", "select", "fill", "done"}

Lapsed == CACHE_TTL + 1

\* Types of the cache and of the requests.
TypeOK ==
    /\ rows \in [Areas -> 0 .. MaxRows]
    /\ cache \in [Keys -> Payloads \cup {NoEntry}] /\ age \in [Keys -> 0 .. Lapsed]
    /\ phase \in [Requests -> Phases] /\ key \in [Requests -> Keys]
    /\ payload \in [Requests -> Payloads]

Init ==
    /\ rows = [a \in Areas |-> 0]
    /\ cache = [k \in Keys |-> NoEntry] /\ age = [k \in Keys |-> 0]
    /\ phase = [r \in Requests |-> "idle"] /\ key \in [Requests -> Keys]
    /\ payload = [r \in Requests |-> Nothing]

-----------------------------------------------------------------------------

Moves(r, to) == phase' = [phase EXCEPT ![r] = to]
Ends(r)      == Moves(r, "idle") /\ payload' = [payload EXCEPT ![r] = Nothing]

\* Variation: a hit starts the time to live again.
Hit_Renews(r, k) ==
    /\ cache[k] # NoEntry /\ age[k] <= CACHE_TTL
    /\ payload' = [payload EXCEPT ![r] = cache[k]] /\ Moves(r, "done")
    /\ age' = [age EXCEPT ![k] = 0]
    /\ UNCHANGED cache

\* Variation: a hit takes the list from the cache and counts again.
Hit_CountsAgain(r, k) ==
    /\ cache[k] # NoEntry /\ age[k] <= CACHE_TTL
    /\ payload' = [payload EXCEPT ![r] = [cache[k] EXCEPT !.total = rows[k.area]]]
    /\ Moves(r, "done")
    /\ UNCHANGED <<cache, age>>

\* Variation: a missing entry is not told from an unexpired one.
Hit_Unchecked(r, k) ==
    /\ age[k] <= CACHE_TTL
    /\ payload' = [payload EXCEPT ![r] = cache[k]] /\ Moves(r, "done")
    /\ UNCHANGED <<cache, age>>

\* getCached finds an entry: the request is answered at once.
Hit(r, k) ==
    /\ cache[k] # NoEntry /\ age[k] <= CACHE_TTL
    /\ payload' = [payload EXCEPT ![r] = cache[k]] /\ Moves(r, "done")
    /\ UNCHANGED <<cache, age>>

\* getCached finds none, or an expired one that it deletes.
Miss(r, k) ==
    /\ cache[k] = NoEntry \/ age[k] > CACHE_TTL
    /\ cache' = [cache EXCEPT ![k] = NoEntry] /\ age' = [age EXCEPT ![k] = 0]
    /\ Moves(r, "count") /\ UNCHANGED payload

Arrives(r, k) ==
    /\ phase[r] = "idle"
    /\ key' = [key EXCEPT ![r] = k]
    /\ Hit(r, k) \/ Miss(r, k)
    /\ UNCHANGED rows

\* SELECT COUNT(*) with the filter of the area.
Count(r) ==
    /\ phase[r] = "count" /\ Moves(r, "select")
    /\ payload' = [payload EXCEPT ![r].total = rows[key[r].area]]
    /\ UNCHANGED <<rows, cache, age, key>>

\* SELECT with the same filter, ORDER BY created_at DESC, LIMIT and OFFSET.
Select(r) ==
    /\ phase[r] = "select" /\ Moves(r, "fill")
    /\ payload' = [payload EXCEPT ![r].data = Page(key[r], rows[key[r].area])]
    /\ UNCHANGED <<rows, cache, age, key>>

\* The handler resumes: setCache and the answer.
Fills(r) ==
    /\ phase[r] = "fill" /\ Moves(r, "done")
    /\ cache' = [cache EXCEPT ![key[r]] = payload[r]]
    /\ age' = [age EXCEPT ![key[r]] = 0]
    /\ UNCHANGED <<rows, key, payload>>

\* A query fails: 500.
QueryFails(r) ==
    /\ phase[r] \in {"count", "select"} /\ Ends(r)
    /\ UNCHANGED <<rows, cache, age, key>>

\* The client has the answer.
Delivered(r) ==
    /\ phase[r] = "done" /\ Ends(r)
    /\ UNCHANGED <<rows, cache, age, key>>

\* POST /communities, at a place in the areas A: it leaves the cache alone.
Create(A) ==
    /\ Everywhere \in A /\ \A a \in A : rows[a] < MaxRows
    /\ rows' = [a \in Areas |-> IF a \in A THEN rows[a] + 1 ELSE rows[a]]
    /\ UNCHANGED <<cache, age, reqVars>>

Tick ==
    /\ age' = [k \in Keys |-> IF cache[k] # NoEntry /\ age[k] < Lapsed THEN age[k] + 1 ELSE age[k]]
    /\ UNCHANGED <<rows, cache, reqVars>>

\* The process is restarted: the cache is gone, the requests fail.
Restart ==
    /\ cache' = [k \in Keys |-> NoEntry] /\ age' = [k \in Keys |-> 0]
    /\ phase' = [r \in Requests |-> "idle"] /\ payload' = [r \in Requests |-> Nothing]
    /\ UNCHANGED <<rows, key>>

Works(r) == Count(r) \/ Select(r) \/ Fills(r) \/ QueryFails(r) \/ Delivered(r)

Next ==
    \/ \E r \in Requests : Works(r) \/ \E k \in Keys : Arrives(r, k)
    \/ \E A \in SUBSET Areas : Create(A)
    \/ Tick \/ Restart

Spec == Init /\ [][Next]_vars

\* Time passes, and an answer that was made is sent.  The queries may take for ever.
FairSpec == Spec /\ WF_vars(Tick) /\ \A r \in Requests : WF_vars(Delivered(r))

-----------------------------------------------------------------------------
(* Properties.                                                             *)

Answered(r) == phase[r] = "done"

\* A page that is not full is the last one by its own total, though the count and the
\* list are two statements with creations in between and both may come from the cache.
\* It is said of one answer: two pages may be of different age and not fit together.
Whole(k, p) == Cardinality(p.data) = k.limit \/ p.total <= Offset(k) + Cardinality(p.data)

ShortPageIsLast == \A r \in Requests : Answered(r) => Whole(key[r], payload[r])

\* When there are n communities in an area, then from some time on every answer counts
\* n or more, and is the page of a table with n or more: slow requests that read before
\* may overwrite a newer entry, but none is renewed for ever.  Once creations end, every
\* page is in the end the page of the table.
EventuallyListed ==
    \A k \in Keys, n \in 1 .. MaxRows :
        rows[k.area] >= n ~>
            [](\A r \in Requests : Answered(r) /\ key[r] = k
                  => /\ payload[r].total >= n
                     /\ \E m \in n .. MaxRows : payload[r].data = Page(k, m))
=============================================================================
