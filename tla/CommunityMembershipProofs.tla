---------------------- MODULE CommunityMembershipProofs ----------------------
(***************************************************************************)
(* TLAPS proofs about CommunityMembership, for every finite set of users   *)
(* and of requests and every set of communities.                           *)
(***************************************************************************)
EXTENDS CommunityMembership, FiniteSetTheorems, TLAPS

LEMMA InitTypeOK == Init => TypeOK
  BY DEF Init, TypeOK, Request, Phases, Rows

\* A change of one request's phase keeps the type of req and nothing else of it.
LEMMA MovesFacts ==
    ASSUME TypeOK, NEW r \in Requests, NEW p \in Phases, Moves(r, p)
    PROVE  /\ req' \in [Requests -> Request]
           /\ req'[r].phase = p
           /\ \A q \in Requests : /\ req'[q].op = req[q].op
                                  /\ req'[q].user = req[q].user
                                  /\ req'[q].community = req[q].community
                                  /\ q # r => req'[q].phase = req[q].phase
  BY DEF Moves, TypeOK, Request

LEMMA NextTypeOK == TypeOK /\ [Next]_vars => TypeOK'
  <1> SUFFICES ASSUME TypeOK, [Next]_vars PROVE TypeOK'
    OBVIOUS
  <1>0. \A r \in Requests : /\ req[r].community \in Communities /\ req[r].user \in Users
                            /\ Row(r) \in Rows
    BY DEF TypeOK, Request, Row, Rows
  <1>a. {"half", "failed", "halfFailed", "ok"} \subseteq Phases
    BY DEF Phases
  <1>1. ASSUME NEW r \in Requests, CreateInsertsCommunity(r) PROVE TypeOK'
    BY <1>1, <1>0, <1>a, MovesFacts DEF CreateInsertsCommunity, TypeOK
  <1>2. ASSUME NEW r \in Requests, CreateInsertsOwner(r) PROVE TypeOK'
    BY <1>2, <1>0, <1>a, MovesFacts DEF CreateInsertsOwner, TypeOK
  <1>3. ASSUME NEW r \in Requests,
               CreateConflicts(r) \/ ApplyAgain(r) \/ StatementFails(r)
        PROVE  TypeOK'
    BY <1>3, <1>a, MovesFacts DEF CreateConflicts, ApplyAgain, StatementFails, TypeOK
  <1>4. ASSUME NEW r \in Requests, ApplyInserts(r) PROVE TypeOK'
    BY <1>4, <1>0, <1>a, MovesFacts DEF ApplyInserts, TypeOK
  <1>5. ASSUME NEW r \in Requests, ApplyCounts(r) PROVE TypeOK'
    BY <1>5, <1>0, <1>a, MovesFacts DEF ApplyCounts, TypeOK
  <1>6. CASE ServerRestarts
    BY <1>6 DEF ServerRestarts, TypeOK, Request, Phases
  <1>7. CASE UNCHANGED vars
    BY <1>7 DEF vars, TypeOK
  <1>8. QED
    BY <1>1, <1>2, <1>3, <1>4, <1>5, <1>6, <1>7 DEF Next

\* The tables and the handlers keep their types.
THEOREM TypeCorrect == Spec => []TypeOK
  BY InitTypeOK, NextTypeOK, PTL DEF Spec

-----------------------------------------------------------------------------
(* The ledger.                                                             *)

Half(r) == req[r].phase \in {"half", "halfFailed"}

\* No row of community_members and no half-done request of a community that does
\* not exist: why a new community starts with a balanced ledger.
NothingEarly ==
    /\ \A m \in members : m[1] \in created
    /\ \A r \in Requests : Half(r) => req[r].community \in created

Balances(c) ==
    member_count[c] + Cardinality(Uncounted(c))
        = Cardinality(MembersOf(c)) + Cardinality(Unlisted(c))

LedgerInv == NothingEarly /\ \A c \in created : Balances(c)

LEMMA LedgerSetsFinite ==
    ASSUME NEW c
    PROVE  /\ IsFiniteSet(MembersOf(c)) /\ Cardinality(MembersOf(c)) \in Nat
           /\ IsFiniteSet(Uncounted(c)) /\ Cardinality(Uncounted(c)) \in Nat
           /\ IsFiniteSet(Unlisted(c))  /\ Cardinality(Unlisted(c)) \in Nat
  <1>1. MembersOf(c) \in SUBSET Users /\ Uncounted(c) \in SUBSET Requests
          /\ Unlisted(c) \in SUBSET Requests
    BY DEF MembersOf, Uncounted, Unlisted
  <1>2. QED
    BY <1>1, FiniteAssumption, FS_Subset, FS_CardinalityType

\* A community whose count, members and half-done requests a step leaves alone.
LEMMA SameLedger ==
    ASSUME NEW c, Balances(c), member_count'[c] = member_count[c],
           MembersOf(c)' = MembersOf(c), Uncounted(c)' = Uncounted(c),
           Unlisted(c)' = Unlisted(c)
    PROVE  Balances(c)'
  BY DEF Balances

\* Steps that leave the tables alone and no request crosses the half-done line.
LEMMA SameTables ==
    ASSUME LedgerInv, UNCHANGED <<created, member_count, members>>,
           \A r \in Requests : /\ req'[r].op = req[r].op
                               /\ req'[r].community = req[r].community
                               /\ Half(r)' <=> Half(r)
    PROVE  LedgerInv'
  <1>1. NothingEarly'
    BY DEF LedgerInv, NothingEarly
  <1>2. ASSUME NEW c \in created PROVE Balances(c)'
    <2>1. MembersOf(c)' = MembersOf(c)
      BY DEF MembersOf
    <2>2. Uncounted(c)' = Uncounted(c) /\ Unlisted(c)' = Unlisted(c)
      BY DEF Uncounted, Unlisted, Half
    <2>3. Balances(c)
      BY <1>2 DEF LedgerInv
    <2>4. QED
      BY <2>1, <2>2, <2>3, SameLedger
  <1>3. QED
    BY <1>1, <1>2 DEF LedgerInv

\* A request that moves leaves the ledger of every other community alone.
LEMMA OtherLedger ==
    ASSUME TypeOK, NEW r \in Requests, NEW p \in Phases, Moves(r, p),
           NEW c \in Communities, c # req[r].community, Balances(c),
           member_count'[c] = member_count[c],
           members' \subseteq members \cup {Row(r)}, members \subseteq members'
    PROVE  Balances(c)'
  <1>1. MembersOf(c)' = MembersOf(c)
    BY DEF MembersOf, Row
  <1>2. Uncounted(c)' = Uncounted(c)
    BY MovesFacts DEF Uncounted
  <1>3. Unlisted(c)' = Unlisted(c)
    BY MovesFacts DEF Unlisted
  <1>4. QED
    BY <1>1, <1>2, <1>3, SameLedger

\* The members of the community of r after r inserted its row.
LEMMA MembersOfAfterInsert ==
    ASSUME TypeOK, NEW r \in Requests, Row(r) \notin members,
           members' = members \cup {Row(r)}, NEW c, c = req[r].community
    PROVE  Cardinality(MembersOf(c)') = Cardinality(MembersOf(c)) + 1
  <1>0. PICK u \in Users : u = req[r].user
    BY DEF TypeOK, Request
  <1>1. u \notin MembersOf(c)
    BY <1>0 DEF MembersOf, Row
  <1>2. MembersOf(c)' = MembersOf(c) \cup {u}
    BY <1>0 DEF MembersOf, Row
  <1>3. QED
    BY <1>1, <1>2, LedgerSetsFinite, FS_AddElement

LEMMA CreateInsertsCommunityLedger ==
    ASSUME TypeOK, LedgerInv, NEW r \in Requests, CreateInsertsCommunity(r)
    PROVE  LedgerInv'
  <1>c. PICK c \in Communities : c = req[r].community
    BY DEF TypeOK, Request
  <1>0. /\ c \notin created /\ created' = created \cup {c}
        /\ members' = members /\ Moves(r, "half") /\ "half" \in Phases
        /\ req[r].op = "create"
    BY <1>c DEF CreateInsertsCommunity, TypeOK, Request, Phases
  <1>1. NothingEarly'
    BY <1>c, <1>0, MovesFacts DEF LedgerInv, NothingEarly, Half
  <1>2. Balances(c)'
    <2>1. MembersOf(c)' = {}
      BY <1>c, <1>0 DEF MembersOf, LedgerInv, NothingEarly
    <2>2. Uncounted(c) = {} /\ Unlisted(c) = {}
      BY <1>c, <1>0 DEF Uncounted, Unlisted, LedgerInv, NothingEarly, Half
    <2>3. Uncounted(c)' = {} /\ Unlisted(c)' = {r}
      BY <1>c, <1>0, <2>2, MovesFacts DEF Uncounted, Unlisted
    <2>4. member_count'[c] = 1
      BY <1>c, <1>0 DEF CreateInsertsCommunity, TypeOK
    <2>5. Cardinality({}) = 0 /\ Cardinality({r}) = 1
      BY FS_EmptySet, FS_Singleton
    <2>6. QED
      BY <2>1, <2>3, <2>4, <2>5 DEF Balances
  <1>3. ASSUME NEW d \in created PROVE Balances(d)'
    <2>1. d \in Communities /\ d # c /\ Balances(d) /\ member_count'[d] = member_count[d]
      BY <1>c, <1>0, <1>3 DEF LedgerInv, CreateInsertsCommunity, TypeOK
    <2>2. QED
      BY <1>c, <1>0, <2>1, OtherLedger
  <1>4. QED
    BY <1>c, <1>0, <1>1, <1>2, <1>3 DEF LedgerInv

LEMMA CreateInsertsOwnerLedger ==
    ASSUME TypeOK, LedgerInv, NEW r \in Requests, CreateInsertsOwner(r)
    PROVE  LedgerInv'
  <1>c. PICK c \in Communities : c = req[r].community
    BY DEF TypeOK, Request
  <1>0. /\ c \in created /\ created' = created
        /\ Row(r) \notin members /\ members' = members \cup {Row(r)}
        /\ member_count' = member_count /\ Moves(r, "ok") /\ "ok" \in Phases
        /\ req[r].op = "create" /\ req[r].phase = "half"
    BY <1>c DEF CreateInsertsOwner, TypeOK, Request, Phases, LedgerInv, NothingEarly, Half
  <1>1. NothingEarly'
    BY <1>c, <1>0, MovesFacts DEF LedgerInv, NothingEarly, Half, Row
  <1>2. Balances(c)'
    <2>1. Cardinality(MembersOf(c)') = Cardinality(MembersOf(c)) + 1
      BY <1>c, <1>0, MembersOfAfterInsert
    <2>2. r \in Unlisted(c) /\ r \notin Uncounted(c)
      BY <1>c, <1>0 DEF Unlisted, Uncounted
    <2>3. Uncounted(c)' = Uncounted(c) /\ Unlisted(c)' = Unlisted(c) \ {r}
      BY <1>c, <1>0, <2>2, MovesFacts DEF Uncounted, Unlisted
    <2>4. Cardinality(Unlisted(c)') = Cardinality(Unlisted(c)) - 1
      BY <2>2, <2>3, LedgerSetsFinite, FS_RemoveElement
    <2>5. Balances(c) /\ member_count[c] \in Nat
      BY <1>c, <1>0 DEF LedgerInv, TypeOK
    <2>6. QED
      BY <1>c, <1>0, <2>1, <2>3, <2>4, <2>5, LedgerSetsFinite DEF Balances
  <1>3. ASSUME NEW d \in created, d # c PROVE Balances(d)'
    BY <1>c, <1>0, <1>3, OtherLedger DEF LedgerInv, TypeOK
  <1>4. QED
    BY <1>c, <1>0, <1>1, <1>2, <1>3 DEF LedgerInv

LEMMA ApplyInsertsLedger ==
    ASSUME TypeOK, LedgerInv, NEW r \in Requests, ApplyInserts(r)
    PROVE  LedgerInv'
  <1>c. PICK c \in Communities : c = req[r].community
    BY DEF TypeOK, Request
  <1>0. /\ c \in created /\ created' = created
        /\ Row(r) \notin members /\ members' = members \cup {Row(r)}
        /\ member_count' = member_count /\ Moves(r, "half") /\ "half" \in Phases
        /\ req[r].op = "apply" /\ req[r].phase = "idle"
    BY <1>c DEF ApplyInserts, TypeOK, Request, Phases
  <1>1. NothingEarly'
    BY <1>c, <1>0, MovesFacts DEF LedgerInv, NothingEarly, Half, Row
  <1>2. Balances(c)'
    <2>1. Cardinality(MembersOf(c)') = Cardinality(MembersOf(c)) + 1
      BY <1>c, <1>0, MembersOfAfterInsert
    <2>2. r \notin Unlisted(c) /\ r \notin Uncounted(c)
      BY <1>c, <1>0 DEF Unlisted, Uncounted
    <2>3. Uncounted(c)' = Uncounted(c) \cup {r} /\ Unlisted(c)' = Unlisted(c)
      BY <1>c, <1>0, <2>2, MovesFacts DEF Uncounted, Unlisted
    <2>4. Cardinality(Uncounted(c)') = Cardinality(Uncounted(c)) + 1
      BY <2>2, <2>3, LedgerSetsFinite, FS_AddElement
    <2>5. Balances(c) /\ member_count[c] \in Nat
      BY <1>c, <1>0 DEF LedgerInv, TypeOK
    <2>6. QED
      BY <1>c, <1>0, <2>1, <2>3, <2>4, <2>5, LedgerSetsFinite DEF Balances
  <1>3. ASSUME NEW d \in created, d # c PROVE Balances(d)'
    BY <1>c, <1>0, <1>3, OtherLedger DEF LedgerInv, TypeOK
  <1>4. QED
    BY <1>c, <1>0, <1>1, <1>2, <1>3 DEF LedgerInv

LEMMA ApplyCountsLedger ==
    ASSUME TypeOK, LedgerInv, NEW r \in Requests, ApplyCounts(r)
    PROVE  LedgerInv'
  <1>c. PICK c \in Communities : c = req[r].community
    BY DEF TypeOK, Request
  <1>0. /\ c \in created /\ created' = created
        /\ members' = members /\ Moves(r, "ok") /\ "ok" \in Phases
        /\ req[r].op = "apply" /\ req[r].phase = "half"
    BY <1>c DEF ApplyCounts, TypeOK, Request, Phases, LedgerInv, NothingEarly, Half
  <1>a. /\ member_count[c] \in Nat /\ member_count'[c] = member_count[c] + 1
        /\ \A d \in Communities : d # c => member_count'[d] = member_count[d]
    BY <1>c, <1>0 DEF ApplyCounts, TypeOK
  <1>1. NothingEarly'
    BY <1>c, <1>0, MovesFacts DEF LedgerInv, NothingEarly, Half, Row
  <1>2. Balances(c)'
    <2>1. MembersOf(c)' = MembersOf(c)
      BY <1>c, <1>0, MovesFacts DEF MembersOf
    <2>2. r \notin Unlisted(c) /\ r \in Uncounted(c)
      BY <1>c, <1>0 DEF Unlisted, Uncounted
    <2>3. Uncounted(c)' = Uncounted(c) \ {r} /\ Unlisted(c)' = Unlisted(c)
      BY <1>c, <1>0, <2>2, MovesFacts DEF Uncounted, Unlisted
    <2>4. Cardinality(Uncounted(c)') = Cardinality(Uncounted(c)) - 1
      BY <2>2, <2>3, LedgerSetsFinite, FS_RemoveElement
    <2>5. Balances(c)
      BY <1>c, <1>0 DEF LedgerInv
    <2>6. QED
      BY <1>a, <2>1, <2>3, <2>4, <2>5, LedgerSetsFinite DEF Balances
  <1>3. ASSUME NEW d \in created, d # c PROVE Balances(d)'
    BY <1>c, <1>0, <1>a, <1>3, OtherLedger DEF LedgerInv, TypeOK
  <1>4. QED
    BY <1>c, <1>0, <1>1, <1>2, <1>3 DEF LedgerInv

LEMMA NextLedgerInv == TypeOK /\ LedgerInv /\ [Next]_vars => LedgerInv'
  <1> SUFFICES ASSUME TypeOK, LedgerInv, [Next]_vars PROVE LedgerInv'
    OBVIOUS
  <1>1. ASSUME NEW r \in Requests, CreateConflicts(r) PROVE LedgerInv'
    BY <1>1, MovesFacts, SameTables DEF CreateConflicts, Half, Phases
  <1>2. ASSUME NEW r \in Requests, ApplyAgain(r) PROVE LedgerInv'
    BY <1>2, MovesFacts, SameTables DEF ApplyAgain, Half, Phases
  <1>3. ASSUME NEW r \in Requests, StatementFails(r) PROVE LedgerInv'
    BY <1>3, MovesFacts, SameTables DEF StatementFails, Half, Phases
  <1>4. CASE ServerRestarts
    BY <1>4, SameTables DEF ServerRestarts, Half, TypeOK, Request
  <1>5. CASE UNCHANGED vars
    BY <1>5, SameTables DEF vars, Half
  <1>6. QED
    BY <1>1, <1>2, <1>3, <1>4, <1>5, CreateInsertsCommunityLedger,
       CreateInsertsOwnerLedger, ApplyInsertsLedger, ApplyCountsLedger DEF Next

\* However requests interleave, fail and are cut off, member_count and
\* community_members differ exactly by the requests between their two statements.
THEOREM LedgerAlwaysBalances == Spec => []LedgerBalances
  <1>1. Init => LedgerInv
    BY DEF Init, LedgerInv, NothingEarly, Half
  <1>2. LedgerInv => LedgerBalances
    BY DEF LedgerInv, LedgerBalances, Balances
  <1>3. QED
    BY <1>1, <1>2, NextLedgerInv, TypeCorrect, PTL DEF Spec

-----------------------------------------------------------------------------
(* Owners and members.                                                     *)

\* A community has no members before it exists, and its creator is its owner_id.
MembersExist == \A c \in Communities, u \in Users : <<c, u>> \in members => c \in created
CreatorOwns  == \A r \in Requests : req[r].op = "create" /\ req[r].phase \in {"half", "ok"}
                   => req[r].community \in created /\ owner_id[req[r].community] = req[r].user

\* The rows that requests have inserted.
OwnerListed  == \A r \in Requests : req[r].op = "create" /\ req[r].phase = "ok"
                   => Row(r) \in members /\ role[Row(r)] = "owner"
MemberListed == \A r \in Requests : req[r].op = "apply" /\ req[r].phase \in {"half", "ok"}
                   => Row(r) \in members
OneOwner     == \A c \in Communities, u \in Users :
                   <<c, u>> \in members /\ role[<<c, u>>] = "owner" => owner_id[c] = u

RolesInv == MembersExist /\ CreatorOwns /\ OwnerListed /\ MemberListed /\ OneOwner

\* A step that leaves the tables alone and lets no request get on, except an
\* application of somebody who is a member.
LEMMA SameRoles ==
    ASSUME TypeOK, RolesInv, UNCHANGED <<created, owner_id, members, role>>,
           \A q \in Requests :
              /\ Row(q)' = Row(q) /\ req'[q].op = req[q].op
              /\ req'[q].user = req[q].user /\ req'[q].community = req[q].community
              /\ \/ req'[q].phase = req[q].phase
                 \/ req'[q].phase \in {"failed", "halfFailed"}
                 \/ req[q].op = "apply" /\ Row(q) \in members
    PROVE  RolesInv'
  BY DEF RolesInv, MembersExist, CreatorOwns, OwnerListed, MemberListed, OneOwner

\* A new row <<c, u>> of community_members, inserted by r.
LEMMA RowInserted ==
    ASSUME TypeOK, RolesInv, NEW r \in Requests, NEW p \in {"half", "ok"}, Moves(r, p),
           NEW as \in {"owner", "member"},
           Row(r) \notin members, req[r].community \in created,
           members' = members \cup {Row(r)}, role' = [role EXCEPT ![Row(r)] = as],
           UNCHANGED <<created, owner_id>>,
           req[r].op = "create" => p = "ok" /\ as = "owner" /\ req[r].phase = "half",
           req[r].op = "apply" => as = "member"
    PROVE  RolesInv'
  <1>0. /\ req[r].community \in Communities /\ req[r].user \in Users
        /\ req[r].op \in {"create", "apply"} /\ p \in Phases
    BY DEF TypeOK, Request, Phases
  <1>1. \A q \in Requests : /\ Row(q)' = Row(q) /\ Row(q) \in Rows
                            /\ req'[q].op = req[q].op /\ req'[q].user = req[q].user
                            /\ req'[q].community = req[q].community
                            /\ q # r => req'[q].phase = req[q].phase
    BY <1>0, MovesFacts DEF Row, Rows, TypeOK, Request
  <1>2. \A m \in Rows : m # Row(r) => role'[m] = role[m]
    BY DEF TypeOK
  <1>3. role'[Row(r)] = as
    BY <1>1 DEF TypeOK
  <1>4. req'[r].phase = p
    BY <1>0, MovesFacts
  <1>5. MembersExist'
    BY <1>0 DEF RolesInv, MembersExist, Row
  <1>6. CreatorOwns'
    BY <1>1, <1>4 DEF RolesInv, CreatorOwns
  <1>7. OwnerListed'
    <2> SUFFICES ASSUME NEW q \in Requests, req[q].op = "create", req'[q].phase = "ok"
                 PROVE  Row(q) \in members' /\ role'[Row(q)] = "owner"
      BY <1>1 DEF OwnerListed
    <2>1. CASE q = r BY <2>1, <1>3
    <2>2. CASE q # r
      <3>1. Row(q) \in members /\ role[Row(q)] = "owner"
        BY <2>2, <1>1 DEF RolesInv, OwnerListed
      <3> QED BY <3>1, <1>1, <1>2
    <2> QED BY <2>1, <2>2
  <1>8. MemberListed'
    BY <1>1 DEF RolesInv, MemberListed
  <1>9. OneOwner'
    <2> SUFFICES ASSUME NEW c \in Communities, NEW u \in Users, <<c, u>> \in members',
                        role'[<<c, u>>] = "owner"
                 PROVE  owner_id[c] = u
      BY DEF OneOwner
    <2>1. CASE <<c, u>> = Row(r)
      <3>1. as = "owner" BY <2>1, <1>3
      <3>2. c = req[r].community /\ u = req[r].user BY <2>1 DEF Row
      <3> QED BY <3>1, <3>2, <1>0 DEF RolesInv, CreatorOwns
    <2>2. CASE <<c, u>> # Row(r)
      BY <2>2, <1>2 DEF RolesInv, OneOwner, Rows
    <2> QED BY <2>1, <2>2
  <1> QED BY <1>5, <1>6, <1>7, <1>8, <1>9 DEF RolesInv

LEMMA CommunityInserted ==
    ASSUME TypeOK, RolesInv, NEW r \in Requests, CreateInsertsCommunity(r)
    PROVE  RolesInv'
  <1> USE DEF CreateInsertsCommunity
  <1>0. req[r].community \in Communities /\ req[r].user \in Users /\ "half" \in Phases
    BY DEF TypeOK, Request, Phases
  <1>1. \A q \in Requests : /\ Row(q)' = Row(q) /\ req'[q].op = req[q].op
                            /\ req'[q].user = req[q].user
                            /\ req'[q].community = req[q].community
                            /\ q # r => req'[q].phase = req[q].phase
    BY <1>0, MovesFacts DEF Row
  <1>2. req'[r].phase = "half"
    BY <1>0, MovesFacts
  <1>3. owner_id'[req[r].community] = req[r].user
    BY <1>0 DEF TypeOK
  <1>4. \A c \in created : owner_id'[c] = owner_id[c]
    BY DEF TypeOK
  <1>5. MembersExist'
    BY DEF RolesInv, MembersExist
  <1>6. CreatorOwns'
    BY <1>1, <1>3, <1>4 DEF RolesInv, CreatorOwns
  <1>7. OwnerListed' /\ MemberListed'
    BY <1>1, <1>2 DEF RolesInv, OwnerListed, MemberListed
  <1>8. OneOwner'
    BY <1>4 DEF RolesInv, OneOwner, MembersExist
  <1> QED BY <1>5, <1>6, <1>7, <1>8 DEF RolesInv

LEMMA NextRolesInv == TypeOK /\ RolesInv /\ [Next]_vars => RolesInv'
  <1> SUFFICES ASSUME TypeOK, RolesInv, [Next]_vars PROVE RolesInv'
    OBVIOUS
  <1>a. {"half", "failed", "halfFailed", "ok"} \subseteq Phases
    BY DEF Phases
  <1>1. ASSUME NEW r \in Requests, CreateInsertsOwner(r) PROVE RolesInv'
    BY <1>1, RowInserted DEF CreateInsertsOwner, RolesInv, CreatorOwns
  <1>2. ASSUME NEW r \in Requests, ApplyInserts(r) PROVE RolesInv'
    BY <1>2, RowInserted DEF ApplyInserts
  <1>3. ASSUME NEW r \in Requests, CreateConflicts(r) \/ StatementFails(r) PROVE RolesInv'
    BY <1>3, <1>a, MovesFacts, SameRoles DEF CreateConflicts, StatementFails, Row
  <1>4. ASSUME NEW r \in Requests, ApplyAgain(r) PROVE RolesInv'
    BY <1>4, <1>a, MovesFacts, SameRoles DEF ApplyAgain, Row
  <1>5. ASSUME NEW r \in Requests, ApplyCounts(r) PROVE RolesInv'
    <2>1. Row(r) \in members
      BY <1>5 DEF ApplyCounts, RolesInv, MemberListed
    <2> QED BY <1>5, <2>1, <1>a, MovesFacts, SameRoles DEF ApplyCounts, Row
  <1>6. CASE ServerRestarts
    BY <1>6, SameRoles DEF ServerRestarts, TypeOK, Request, Row
  <1>7. CASE UNCHANGED vars
    BY <1>7, SameRoles DEF vars, Row
  <1> QED
    BY <1>1, <1>2, <1>3, <1>4, <1>5, <1>6, <1>7, CommunityInserted DEF Next

LEMMA InitRolesInv == Init => RolesInv
  BY DEF Init, RolesInv, MembersExist, CreatorOwns, OwnerListed, MemberListed, OneOwner

\* Every creation answered with success has its owner among the members, as owner,
\* whatever applies in between its two statements or after them.
THEOREM CreatedAlwaysHasOwner == Spec => []CreatedHasOwner
  <1>1. RolesInv => CreatedHasOwner
    BY DEF RolesInv, CreatorOwns, OwnerListed, CreatedHasOwner
  <1> QED BY <1>1, InitRolesInv, NextRolesInv, TypeCorrect, PTL DEF Spec

\* Every application answered with success has its row, and no community has an owner
\* row besides that of its owner_id.
THEOREM AppliedIsAlwaysMember == Spec => []AppliedIsMember
  <1>1. TypeOK /\ RolesInv => AppliedIsMember
    BY DEF RolesInv, MemberListed, OneOwner, AppliedIsMember, TypeOK, Rows
  <1> QED BY <1>1, InitRolesInv, NextRolesInv, TypeCorrect, PTL DEF Spec

\* No step takes a member out of a community or changes a role.
THEOREM MembershipAlwaysStable == Spec => MembershipIsStable
  <1> DEFINE Stable == \A m \in members : m \in members' /\ role'[m] = role[m]
  <1>1. TypeOK /\ [Next]_vars => [Stable]_vars
    <2> SUFFICES ASSUME TypeOK, Next PROVE Stable
      OBVIOUS
    <2>1. ASSUME NEW r \in Requests, CreateInsertsOwner(r) \/ ApplyInserts(r) PROVE Stable
      BY <2>1 DEF CreateInsertsOwner, ApplyInserts, TypeOK
    <2>2. ASSUME UNCHANGED <<members, role>> PROVE Stable
      BY <2>2
    <2> QED
      BY <2>1, <2>2 DEF Next, CreateInsertsCommunity, CreateConflicts, ApplyAgain, ApplyCounts,
                        StatementFails, ServerRestarts
  <1> QED BY <1>1, TypeCorrect, PTL DEF Spec, MembershipIsStable
=============================================================================
