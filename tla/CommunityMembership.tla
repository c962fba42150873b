------------------------- MODULE CommunityMembership -------------------------
(***************************************************************************)
(* POST /communities and POST /communities/:id/apply of                    *)
(* LocusBackend/server.js on the tables communities and community_members. *)
(* Each handler runs two SQL statements, awaited one after the other and   *)
(* outside any transaction; the statements of different requests           *)
(* interleave, each can fail, and the process can be restarted between     *)
(* two of them.  member_count is a column of its own, not derived from     *)
(* community_members.                                                      *)
(***************************************************************************)
EXTENDS Integers, FiniteSets

CONSTANTS Users, Communities,
          Requests      \* the requests the server receives, each used once

ASSUME FiniteAssumption == IsFiniteSet(Users) /\ IsFiniteSet(Requests)

VARIABLES created,        \* rows of communities
          owner_id,       \* communities.owner_id
          member_count,   \* communities.member_count
          members,        \* rows of community_members: <<community, user>>
          role,           \* community_members.role
          req             \* the handler of each request

vars == <<created, owner_id, member_count, members, role, req>>

\* "half" is between the two statements; "failed" answered 500 or never answered
\* before its first statement took effect, "halfFailed" after it; "ok" ran both and
\* answered 2xx, whether or not the answer arrives.
Phases == {"idle", "half", "failed", "halfFailed", "ok"}

Request == [op : {"create", "apply"}, user : Users, community : Communities,
            phase : Phases]

Rows == Communities \X Users

\* Types of the two tables and of the handlers.
TypeOK ==
    /\ created \subseteq Communities
    /\ owner_id \in [Communities -> Users]
    /\ member_count \in [Communities -> Nat]
    /\ members \subseteq Rows
    /\ role \in [Rows -> {"owner", "member"}]
    /\ req \in [Requests -> Request]

\* Empty tables; the columns of rows that do not exist are arbitrary.  A request
\* is what its sender makes it: who asks for what is fixed here.
Init ==
    /\ created = {} /\ members = {}
    /\ owner_id \in {[c \in Communities |-> u] : u \in Users}
    /\ member_count = [c \in Communities |-> 0]
    /\ role = [m \in Rows |-> "member"]
    /\ req \in [Requests -> [op : {"create", "apply"}, user : Users,
                             community : Communities, phase : {"idle"}]]

Row(r) == <<req[r].community, req[r].user>>

Moves(r, phase) == req' = [req EXCEPT ![r].phase = phase]

-----------------------------------------------------------------------------
(* POST /communities                                                       *)

\* INSERT INTO communities (..., owner_id, member_count) VALUES (..., $4, 1).  The
\* id is a new UUID: the request creates a community nobody created before.
CreateInsertsCommunity(r) ==
    LET c == req[r].community IN
    /\ req[r].op = "create" /\ req[r].phase = "idle"
    /\ c \notin created
    /\ created' = created \cup {c}
    /\ owner_id' = [owner_id EXCEPT ![c] = req[r].user]
    /\ member_count' = [member_count EXCEPT ![c] = 1]
    /\ Moves(r, "half")
    /\ UNCHANGED <<members, role>>

\* INSERT INTO community_members (..., 'owner'), without ON CONFLICT: it fails when
\* the owner has applied to the new community in the meantime.
CreateInsertsOwner(r) ==
    /\ req[r].op = "create" /\ req[r].phase = "half"
    /\ Row(r) \notin members
    /\ members' = members \cup {Row(r)}
    /\ role' = [role EXCEPT ![Row(r)] = "owner"]
    /\ Moves(r, "ok")
    /\ UNCHANGED <<created, owner_id, member_count>>

CreateConflicts(r) ==
    /\ req[r].op = "create" /\ req[r].phase = "half"
    /\ Row(r) \in members
    /\ Moves(r, "halfFailed")
    /\ UNCHANGED <<created, owner_id, member_count, members, role>>

-----------------------------------------------------------------------------
(* POST /communities/:id/apply                                             *)

\* Variation: the applicant is inserted with the role of an owner.
ApplyInserts_AsOwner(r) ==
    /\ req[r].op = "apply" /\ req[r].phase = "idle"
    /\ req[r].community \in created
    /\ Row(r) \notin members
    /\ members' = members \cup {Row(r)}
    /\ role' = [role EXCEPT ![Row(r)] = "owner"]
    /\ Moves(r, "half")
    /\ UNCHANGED <<created, owner_id, member_count>>

\* INSERT INTO community_members (..., 'member') ON CONFLICT DO NOTHING RETURNING
\* id: a row came back, so member_count is still to be incremented.
ApplyInserts(r) ==
    /\ req[r].op = "apply" /\ req[r].phase = "idle"
    /\ req[r].community \in created
    /\ Row(r) \notin members
    /\ members' = members \cup {Row(r)}
    /\ role' = [role EXCEPT ![Row(r)] = "member"]
    /\ Moves(r, "half")
    /\ UNCHANGED <<created, owner_id, member_count>>

\* Variation: the increment does not depend on the row that came back.
ApplyAgain_Counts(r) ==
    /\ req[r].op = "apply" /\ req[r].phase = "idle"
    /\ req[r].community \in created
    /\ Row(r) \in members
    /\ Moves(r, "half")
    /\ UNCHANGED <<created, owner_id, member_count, members, role>>

\* Variation: ON CONFLICT DO UPDATE SET role = 'member'.
ApplyAgain_Overwrites(r) ==
    /\ req[r].op = "apply" /\ req[r].phase = "idle"
    /\ req[r].community \in created
    /\ Row(r) \in members
    /\ role' = [role EXCEPT ![Row(r)] = "member"]
    /\ Moves(r, "ok")
    /\ UNCHANGED <<created, owner_id, member_count, members>>

\* The conflict: nothing inserted, no row came back, success.
ApplyAgain(r) ==
    /\ req[r].op = "apply" /\ req[r].phase = "idle"
    /\ req[r].community \in created
    /\ Row(r) \in members
    /\ Moves(r, "ok")
    /\ UNCHANGED <<created, owner_id, member_count, members, role>>

\* Variation: the sign of the increment is wrong.
ApplyCounts_Down(r) ==
    /\ req[r].op = "apply" /\ req[r].phase = "half"
    /\ member_count' = [member_count EXCEPT ![req[r].community] = @ - 1]
    /\ Moves(r, "ok")
    /\ UNCHANGED <<created, owner_id, members, role>>

\* UPDATE communities SET member_count = member_count + 1
ApplyCounts(r) ==
    /\ req[r].op = "apply" /\ req[r].phase = "half"
    /\ member_count' = [member_count EXCEPT ![req[r].community] = @ + 1]
    /\ Moves(r, "ok")
    /\ UNCHANGED <<created, owner_id, members, role>>

-----------------------------------------------------------------------------

\* A statement fails (no connection from the pool, foreign key, ...): the catch
\* block answers 500, and what the first statement did stays.
StatementFails(r) ==
    /\ \/ req[r].phase = "idle" /\ Moves(r, "failed")
       \/ req[r].phase = "half" /\ Moves(r, "halfFailed")
    /\ UNCHANGED <<created, owner_id, member_count, members, role>>

\* The process is restarted: every handler under way dies where it is.
ServerRestarts ==
    /\ \E r \in Requests : req[r].phase = "half"
    /\ req' = [r \in Requests |-> IF req[r].phase = "half"
                                  THEN [req[r] EXCEPT !.phase = "halfFailed"]
                                  ELSE req[r]]
    /\ UNCHANGED <<created, owner_id, member_count, members, role>>

Next ==
    \/ \E r \in Requests :
          \/ CreateInsertsCommunity(r) \/ CreateInsertsOwner(r) \/ CreateConflicts(r)
          \/ ApplyInserts(r) \/ ApplyAgain(r) \/ ApplyCounts(r)
          \/ StatementFails(r)
    \/ ServerRestarts

Spec == Init /\ [][Next]_vars

-----------------------------------------------------------------------------
(* Properties.                                                             *)

MembersOf(c) == {u \in Users : <<c, u>> \in members}

\* Applicants inserted into community_members whose increment has not happened.
Uncounted(c) == {r \in Requests : /\ req[r].op = "apply" /\ req[r].community = c
                                  /\ req[r].phase \in {"half", "halfFailed"}}

\* Creations whose member_count of 1 has no row in community_members of their own.
Unlisted(c) == {r \in Requests : /\ req[r].op = "create" /\ req[r].community = c
                                 /\ req[r].phase \in {"half", "halfFailed"}}

\* member_count and community_members balance: they differ by exactly the
\* applications and creations that are, or were cut off, between their two
\* statements.  No interleaving counts anyone twice, none loses an increment.
LedgerBalances ==
    \A c \in created :
        member_count[c] + Cardinality(Uncounted(c))
            = Cardinality(MembersOf(c)) + Cardinality(Unlisted(c))

\* A creation answered 201 has its owner in community_members with the role owner,
\* and no later application of the owner changes that.
CreatedHasOwner ==
    \A r \in Requests :
        req[r].op = "create" /\ req[r].phase = "ok"
            => Row(r) \in members /\ role[Row(r)] = "owner"
               /\ owner_id[req[r].community] = req[r].user

\* An application answered with success has a row; an owner row always belongs to
\* communities.owner_id, so a community never has two owners.
AppliedIsMember ==
    /\ \A r \in Requests :
          req[r].op = "apply" /\ req[r].phase = "ok" => Row(r) \in members
    /\ \A m \in members : role[m] = "owner" => owner_id[m[1]] = m[2]

\* A member never leaves and never changes role: no route deletes or updates a
\* row of community_members, and a second application changes nothing.
MembershipIsStable ==
    [][\A m \in members : m \in members' /\ role'[m] = role[m]]_vars
=============================================================================
