----------------------------- MODULE ProfileEdit -----------------------------
(***************************************************************************)
(* Editing the profile: mobile/src/screens/profile/EditProfileScreen.tsx   *)
(* against GET /users/me and PUT /users/profile of LocusBackend/server.js. *)
(*                                                                         *)
(* A form is one opening of the screen, on this device or on another one.  *)
(* It shows the row with blanks normalised and nulls as empty texts, and   *)
(* sends every field it shows, whether the user edited it or not.  A       *)
(* request may fail before it reaches the server or lose its answer, and   *)
(* one the client has given up after its time-out may still be applied     *)
(* later.                                                                  *)
(***************************************************************************)
EXTENDS Naturals, FiniteSets

CONSTANTS Forms,        \* openings of the screen
          PlainFields,  \* "phone" and "bio", which the code treats alike
          Texts, Empty, \* the texts, and the empty one
          Trim,         \* String.trim, of each text
          Squeeze,      \* trim, split(/\s+/) and join(' '), of each text
          Files, Urls,  \* photos on the device, and those on the server
          None,         \* null
          MaxSaves,     \* bound on the saves of all forms
          MaxEdits      \* bound on the fields edited in one form

ASSUME ProfileAssumption ==
    /\ MaxSaves \in Nat /\ MaxEdits \in Nat
    /\ None \notin Texts \cup Files \cup Urls /\ Files \cap Urls = {}
    /\ "name" \notin PlainFields /\ "avatar" \notin PlainFields

ASSUME TextAssumption ==
    /\ Empty \in Texts /\ Trim \in [Texts -> Texts] /\ Squeeze \in [Texts -> Texts]
    /\ Squeeze[Empty] = Empty
    /\ \A t \in Texts : /\ Trim[Trim[t]] = Trim[t] /\ Squeeze[Squeeze[t]] = Squeeze[t]
                        /\ Trim[Squeeze[t]] = Squeeze[t]

TextFields == PlainFields \cup {"name"}
Fields     == TextFields \cup {"avatar"}

\* What the server stores: its texts are trimmed, and a name is null or not empty.
Trimmed == {t \in Texts : Trim[t] = t}
Rows    == {r \in [Fields -> Trimmed \cup Urls \cup {None}] :
               /\ \A f \in TextFields : r[f] \in Trimmed \cup {None}
               /\ r["name"] # Empty /\ r["avatar"] \in Urls \cup {None}}

\* What a form shows, and a form that shows nothing.
Views == {v \in [Fields -> Texts \cup Files \cup Urls \cup {None}] :
             (\A f \in TextFields : v[f] \in Texts) /\ v["avatar"] \in Files \cup Urls \cup {None}}
Blank == [f \in Fields |-> IF f = "avatar" THEN None ELSE Empty]

VARIABLES
    row,            \* the user's row
    phase,          \* "closed", "loading", "ready", "saving" or "gone"
    form,           \* what each form shows
    answer,         \* the profile that is on its way to a loading form, None before it was read
    edited,         \* the fields the user changed
    puts,           \* the PUT requests the server may still apply
    done,           \* the PUT requests whose answer may still reach their form
    sent,           \* number of saves
    current,        \* the latest save of each form
    fresh           \* history: forms that show the row as it is, except for their edits

vars == <<row, phase, form, answer, edited, puts, done, sent, current, fresh>>

\* The body of a request has a name; it need not have all fields.
Bodies == {b \in UNION {[F -> Texts \cup Files \cup Urls \cup {None}] : F \in SUBSET Fields} :
              /\ "name" \in DOMAIN b /\ b["name"] \in Trimmed \ {Empty}
              /\ \A f \in PlainFields \cap DOMAIN b : b[f] \in Texts \cup {None}
              /\ "avatar" \in DOMAIN b => b["avatar"] \in Files \cup Urls \cup {None}}
Puts   == [id : 1 .. MaxSaves, by : Forms, data : Bodies]

\* Types of the row, the forms and the requests.
TypeOK ==
    /\ row \in Rows
    /\ phase \in [Forms -> {"closed", "loading", "ready", "saving", "gone"}]
    /\ form \in [Forms -> Views]
    /\ answer \in [Forms -> Rows \cup {None}]
    /\ edited \in [Forms -> SUBSET Fields]
    /\ puts \subseteq Puts /\ done \subseteq Puts
    /\ sent \in 0 .. MaxSaves /\ current \in [Forms -> 0 .. MaxSaves] /\ fresh \subseteq Forms

\* A user may have registered without a name.
Init ==
    /\ row \in Rows
    /\ phase = [s \in Forms |-> "closed"] /\ form = [s \in Forms |-> Blank]
    /\ answer = [s \in Forms |-> None] /\ edited = [s \in Forms |-> {}]
    /\ puts = {} /\ done = {} /\ sent = 0 /\ current = [s \in Forms |-> 0] /\ fresh = {}

-----------------------------------------------------------------------------
(* Loading the form.                                                       *)

Open(s) ==
    /\ phase[s] = "closed"
    /\ phase' = [phase EXCEPT ![s] = "loading"]
    /\ UNCHANGED <<row, form, answer, edited, puts, done, sent, current, fresh>>

\* GET /users/me reads the row.
ReadsProfile(s) ==
    /\ phase[s] = "loading" /\ answer[s] = None
    /\ answer' = [answer EXCEPT ![s] = row] /\ fresh' = fresh \cup {s}
    /\ UNCHANGED <<row, phase, form, edited, puts, done, sent, current>>

\* x ?? ''
Text(x) == IF x = None THEN Empty ELSE x

\* What the form makes of a profile: the name is split at its blanks and joined with
\* single ones, null is an empty text.
Shown(r) == [f \in Fields |-> IF f = "name" THEN Squeeze[Text(r[f])]
                              ELSE IF f = "avatar" THEN r[f] ELSE Text(r[f])]

Loaded(s) ==
    /\ phase[s] = "loading" /\ answer[s] # None
    /\ form' = [form EXCEPT ![s] = Shown(answer[s])]
    /\ answer' = [answer EXCEPT ![s] = None]
    /\ phase' = [phase EXCEPT ![s] = "ready"]
    /\ UNCHANGED <<row, edited, puts, done, sent, current, fresh>>

\* "Failed to load profile": the form is shown all the same, and it is empty.
LoadFails(s) ==
    /\ phase[s] = "loading"
    /\ answer' = [answer EXCEPT ![s] = None] /\ fresh' = fresh \ {s}
    /\ phase' = [phase EXCEPT ![s] = "ready"]
    /\ UNCHANGED <<row, form, edited, puts, done, sent, current>>

\* The back button.  An answer that comes later finds the form unmounted.
Close(s) ==
    /\ phase[s] \in {"loading", "ready", "saving"}
    /\ phase' = [phase EXCEPT ![s] = "gone"]
    /\ form' = [form EXCEPT ![s] = Blank] /\ answer' = [answer EXCEPT ![s] = None]
    /\ done' = {p \in done : p.by # s}
    /\ UNCHANGED <<row, edited, puts, sent, current, fresh>>

-----------------------------------------------------------------------------
(* Editing and saving.                                                     *)

\* What the user can enter: texts, pickImage or "Remove Photo".
Inputs(f) == IF f = "avatar" THEN Files \cup {None} ELSE Texts

\* The fields are not disabled while saving.
Edit(s, f, v) ==
    /\ phase[s] \in {"ready", "saving"} /\ form[s][f] # v
    /\ Cardinality(edited[s] \cup {f}) <= MaxEdits
    /\ form' = [form EXCEPT ![s][f] = v]
    /\ edited' = [edited EXCEPT ![s] = @ \cup {f}]
    /\ UNCHANGED <<row, phase, answer, puts, done, sent, current, fresh>>

\* The avatar is a local file: the body is a multipart form, which has no null.
IsLocalFile(s) == form[s]["avatar"] \in Files

\* The body of the PUT: an empty phone or bio is null, unless in a multipart form.
Field(s, f) ==
    IF f = "name" THEN Trim[form[s][f]]
    ELSE IF f \in PlainFields /\ form[s][f] = Empty /\ ~IsLocalFile(s) THEN None ELSE form[s][f]

\* Variation: an avatar the user did not pick is not sent.
Payload_OnlyPickedAvatar(s) ==
    [f \in IF IsLocalFile(s) THEN Fields ELSE TextFields |-> Field(s, f)]

Payload(s) == [f \in Fields |-> Field(s, f)]

\* Variation: a name is not asked for.
Nameable_Always(s) == TRUE

\* A full name that is not blank.
Nameable(s) == Trim[form[s]["name"]] # Empty

\* handleSave sends PUT /users/profile.
Save(s) ==
    /\ phase[s] = "ready" /\ Nameable(s) /\ sent < MaxSaves
    /\ puts' = puts \cup {[id |-> sent + 1, by |-> s, data |-> Payload(s)]}
    /\ sent' = sent + 1 /\ current' = [current EXCEPT ![s] = sent + 1]
    /\ phase' = [phase EXCEPT ![s] = "saving"]
    /\ UNCHANGED <<row, form, answer, edited, done, fresh>>

\* The SET clause of PUT /users/profile: texts are trimmed, a file is stored at url; a
\* text that is not in the body is kept, but an avatar that is not in it becomes null.
Updated(r, data, url) ==
    [f \in Fields |->
        IF f \notin DOMAIN data THEN IF f = "avatar" THEN None ELSE r[f]
        ELSE IF f = "avatar" THEN IF data[f] \in Files THEN url ELSE data[f]
        ELSE IF data[f] = None THEN None ELSE Trim[data[f]]]

\* The form waits for the answer to p.
Awaits(p) == phase[p.by] = "saving" /\ current[p.by] = p.id

\* The server updates the row; a file it stores gets a name.
Applies(p, url) ==
    /\ p \in puts
    /\ row' = Updated(row, p.data, url)
    /\ puts' = puts \ {p}
    /\ done' = IF Awaits(p) THEN done \cup {p} ELSE done
    /\ fresh' = fresh \cap {p.by}
    /\ UNCHANGED <<phase, form, answer, edited, sent, current>>

\* The request does not reach the server, or its UPDATE fails.
Lost(p) ==
    /\ p \in puts /\ puts' = puts \ {p}
    /\ UNCHANGED <<row, phase, form, answer, edited, done, sent, current, fresh>>

\* "Saved": the answer has arrived.
Answered(p) ==
    /\ p \in done /\ Awaits(p)
    /\ phase' = [phase EXCEPT ![p.by] = "ready"]
    /\ done' = done \ {p}
    /\ UNCHANGED <<row, form, answer, edited, puts, sent, current, fresh>>

\* "Failed to save": an error, or the time-out of the API client.  The server may have
\* applied the request, or may do so later.
SaveFails(s) ==
    /\ phase[s] = "saving"
    /\ phase' = [phase EXCEPT ![s] = "ready"]
    /\ done' = {p \in done : p.by # s}
    /\ UNCHANGED <<row, form, answer, edited, puts, sent, current, fresh>>

Next ==
    \/ \E s \in Forms : Open(s) \/ ReadsProfile(s) \/ Loaded(s) \/ LoadFails(s) \/ Close(s)
    \/ \E s \in Forms : Save(s) \/ SaveFails(s)
    \/ \E s \in Forms, f \in Fields : \E v \in Inputs(f) : Edit(s, f, v)
    \/ \E p \in puts : Lost(p) \/ \E url \in Urls : Applies(p, url)
    \/ \E p \in done : Answered(p)

Spec == Init /\ [][Next]_vars

-----------------------------------------------------------------------------
(* Properties.                                                             *)

\* A form that was loaded, and since whose load no other form was saved, changes only
\* what the user edited in it, however its requests fail, time out and are repeated: the
\* other fields read the same in the next form, though the save may have squeezed a name
\* or made a null of an empty text.  The server erases an avatar that is not sent: the
\* form must send it every time.
LoneSaveKeeps ==
    [][\A p \in puts : p \notin puts' /\ p.by \in fresh
           => \A f \in Fields \ edited[p.by] : Shown(row')[f] = Shown(row)[f]]_vars
=============================================================================
