-------------------------- MODULE ProfileEditProofs --------------------------
(***************************************************************************)
(* A form that is not behind the row changes only what its user edited.    *)
(***************************************************************************)
EXTENDS ProfileEdit, TLAPS

\* Every request carries all fields.
WholeBodies == \A p \in puts \cup done : DOMAIN p.data = Fields

TInv == TypeOK /\ WholeBodies

\* The value of a field in a body, as a form shows it.
Carried(f, x) == IF f = "avatar" THEN x ELSE Text(x)

\* What LoneSaveKeeps rests on: a form that is not behind shows, and its requests carry,
\* the row as it is shown in every field the user left alone; a form that is not shown
\* yet has sent nothing.
Unsent  == \A s \in Forms : phase[s] \in {"closed", "loading"}
              => edited[s] = {} /\ \A p \in puts : p.by # s
Opened  == \A s \in fresh : phase[s] # "closed"
Current == \A s \in fresh : phase[s] = "loading" => answer[s] = row
Shows   == \A s \in fresh : phase[s] \in {"ready", "saving"}
              => \A f \in Fields \ edited[s] : form[s][f] = Shown(row)[f]
Carries == \A p \in puts : p.by \in fresh
              => \A f \in Fields \ edited[p.by] : Carried(f, p.data[f]) = Shown(row)[f]

InLine == Unsent /\ Opened /\ Current /\ Shows /\ Carries

USE ProfileAssumption

-----------------------------------------------------------------------------
(* The conversions.                                                        *)

LEMMA TextSet == \A x \in Texts \cup {None} : Text(x) \in Texts
  BY TextAssumption DEF Text

LEMMA TrimmedEmpty == Empty \in Trimmed
  BY TextAssumption DEF Trimmed

LEMMA ShownView ==
    ASSUME NEW r \in Rows
    PROVE  Shown(r) \in Views
  <1>1. \A f \in TextFields : Text(r[f]) \in Texts
    BY TextSet DEF Rows, Trimmed
  <1>2. \A f \in TextFields : Shown(r)[f] \in Texts
    BY <1>1, TextAssumption DEF Shown, TextFields, Fields
  <1>3. Shown(r)["avatar"] \in Urls \cup {None}
    BY DEF Shown, Rows, Fields
  <1>4. DOMAIN Shown(r) = Fields /\ Shown(r) = [f \in Fields |-> Shown(r)[f]]
    BY DEF Shown
  <1> QED BY <1>2, <1>3, <1>4 DEF Views, Fields

LEMMA BlankView == Blank \in Views
  BY TextAssumption DEF Blank, Views, Fields, TextFields

\* What is stored of a body is a row.
LEMMA UpdatedRow ==
    ASSUME NEW r \in Rows, NEW b \in Bodies, NEW url \in Urls
    PROVE  Updated(r, b, url) \in Rows
  <1> DEFINE u == Updated(r, b, url)
  <1>1. u = [f \in Fields |-> u[f]]
    BY DEF Updated
  <1>2. u["name"] \in Trimmed \ {Empty}
    <2>1. "name" \in DOMAIN b /\ b["name"] \in Trimmed \ {Empty}
      BY DEF Bodies
    <2>2. b["name"] # None /\ Trim[b["name"]] = b["name"]
      BY <2>1 DEF Trimmed
    <2>3. "name" \in Fields /\ "name" # "avatar"
      BY DEF Fields, TextFields
    <2> QED BY <2>1, <2>2, <2>3 DEF Updated
  <1>3. ASSUME NEW f \in PlainFields PROVE u[f] \in Trimmed \cup {None}
    <2>1. f \in Fields /\ f # "avatar" /\ f \in TextFields
      BY DEF Fields, TextFields
    <2>2. CASE f \notin DOMAIN b
      BY <2>1, <2>2 DEF Updated, Rows
    <2>3. CASE f \in DOMAIN b
      <3>1. b[f] \in Texts \cup {None}
        BY <2>3 DEF Bodies
      <3>2. b[f] # None => Trim[b[f]] \in Trimmed
        BY <3>1, TextAssumption DEF Trimmed
      <3> QED BY <2>1, <2>3, <3>2 DEF Updated
    <2> QED BY <2>2, <2>3
  <1>4. u["avatar"] \in Urls \cup {None}
    <2>1. "avatar" \in Fields
      BY DEF Fields
    <2>2. "avatar" \in DOMAIN b => b["avatar"] \in Files \cup Urls \cup {None}
      BY DEF Bodies
    <2> QED BY <2>1, <2>2 DEF Updated
  <1> HIDE DEF u
  <1>5. u["name"] # Empty /\ \A f \in TextFields : u[f] \in Trimmed \cup {None}
    BY <1>2, <1>3 DEF TextFields
  <1>6. u \in [Fields -> Trimmed \cup Urls \cup {None}]
    BY <1>1, <1>4, <1>5 DEF Fields
  <1> QED BY <1>4, <1>5, <1>6 DEF Rows, u

\* A form that has a name makes a body.
LEMMA PayloadBody ==
    ASSUME TypeOK, NEW s \in Forms, Nameable(s)
    PROVE  Payload(s) \in Bodies /\ DOMAIN Payload(s) = Fields
  <1> DEFINE b == Payload(s)
             v == form[s]
  <1>1. v \in Views
    BY DEF TypeOK
  <1>2. DOMAIN b = Fields /\ b = [f \in Fields |-> b[f]]
    BY DEF Payload
  <1>3. b["name"] \in Trimmed \ {Empty}
    <2>1. v["name"] \in Texts
      BY <1>1 DEF Views, TextFields
    <2>2. Trim[v["name"]] \in Trimmed
      BY <2>1, TextAssumption DEF Trimmed
    <2> QED BY <2>2 DEF Payload, Field, Nameable, Fields, TextFields
  <1>4. \A f \in PlainFields : b[f] \in Texts \cup {None}
    <2>1. \A f \in PlainFields : v[f] \in Texts /\ f \in Fields /\ f # "name"
      BY <1>1 DEF Views, TextFields, Fields
    <2> QED BY <2>1 DEF Payload, Field
  <1>5. b["avatar"] \in Files \cup Urls \cup {None}
    <2>1. v["avatar"] \in Files \cup Urls \cup {None}
      BY <1>1 DEF Views
    <2>2. "avatar" \in Fields /\ b["avatar"] = Field(s, "avatar")
      BY DEF Payload, Fields
    <2>3. Field(s, "avatar") = v["avatar"]
      BY DEF Field
    <2> QED BY <2>1, <2>2, <2>3
  <1> HIDE DEF b
  <1>6. \A f \in Fields : b[f] \in Texts \cup Files \cup Urls \cup {None}
    BY <1>3, <1>4, <1>5 DEF Fields, TextFields, Trimmed
  <1>7. b \in [Fields -> Texts \cup Files \cup Urls \cup {None}]
    BY <1>2, <1>6
  <1>8. b \in UNION {[F -> Texts \cup Files \cup Urls \cup {None}] : F \in SUBSET Fields}
    BY <1>7
  <1>9. "name" \in DOMAIN b
    BY <1>2 DEF Fields, TextFields
  <1>10. b \in Bodies
    BY <1>3, <1>4, <1>5, <1>8, <1>9 DEF Bodies
  <1> QED BY <1>2, <1>10 DEF b

-----------------------------------------------------------------------------
(* Types.                                                                  *)

LEMMA TypeInit == Init => TInv
  BY BlankView DEF Init, TInv, TypeOK, WholeBodies

\* The forms' own steps keep the types.
LEMMA TypeForms ==
    ASSUME TInv, NEW s \in Forms,
           Open(s) \/ ReadsProfile(s) \/ Loaded(s) \/ LoadFails(s) \/ Close(s) \/ SaveFails(s)
    PROVE  TInv'
  <1> USE BlankView DEF TInv, TypeOK, WholeBodies
  <1>1. CASE Open(s)         BY <1>1 DEF Open
  <1>2. CASE ReadsProfile(s) BY <1>2 DEF ReadsProfile
  <1>3. CASE Loaded(s)
    <2>1. answer[s] \in Rows
      BY <1>3 DEF Loaded
    <2>2. Shown(answer[s]) \in Views
      BY <2>1, ShownView
    <2> QED BY <1>3, <2>2 DEF Loaded
  <1>4. CASE LoadFails(s)    BY <1>4 DEF LoadFails
  <1>5. CASE Close(s)        BY <1>5 DEF Close
  <1>6. CASE SaveFails(s)    BY <1>6 DEF SaveFails
  <1> QED BY <1>1, <1>2, <1>3, <1>4, <1>5, <1>6

LEMMA TypeEdit ==
    ASSUME TInv, NEW s \in Forms, NEW f \in Fields, NEW v \in Inputs(f), Edit(s, f, v)
    PROVE  TInv'
  <1>1. [form[s] EXCEPT ![f] = v] \in Views
    BY DEF TInv, TypeOK, Views, Inputs, Fields, TextFields
  <1> QED BY <1>1 DEF TInv, TypeOK, WholeBodies, Edit

LEMMA TypeSave ==
    ASSUME TInv, NEW s \in Forms, Save(s)
    PROVE  TInv'
  <1> USE DEF TInv, TypeOK, Save
  <1>1. Payload(s) \in Bodies /\ DOMAIN Payload(s) = Fields
    BY PayloadBody
  <1>2. sent + 1 \in 1 .. MaxSaves
    OBVIOUS
  <1>3. [id |-> sent + 1, by |-> s, data |-> Payload(s)] \in Puts
    BY <1>1, <1>2 DEF Puts
  <1>4. TypeOK'
    BY <1>2, <1>3
  <1>5. WholeBodies'
    BY <1>1 DEF WholeBodies
  <1> QED BY <1>4, <1>5

LEMMA TypePuts ==
    ASSUME TInv, NEW p,
           \/ p \in puts /\ (Lost(p) \/ \E url \in Urls : Applies(p, url))
           \/ p \in done /\ Answered(p)
    PROVE  TInv'
  <1> USE DEF TInv, TypeOK, WholeBodies
  <1>0. p \in Puts /\ p.data \in Bodies /\ p.by \in Forms
    BY DEF Puts
  <1>1. ASSUME NEW url \in Urls, Applies(p, url) PROVE TInv'
    <2>1. row' \in Rows
      BY <1>0, <1>1, UpdatedRow DEF Applies
    <2> QED BY <1>0, <1>1, <2>1 DEF Applies
  <1>2. CASE Lost(p)    BY <1>2 DEF Lost
  <1>3. CASE Answered(p) BY <1>0, <1>3 DEF Answered
  <1> QED BY <1>1, <1>2, <1>3

LEMMA TypeStep == TInv /\ [Next]_vars => TInv'
  <1> SUFFICES ASSUME TInv, [Next]_vars PROVE TInv'
    OBVIOUS
  <1>1. CASE UNCHANGED vars
    BY <1>1 DEF TInv, TypeOK, WholeBodies, vars
  <1>2. CASE Next
    BY <1>2, TypeForms, TypeEdit, TypeSave, TypePuts DEF Next
  <1> QED BY <1>1, <1>2

\* The row, the forms and the requests keep their types for any number of forms and
\* saves; every request carries a name.
THEOREM TypeCorrect == Spec => []TypeOK
  <1>1. TInv => TypeOK BY DEF TInv
  <1> QED BY <1>1, TypeInit, TypeStep, PTL DEF Spec

-----------------------------------------------------------------------------
(* The forms that are not behind.                                          *)

LEMMA LineInit == Init => InLine
  BY DEF Init, InLine, Unsent, Opened, Current, Shows, Carries

LEMMA LineForms ==
    ASSUME TInv, InLine, NEW s \in Forms,
           Open(s) \/ ReadsProfile(s) \/ Loaded(s) \/ LoadFails(s) \/ Close(s) \/ SaveFails(s)
    PROVE  InLine'
  <1> USE DEF TInv, TypeOK, InLine, Unsent, Opened, Current, Shows, Carries
  <1>1. CASE Open(s)         BY <1>1 DEF Open
  <1>2. CASE ReadsProfile(s) BY <1>2 DEF ReadsProfile
  <1>3. CASE Loaded(s)       BY <1>3 DEF Loaded, Puts
  <1>4. CASE LoadFails(s)    BY <1>4 DEF LoadFails
  <1>5. CASE Close(s)        BY <1>5 DEF Close
  <1>6. CASE SaveFails(s)    BY <1>6 DEF SaveFails
  <1> QED BY <1>1, <1>2, <1>3, <1>4, <1>5, <1>6

LEMMA LineEdit ==
    ASSUME TInv, InLine, NEW s \in Forms, NEW f \in Fields, NEW v \in Inputs(f),
           Edit(s, f, v)
    PROVE  InLine'
  <1> USE DEF TInv, TypeOK, InLine, Edit
  <1>1. Unsent'  BY DEF Unsent
  <1>2. Opened' /\ Current' BY DEF Opened, Current
  <1>3. Shows'
    <2>1. \A t \in Forms : \A g \in Fields \ edited'[t] :
             g \notin edited[t] /\ form'[t][g] = form[t][g]
      BY DEF Views
    <2> QED BY <2>1 DEF Shows
  <1>4. Carries'
    <2>1. \A t \in Forms : edited[t] \subseteq edited'[t] OBVIOUS
    <2> QED BY <2>1 DEF Carries, Puts
  <1> QED BY <1>1, <1>2, <1>3, <1>4

\* A field that shows the row is sent as the row shows it.
LEMMA FieldCarried ==
    ASSUME TInv, NEW s \in Forms, NEW f \in Fields, form[s][f] = Shown(row)[f]
    PROVE  Carried(f, Field(s, f)) = Shown(row)[f]
  <1>0. row \in Rows /\ form[s] \in Views
    BY DEF TInv, TypeOK
  <1>1. CASE f = "name"
    <2>1. Text(row[f]) \in Texts
      BY <1>0, <1>1, TextSet DEF Rows, TextFields, Trimmed
    <2>2. form[s][f] = Squeeze[Text(row[f])]
      BY <1>1 DEF Shown
    <2>3. Field(s, f) = form[s][f] /\ form[s][f] \in Texts
      BY <1>1, <2>1, <2>2, TextAssumption DEF Field
    <2>4. Carried(f, form[s][f]) = form[s][f]
      BY <1>1, <2>3 DEF Carried, Text
    <2> QED BY <2>3, <2>4
  <1>2. CASE f = "avatar"
    BY <1>2 DEF Field, Carried
  <1>3. CASE f \in PlainFields
    <2>1. form[s][f] \in Texts /\ f # "name" /\ f # "avatar"
      BY <1>0, <1>3 DEF Views, TextFields
    <2> QED BY <2>1 DEF Field, Carried, Text
  <1> QED BY <1>1, <1>2, <1>3 DEF Fields, TextFields

LEMMA LineSave ==
    ASSUME TInv, InLine, NEW s \in Forms, Save(s)
    PROVE  InLine'
  <1> USE DEF TInv, TypeOK, InLine, Save
  <1>1. Unsent'  BY DEF Unsent
  <1>2. Opened' /\ Current' /\ Shows' BY DEF Opened, Current, Shows
  <1>3. s \in fresh => \A f \in Fields \ edited[s] : Carried(f, Payload(s)[f]) = Shown(row)[f]
    <2> SUFFICES ASSUME s \in fresh, NEW f \in Fields \ edited[s]
                 PROVE  Carried(f, Payload(s)[f]) = Shown(row)[f]
      OBVIOUS
    <2>1. form[s][f] = Shown(row)[f]
      BY DEF Shows
    <2>2. Payload(s)[f] = Field(s, f)
      BY DEF Payload
    <2> QED BY <2>1, <2>2, FieldCarried
  <1>4. Carries' BY <1>3 DEF Carries
  <1> QED BY <1>1, <1>2, <1>4

\* A request of a form that is not behind keeps the fields its user left alone.
LEMMA AppliesKeeps ==
    ASSUME TInv, InLine, NEW p \in puts, NEW url \in Urls, Applies(p, url), p.by \in fresh,
           NEW f \in Fields \ edited[p.by]
    PROVE  Shown(row')[f] = Shown(row)[f]
  <1>0. row \in Rows /\ p.data \in Bodies /\ DOMAIN p.data = Fields
    BY DEF TInv, TypeOK, WholeBodies, Puts
  <1>1. row' = Updated(row, p.data, url)
    BY DEF Applies
  <1>2. Carried(f, p.data[f]) = Shown(row)[f]
    BY DEF InLine, Carries
  <1>3. CASE f = "name"
    <2>1. Text(row[f]) \in Texts
      BY <1>0, <1>3, TextSet DEF Rows, TextFields, Trimmed
    <2>2. p.data[f] \in Trimmed /\ p.data[f] # None
      BY <1>0, <1>3 DEF Bodies, Trimmed
    <2>3. p.data[f] = Squeeze[Text(row[f])]
      BY <1>2, <1>3, <2>2 DEF Carried, Text, Shown
    <2>4. row'[f] = p.data[f]
      BY <1>0, <1>1, <1>3, <2>2 DEF Updated, Trimmed
    <2>5. Shown(row')[f] = Squeeze[Text(row'[f])] /\ Shown(row)[f] = Squeeze[Text(row[f])]
      BY <1>3 DEF Shown
    <2>6. Text(p.data[f]) = p.data[f]
      BY <2>2 DEF Text
    <2> QED BY <2>1, <2>3, <2>4, <2>5, <2>6, TextAssumption
  <1>4. CASE f = "avatar"
    <2>1. p.data[f] = row[f]
      BY <1>2, <1>4 DEF Carried, Shown
    <2>2. row[f] \notin Files
      BY <1>0, <1>4 DEF Rows
    <2>3. row'[f] = row[f]
      BY <1>0, <1>1, <1>4, <2>1, <2>2 DEF Updated
    <2> QED BY <1>4, <2>3 DEF Shown
  <1>5. CASE f \in PlainFields
    <2>1. f # "name" /\ f # "avatar" /\ f \in TextFields
      BY <1>5 DEF TextFields
    <2>2. Text(p.data[f]) = Text(row[f])
      BY <1>2, <2>1 DEF Carried, Shown
    <2>3. row[f] \in Trimmed \cup {None} /\ p.data[f] \in Texts \cup {None}
      BY <1>0, <1>5, <2>1 DEF Rows, Bodies
    <2>4. row'[f] = IF p.data[f] = None THEN None ELSE Trim[p.data[f]]
      BY <1>0, <1>1, <2>1 DEF Updated
    <2>5. Text(row'[f]) = Text(row[f])
      <3>1. CASE p.data[f] = None BY <2>2, <2>4, <3>1
      <3>2. CASE p.data[f] # None
        <4>1. p.data[f] = Text(row[f]) /\ row'[f] = Trim[p.data[f]]
          BY <2>2, <2>4, <3>2 DEF Text
        <4>2. Text(row[f]) \in Trimmed
          BY <2>3, TrimmedEmpty DEF Text
        <4>3. row'[f] = p.data[f] /\ p.data[f] # None
          BY <3>2, <4>1, <4>2 DEF Trimmed
        <4> QED BY <2>2, <4>3
      <3> QED BY <3>1, <3>2
    <2> QED BY <2>1, <2>5 DEF Shown
  <1> QED BY <1>3, <1>4, <1>5 DEF Fields, TextFields

LEMMA LinePuts ==
    ASSUME TInv, InLine, NEW p,
           \/ p \in puts /\ (Lost(p) \/ \E url \in Urls : Applies(p, url))
           \/ p \in done /\ Answered(p)
    PROVE  InLine'
  <1>k. ASSUME p \in puts, NEW url \in Urls, Applies(p, url), p.by \in fresh
        PROVE  \A f \in Fields \ edited[p.by] : Shown(row')[f] = Shown(row)[f]
    BY <1>k, AppliesKeeps
  <1> USE DEF TInv, TypeOK, InLine
  <1>0. p \in Puts /\ p.by \in Forms
    BY DEF Puts
  <1>1. ASSUME p \in puts, NEW url \in Urls, Applies(p, url) PROVE InLine'
    <2>1. Unsent' /\ Opened' BY <1>1 DEF Applies, Unsent, Opened
    <2>2. Current'           BY <1>1, <1>0 DEF Applies, Unsent, Current
    <2>3. Shows'             BY <1>1, <1>k DEF Applies, Shows
    <2>4. Carries'           BY <1>1, <1>k DEF Applies, Carries
    <2> QED BY <2>1, <2>2, <2>3, <2>4
  <1>2. CASE Lost(p)
    BY <1>2 DEF Lost, Unsent, Opened, Current, Shows, Carries
  <1>3. CASE Answered(p)
    BY <1>0, <1>3 DEF Answered, Awaits, Unsent, Opened, Current, Shows, Carries
  <1> QED BY <1>1, <1>2, <1>3

LEMMA LineStep == TInv /\ InLine /\ [Next]_vars => InLine'
  <1> SUFFICES ASSUME TInv, InLine, [Next]_vars PROVE InLine'
    OBVIOUS
  <1>1. CASE UNCHANGED vars
    BY <1>1 DEF InLine, Unsent, Opened, Current, Shows, Carries, vars
  <1>2. CASE Next
    BY <1>2, LineForms, LineEdit, LineSave, LinePuts DEF Next
  <1> QED BY <1>1, <1>2

\* A form that was loaded, and since whose load no other form was saved, changes only
\* what the user edited in it, as the next form shows it: for any number of forms and
\* saves, and any texts.
THEOREM LoneSave == Spec => LoneSaveKeeps
  <1> DEFINE Keeps == \A p \in puts : p \notin puts' /\ p.by \in fresh
                          => \A f \in Fields \ edited[p.by] : Shown(row')[f] = Shown(row)[f]
  <1>1. Init => TInv /\ InLine BY TypeInit, LineInit
  <1>2. TInv /\ InLine /\ [Next]_vars => (TInv /\ InLine)' BY TypeStep, LineStep
  <1>3. TInv /\ InLine /\ [Next]_vars => [Keeps]_vars
    <2> SUFFICES ASSUME TInv, InLine, Next, NEW p \in puts, p \notin puts', p.by \in fresh,
                        NEW f \in Fields \ edited[p.by]
                 PROVE  Shown(row')[f] = Shown(row)[f]
      OBVIOUS
    <2>1. CASE \E q \in puts, url \in Urls : Applies(q, url)
      <3>1. PICK q \in puts, url \in Urls : Applies(q, url) BY <2>1
      <3>2. q = p BY <3>1 DEF Applies
      <3> QED BY <3>1, <3>2, AppliesKeeps
    <2>2. CASE ~\E q \in puts, url \in Urls : Applies(q, url)
      <3>1. UNCHANGED row
        BY <2>2 DEF Next, Open, ReadsProfile, Loaded, LoadFails, Close, Save, SaveFails, Edit,
                    Lost, Answered
      <3> QED BY <3>1
    <2> QED BY <2>1, <2>2
  <1> QED BY <1>1, <1>2, <1>3, PTL DEF Spec, LoneSaveKeeps
=============================================================================
