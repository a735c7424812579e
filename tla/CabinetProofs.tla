--------------------------- MODULE CabinetProofs ---------------------------
(* What holds of the pages around the rehearsals, for any number of         *)
(* payments, page loads, meetings, opponents, scenarios, notifications and  *)
(* users.                                                                   *)
EXTENDS MCCabinet, ListsProofs, FiniteSetTheorems, SequenceTheorems, TLAPS

-----------------------------------------------------------------------------
(* Lemmas about finite sets.                                               *)

LEMMA FiniteImage ==
  \A U, f : IsFiniteSet(U) => IsFiniteSet({f[x] : x \in U})
<1> SUFFICES ASSUME NEW U, IsFiniteSet(U), NEW f PROVE IsFiniteSet({f[x] : x \in U})
  OBVIOUS
<1> DEFINE T == {f[x] : x \in U}
<1> DEFINE g == [x \in U |-> f[x]]
<1>1. g \in Surjection(U, T)
  BY DEF Surjection
<1> QED
  BY <1>1, FS_Surjection

\* The elements of a finite set, one after the other.
LEMMA ListOfSet ==
  ASSUME NEW T, NEW U \in SUBSET T, IsFiniteSet(U), NEW s \in [1..Cardinality(U) -> U]
  PROVE  s \in Seq(T)
<1>1. Cardinality(U) \in Nat
  BY FS_CardinalityType
<1> QED
  BY <1>1

-----------------------------------------------------------------------------
(* Meetings: the form and what is saved of it (M!Next).                    *)

\* The open form was filled from the meeting that is edited, and so was the one
\* that is being saved; it has a title and a date, and a meeting that is edited
\* has a date the browser can show.
M_Form ==
  /\ modalOpen => meetingsForm.of = M!InitialOf(meetingsEditing).of
  /\ meetingsEditing # None => M!FormatDatetimeLocal(meetingsEditing.date) \in M!Dates
  /\ meetingsSent # None => /\ meetingsSent.form.of = meetingsSent.id
                            /\ meetingsSent.form.title # None
                            /\ meetingsSent.form.date # None

M_Inv == M!TypeOK /\ M_Form

M_Page ==
  /\ meetingsList = None \/ meetingsList \in Seq(M!Meeting)
  /\ modalOpen \in BOOLEAN /\ meetingsEditing \in M!Meeting \cup {None}
  /\ meetingsForm \in M!MeetingFormData
  /\ meetingsSent = None
       \/ meetingsSent \in [id : Meets \cup {None}, form : M!MeetingFormData,
                            state : {"asked", "written", "refused"}]
  /\ meetingsDeletions \subseteq Meets

M_Server ==
  /\ meetingsRow \in [Meets -> M!Row \cup {None}]
  /\ meetingsFlushed \in [Meets -> M!Row \cup {None}]
  /\ meetingsRemoving \subseteq Meets /\ meetingsBegun \subseteq Meets

LEMMA M_Parts == M_Inv <=> M_Page /\ M_Server /\ M_Form
BY DEF M_Inv, M!TypeOK, M_Page, M_Server

LEMMA M_Init == ASSUME M!MeetingsAssumption, M!Init PROVE M_Inv
<1>1. M_Page
  BY DEF M!Init, M_Page, M!EmptyForm, M!MeetingFormData
<1>2. M_Server
  BY DEF M!Init, M_Server
<1>3. M_Form
  BY DEF M!Init, M_Form
<1> QED
  BY <1>1, <1>2, <1>3, M_Parts

LEMMA M_CardsType == ASSUME M_Page PROVE M!Cards \subseteq M!Meeting
BY DEF M_Page, M!Cards, M!ToSet

LEMMA M_InitialType ==
  ASSUME M!MeetingsAssumption, NEW meeting \in M!Meeting \cup {None},
         meeting # None => M!FormatDatetimeLocal(meeting.date) \in M!Dates
  PROVE  M!InitialOf(meeting) \in M!MeetingFormData
<1>1. CASE meeting = None
  BY <1>1 DEF M!InitialOf, M!EmptyForm, M!MeetingFormData
<1>2. CASE meeting # None
  <2>1. meeting \in M!Meeting
    BY <1>2
  <2>2. meeting.id \in Meets /\ meeting.title \in Titles
    BY <2>1 DEF M!Meeting
  <2> QED
    BY <1>2, <2>2 DEF M!InitialOf, M!MeetingFormData
<1> QED
  BY <1>1, <1>2

\* What a rendering does to the form, in any state of the page.
LEMMA M_Renders ==
  ASSUME M!MeetingsAssumption, M_Page, M_Form, M!PageRenders
  PROVE  /\ meetingsForm' \in M!MeetingFormData
         /\ modalOpen => meetingsForm'.of = M!InitialOf(meetingsEditing).of
BY M_InitialType DEF M_Page, M_Form, M!PageRenders, M!Rendered

LEMMA M_FormSteps ==
  ASSUME M!MeetingsAssumption, M_Page, M_Form,
         M!OpenCreate \/ M!OpenEdit \/ M!CloseModal \/ M!TypeTitle \/ M!TypeDate
  PROVE  M_Page' /\ M_Form' /\ UNCHANGED M!server
<1>1. CASE M!OpenCreate
  <2>1. meetingsForm' = M!InitialOf(None) /\ meetingsEditing' = None
    BY <1>1 DEF M!OpenCreate, M!Rendered
  <2>2. meetingsForm' \in M!MeetingFormData
    BY <2>1, M_InitialType
  <2> QED
    BY <1>1, <2>1, <2>2 DEF M!OpenCreate, M_Page, M_Form
<1>2. CASE M!OpenEdit
  <2>1. PICK meeting \in M!Cards :
          /\ M!FormatDatetimeLocal(meeting.date) \in M!Dates
          /\ modalOpen' = TRUE /\ meetingsEditing' = meeting
          /\ meetingsForm' = M!InitialOf(meeting)
    BY <1>2 DEF M!OpenEdit, M!Rendered
  <2>2. meeting \in M!Meeting
    BY <2>1, M_CardsType
  <2>3. meetingsForm' \in M!MeetingFormData
    BY <2>1, <2>2, M_InitialType
  <2> QED
    BY <1>2, <2>1, <2>2, <2>3 DEF M!OpenEdit, M_Page, M_Form
<1>3. CASE M!CloseModal
  BY <1>3 DEF M!CloseModal, M_Page, M_Form
<1>4. CASE M!TypeTitle
  <2>1. PICK title \in Titles : M!HandleChange([meetingsForm EXCEPT !.title = title])
    BY <1>4 DEF M!TypeTitle
  <2>2. meetingsForm' \in M!MeetingFormData /\ meetingsForm'.of = meetingsForm.of
    BY <2>1 DEF M!HandleChange, M_Page, M!MeetingFormData
  <2> QED
    BY <2>1, <2>2 DEF M!HandleChange, M_Page, M_Form
<1>5. CASE M!TypeDate
  <2>1. PICK date \in M!Dates : M!HandleChange([meetingsForm EXCEPT !.date = date])
    BY <1>5 DEF M!TypeDate
  <2>2. meetingsForm' \in M!MeetingFormData /\ meetingsForm'.of = meetingsForm.of
    BY <2>1 DEF M!HandleChange, M_Page, M!MeetingFormData
  <2> QED
    BY <2>1, <2>2 DEF M!HandleChange, M_Page, M_Form
<1> QED
  BY <1>1, <1>2, <1>3, <1>4, <1>5

LEMMA M_SaveSteps ==
  ASSUME M!MeetingsAssumption, M_Page, M_Form,
         M!HandleSubmit \/ M!SaveSucceeds \/ M!SaveFails
  PROVE  M_Page' /\ M_Form' /\ UNCHANGED M!server
<1>1. CASE M!HandleSubmit
  <2>1. /\ meetingsForm' \in M!MeetingFormData
        /\ meetingsForm'.of = M!InitialOf(meetingsEditing).of
    BY <1>1, M_Renders DEF M!HandleSubmit
  <2>2. /\ meetingsSent'.form = meetingsForm
        /\ meetingsSent'.id = (IF meetingsEditing = None THEN None ELSE meetingsEditing.id)
    BY <1>1 DEF M!HandleSubmit
  <2>3. meetingsSent'.form.of = meetingsSent'.id
    BY <1>1, <2>2 DEF M!HandleSubmit, M_Form, M!InitialOf, M!EmptyForm
  <2>4. (IF meetingsEditing = None THEN None ELSE meetingsEditing.id) \in Meets \cup {None}
    BY DEF M_Page, M!Meeting
  <2>5. meetingsSent' \in [id : Meets \cup {None}, form : M!MeetingFormData,
                           state : {"asked", "written", "refused"}]
    BY <1>1, <2>4 DEF M!HandleSubmit, M_Page
  <2>6. M_Page'
    BY <1>1, <2>1, <2>5 DEF M!HandleSubmit, M_Page
  <2>7. M_Form'
    BY <1>1, <2>1, <2>2, <2>3 DEF M!HandleSubmit, M!CanSubmit, M_Form
  <2> QED
    BY <1>1, <2>6, <2>7 DEF M!HandleSubmit
<1>2. CASE M!SaveSucceeds
  BY <1>2 DEF M!SaveSucceeds, M_Page, M_Form
<1>3. CASE M!SaveFails
  <2>1. /\ meetingsForm' \in M!MeetingFormData
        /\ modalOpen => meetingsForm'.of = M!InitialOf(meetingsEditing).of
    BY <1>3, M_Renders DEF M!SaveFails
  <2> QED
    BY <1>3, <2>1 DEF M!SaveFails, M_Page, M_Form
<1> QED
  BY <1>1, <1>2, <1>3

LEMMA M_CardSteps ==
  ASSUME M!MeetingsAssumption, M_Page, M_Form,
         \/ M!HandleDelete \/ M!HandleStartSimulation
         \/ \E m \in Meets : M!DeleteSettles(m)
  PROVE  M_Page' /\ M_Form' /\ UNCHANGED M!server
<1>1. CASE M!HandleDelete
  <2>1. PICK meeting \in M!Cards : meetingsDeletions' = meetingsDeletions \cup {meeting.id}
    BY <1>1 DEF M!HandleDelete
  <2>2. meeting.id \in Meets
    BY M_CardsType DEF M!Meeting
  <2> QED
    BY <1>1, <2>1, <2>2 DEF M!HandleDelete, M_Page, M_Form
<1>2. CASE M!HandleStartSimulation
  BY <1>2 DEF M!HandleStartSimulation, M_Page, M_Form, M!EmptyForm, M!MeetingFormData
<1>3. ASSUME NEW m \in Meets, M!DeleteSettles(m) PROVE M_Page' /\ M_Form' /\ UNCHANGED M!server
  <2>1. /\ meetingsForm' \in M!MeetingFormData
        /\ modalOpen => meetingsForm'.of = M!InitialOf(meetingsEditing).of
    BY <1>3, M_Renders DEF M!DeleteSettles
  <2> QED
    BY <1>3, <2>1 DEF M!DeleteSettles, M_Page, M_Form
<1> QED
  BY <1>1, <1>2, <1>3

LEMMA M_Finite == \A U : M!IsFiniteSet(U) <=> IsFiniteSet(U)
BY DEF M!IsFiniteSet, IsFiniteSet

LEMMA M_Cardinality == \A U : M!Cardinality(U) = Cardinality(U)
BY DEF M!Cardinality, Cardinality

LEMMA M_ListStep ==
  ASSUME M!MeetingsAssumption, M_Page, M_Server, M_Form, M!ListMeetings
  PROVE  M_Page' /\ M_Form' /\ UNCHANGED M!server
<1> DEFINE shown == {m \in Meets : meetingsRow[m] # None}
           Item == [m \in shown |-> [id |-> m, title |-> meetingsRow[m].title,
                                    date |-> meetingsRow[m].date,
                                    status |-> meetingsRow[m].status,
                                    active |-> meetingsRow[m].active]]
           Items == {Item[m] : m \in shown}
<1>1. IsFiniteSet(shown)
  BY FS_Subset, M_Finite DEF M!MeetingsAssumption
<1>2. IsFiniteSet(Items)
  <2> HIDE DEF shown, Item
  <2> QED
    BY <1>1, FiniteImage
<1>3. Items \subseteq M!Meeting
  <2>1. ASSUME NEW m \in shown PROVE meetingsRow[m] \in M!Row
    BY <2>1 DEF M_Server
  <2>2. ASSUME NEW m \in shown PROVE Item[m] \in M!Meeting
    BY <2>1 DEF M!Row, M!Meeting
  <2> QED
    BY <2>2
<1>4. meetingsList' \in M!SetToSeqs(Items)
  <2>1. Items = {[id |-> m, title |-> meetingsRow[m].title, date |-> meetingsRow[m].date,
                  status |-> meetingsRow[m].status, active |-> meetingsRow[m].active] : m \in shown}
    OBVIOUS
  <2> QED
    BY <2>1 DEF M!ListMeetings
<1>5. meetingsList' \in [1..Cardinality(Items) -> Items]
  BY <1>4, M_Cardinality DEF M!SetToSeqs
<1>6. meetingsList' \in Seq(M!Meeting)
  <2> HIDE DEF Items
  <2> QED
    BY <1>2, <1>3, <1>5, ListOfSet
<1>7. /\ meetingsForm' \in M!MeetingFormData
      /\ modalOpen => meetingsForm'.of = M!InitialOf(meetingsEditing).of
  BY M_Renders DEF M!ListMeetings, M_Page, M_Form
<1> QED
  BY <1>6, <1>7 DEF M!ListMeetings, M_Page, M_Form

LEMMA M_RouterSteps ==
  ASSUME M!MeetingsAssumption, M_Page, M_Server, M_Form, M!CreateMeeting \/ M!UpdateMeeting
  PROVE  M_Page' /\ M_Server' /\ M_Form'
<1>1. meetingsSent # None /\ meetingsSent.form \in M!MeetingFormData /\ meetingsSent.id \in Meets \cup {None}
  BY DEF M!CreateMeeting, M!UpdateMeeting, M_Page
<1>2. meetingsSent.form.title \in Titles /\ meetingsSent.form.date \in M!Dates
  BY <1>1 DEF M_Form, M!MeetingFormData
<1>3. CASE M!CreateMeeting
  <2>1. PICK m \in Meets \ meetingsBegun :
          /\ meetingsFlushed' = [meetingsFlushed EXCEPT
               ![m] = [title |-> meetingsSent.form.title, date |-> meetingsSent.form.date,
                       status |-> "upcoming", active |-> FALSE]]
          /\ meetingsBegun' = meetingsBegun \cup {m}
    BY <1>3 DEF M!CreateMeeting
  <2>2. [title |-> meetingsSent.form.title, date |-> meetingsSent.form.date,
         status |-> "upcoming", active |-> FALSE] \in M!Row
    BY <1>2 DEF M!Row, M!MeetingStatus
  <2>3. M_Server'
    BY <1>3, <2>1, <2>2 DEF M!CreateMeeting, M_Server
  <2>4. meetingsSent' = [meetingsSent EXCEPT !.state = "written"]
    BY <1>3 DEF M!CreateMeeting
  <2>5. M_Page' /\ M_Form'
    BY <1>3, <2>4 DEF M!CreateMeeting, M_Page, M_Form
  <2> QED
    BY <2>3, <2>5
<1>4. CASE M!UpdateMeeting
  <2> DEFINE m == meetingsSent.id
  <2>1. m \in Meets
    BY <1>1, <1>4 DEF M!UpdateMeeting
  <2>2. M_Page' /\ M_Form'
    <3>1. PICK state \in {"written", "refused"} : meetingsSent' = [meetingsSent EXCEPT !.state = state]
      BY <1>4 DEF M!UpdateMeeting
    <3> QED
      BY <1>4, <3>1 DEF M!UpdateMeeting, M_Page, M_Form
  <2>3. meetingsFlushed' \in [Meets -> M!Row \cup {None}]
    <3>1. CASE meetingsRow[m] = None
      BY <1>4, <3>1 DEF M!UpdateMeeting, M_Server
    <3>2. CASE meetingsRow[m] # None
      <4>1. meetingsRow[m] \in M!Row
        BY <2>1, <3>2 DEF M_Server
      <4>2. [meetingsRow[m] EXCEPT !.title = meetingsSent.form.title,
                                   !.date = meetingsSent.form.date] \in M!Row
        BY <1>2, <4>1 DEF M!Row
      <4> QED
        BY <1>4, <2>1, <3>2, <4>2 DEF M!UpdateMeeting, M_Server
    <3> QED
      BY <3>1, <3>2
  <2>4. M_Server'
    BY <1>4, <2>3 DEF M!UpdateMeeting, M_Server
  <2> QED
    BY <2>2, <2>4
<1> QED
  BY <1>3, <1>4

LEMMA M_RowSteps ==
  ASSUME M!MeetingsAssumption, M_Page, M_Server, M_Form, NEW m \in Meets,
         M!DeleteMeeting(m) \/ M!CommitMeeting(m) \/ M!LinkMeeting(m) \/ M!EndSession(m)
  PROVE  UNCHANGED M!view /\ M_Server'
<1>1. CASE M!DeleteMeeting(m)
  BY <1>1 DEF M!DeleteMeeting, M_Server
<1>2. CASE M!CommitMeeting(m)
  BY <1>2 DEF M!CommitMeeting, M_Server
<1>3. CASE M!LinkMeeting(m)
  <2>1. meetingsRow[m] \in M!Row
    BY <1>3 DEF M!LinkMeeting, M_Server
  <2>2. [meetingsRow[m] EXCEPT !.status = "prepared", !.active = TRUE] \in M!Row
    BY <2>1 DEF M!Row, M!MeetingStatus
  <2> QED
    BY <1>3, <2>2 DEF M!LinkMeeting, M_Server
<1>4. CASE M!EndSession(m)
  <2>1. meetingsRow[m] \in M!Row
    BY <1>4 DEF M!EndSession, M_Server
  <2>2. [meetingsRow[m] EXCEPT !.active = FALSE] \in M!Row
    BY <2>1 DEF M!Row
  <2> QED
    BY <1>4, <2>2 DEF M!EndSession, M_Server
<1> QED
  BY <1>1, <1>2, <1>3, <1>4

LEMMA M_Step == ASSUME M!MeetingsAssumption, M_Inv, [M!Next]_(M!vars) PROVE M_Inv'
<1>1. M_Page /\ M_Server /\ M_Form
  BY M_Parts
<1>2. SUFFICES M_Page' /\ M_Server' /\ M_Form'
  BY M_Parts DEF M_Inv, M!TypeOK, M_Page, M_Server
<1>3. UNCHANGED M!server => M_Server'
  BY <1>1 DEF M!server, M_Server
<1>4. UNCHANGED M!view => M_Page' /\ M_Form'
  BY <1>1 DEF M!view, M_Page, M_Form
<1>5. CASE M!OpenCreate \/ M!OpenEdit \/ M!CloseModal \/ M!TypeTitle \/ M!TypeDate
  BY <1>1, <1>3, <1>5, M_FormSteps
<1>6. CASE M!HandleSubmit \/ M!SaveSucceeds \/ M!SaveFails
  BY <1>1, <1>3, <1>6, M_SaveSteps
<1>7. CASE \/ M!HandleDelete \/ M!HandleStartSimulation
           \/ \E m \in Meets : M!DeleteSettles(m)
  BY <1>1, <1>3, <1>7, M_CardSteps
<1>8. CASE M!ListMeetings
  BY <1>1, <1>3, <1>8, M_ListStep
<1>9. CASE M!CreateMeeting \/ M!UpdateMeeting
  BY <1>1, <1>9, M_RouterSteps
<1>10. ASSUME NEW m \in Meets,
              M!DeleteMeeting(m) \/ M!CommitMeeting(m) \/ M!LinkMeeting(m) \/ M!EndSession(m)
       PROVE  M_Page' /\ M_Server' /\ M_Form'
  BY <1>1, <1>4, <1>10, M_RowSteps
<1>11. CASE UNCHANGED M!vars
  BY <1>3, <1>4, <1>11 DEF M!vars
<1> QED
  BY <1>5, <1>6, <1>7, <1>8, <1>9, <1>10, <1>11 DEF M!Next

LEMMA M_OwnForm == ASSUME M_Inv PROVE M!SavedIntoItsOwn
BY DEF M_Inv, M_Form, M!SavedIntoItsOwn

-----------------------------------------------------------------------------
(* Catalogue: the list and the filters (C!Next).                           *)

\* A filter request that is out is for the chosen tab; none is out while the
\* catalogue loads or another page is shown.
C_Asked ==
  /\ asked \subseteq {tab}
  /\ catalogPlace # "catalog" \/ loading => asked = {}

C_Inv == C!TypeOK /\ C_Asked

LEMMA C_Init == ASSUME C!CatalogAssumption, C!Init PROVE C_Inv
<1>1. <<>> \in Seq(C!Item)
  OBVIOUS
<1>2. C!TypeOK
  BY <1>1 DEF C!Init, C!TypeOK, C!Tabs
<1>3. C_Asked
  BY DEF C!Init, C_Asked
<1> QED
  BY <1>2, <1>3 DEF C_Inv

LEMMA C_Finite == \A U : C!IsFiniteSet(U) <=> IsFiniteSet(U)
BY DEF C!IsFiniteSet, IsFiniteSet

LEMMA C_SetToSeq ==
  ASSUME NEW U, IsFiniteSet(U)
  PROVE  C!SetToSeq(U) \in [1..Cardinality(U) -> U]
<1>1. C!Cardinality(U) = Cardinality(U)
  BY DEF C!Cardinality, Cardinality
<1>2. PICK f \in Bijection(1..Cardinality(U), U) : TRUE
  BY FS_CardinalityType DEF ExistsBijection
<1>3. f \in [1..Cardinality(U) -> U] /\ C!IsInjective(f)
  BY <1>2 DEF Bijection, Injection, IsInjective, C!IsInjective
<1> QED
  BY <1>1, <1>3 DEF C!SetToSeq

\* The scenarios of a tab, from a catalogue of categories.
LEMMA C_Items ==
  ASSUME C!CatalogAssumption, NEW t \in C!Tabs,
         NEW categories \in {Embedded, Served}
  PROVE  /\ IsFiniteSet(C!ItemsOf(categories, t))
         /\ C!ItemsOf(categories, t) \subseteq C!Item
         /\ \A item \in C!ItemsOf(categories, t) : C!InTab(item, t)
<1> DEFINE U == DOMAIN categories
           f == [s \in U |-> [slug |-> s, category |-> categories[s]]]
           T == {f[s] : s \in U}
<1>1. U \subseteq Slugs /\ \A s \in U : categories[s] \in C!CATEGORY_META
  BY DEF C!CatalogAssumption
<1>2. IsFiniteSet(U)
  BY <1>1, FS_Subset, C_Finite DEF C!CatalogAssumption
<1>3. IsFiniteSet(T)
  <2> HIDE DEF U, f
  <2> QED
    BY <1>2, FiniteImage
<1>4. C!ItemsOf(categories, t) = {item \in T : C!InTab(item, t)}
  BY DEF C!ItemsOf, C!ItemOf
<1>5. T \subseteq C!Item
  BY <1>1 DEF C!Item
<1> QED
  BY <1>3, <1>4, <1>5, FS_Subset

\* The list that is shown keeps to the tab.
LEMMA C_Prioritized ==
  ASSUME C!CatalogAssumption, NEW t \in C!Tabs, NEW items \in SUBSET C!Item, IsFiniteSet(items),
         \A item \in items : C!InTab(item, t)
  PROVE  /\ C!PrioritizeWedgeScenario(items, t) \in Seq(C!Item)
         /\ \A item \in C!ToSet(C!PrioritizeWedgeScenario(items, t)) : C!InTab(item, t)
<1> DEFINE good == {item \in C!Item : C!InTab(item, t)}
           lead == C!ItemOf(WEDGE_SCENARIO_SLUG, Embedded)
           existing == {item \in items : item.slug = WEDGE_SCENARIO_SLUG}
           first == IF existing = {} THEN {lead} ELSE existing
           list == C!PrioritizeWedgeScenario(items, t)
<1>1. lead \in C!Item
  BY DEF C!CatalogAssumption, C!ItemOf, C!Item
<1>2. \A U \in SUBSET good : IsFiniteSet(U) => C!SetToSeq(U) \in Seq(good)
  BY C_SetToSeq, ListOfSet
<1>3. items \in SUBSET good
  OBVIOUS
<1>4. list \in Seq(good)
  <2>1. CASE ~C!InTab(lead, t)
    BY <1>2, <1>3, <2>1 DEF C!PrioritizeWedgeScenario
  <2>2. CASE C!InTab(lead, t)
    <3>1. first \in SUBSET good /\ IsFiniteSet(first)
      BY <1>1, <1>3, <2>2, FS_Subset, FS_Singleton
    <3>2. (items \ existing) \in SUBSET good /\ IsFiniteSet(items \ existing)
      BY <1>3, FS_Subset
    <3>3. list = C!SetToSeq(first) \o C!SetToSeq(items \ existing)
      BY <2>2 DEF C!PrioritizeWedgeScenario
    <3> HIDE DEF good, first, existing, list
    <3>4. C!SetToSeq(first) \in Seq(good) /\ C!SetToSeq(items \ existing) \in Seq(good)
      BY <1>2, <3>1, <3>2
    <3> QED
      BY <3>3, <3>4
  <2> QED
    BY <2>1, <2>2
<1>5. \A item \in C!ToSet(list) : item \in good
  <2> HIDE DEF list, good
  <2> QED
    BY <1>4 DEF C!ToSet
<1>6. list \in Seq(C!Item)
  <2>1. good \subseteq C!Item
    OBVIOUS
  <2> HIDE DEF list, good
  <2> QED
    BY <1>4, <2>1
<1> QED
  BY <1>5, <1>6

\* So do the lists of the API and of the embedded scenarios.
LEMMA C_Shown ==
  ASSUME C!CatalogAssumption, NEW t \in C!Tabs, NEW categories \in {Embedded, Served}
  PROVE  /\ C!PrioritizeWedgeScenario(C!ItemsOf(categories, t), t) \in Seq(C!Item)
         /\ \A item \in C!ToSet(C!PrioritizeWedgeScenario(C!ItemsOf(categories, t), t)) :
              C!InTab(item, t)
BY C_Items, C_Prioritized

LEMMA C_Embed ==
  ASSUME C!CatalogAssumption, NEW t \in C!Tabs, C!Embed(t)
  PROVE  /\ catalogList' \in Seq(C!Item)
         /\ \A item \in C!ToSet(catalogList') : C!InTab(item, t)
BY C_Shown DEF C!Embed, C!GetFallbackScenarios

LEMMA C_Pressure ==
  ASSUME NEW value \in C!Difficulties
  PROVE  C!NormalizeStartDifficulty(value) \in {1, 3, 5}
<1>1. \A a, b, v : C!Closer(a, b, v) \in {a, b}
  BY DEF C!Closer
<1>2. /\ C!START_PRESSURE_OPTIONS[1] = 1 /\ C!START_PRESSURE_OPTIONS[2] = 3
      /\ C!START_PRESSURE_OPTIONS[3] = 5
  BY DEF C!START_PRESSURE_OPTIONS
<1> QED
  BY <1>1, <1>2 DEF C!NormalizeStartDifficulty

C_Catalogue ==
  /\ tab \in C!Tabs /\ catalogList \in Seq(C!Item)
  /\ loading \in BOOLEAN /\ fallback \in BOOLEAN
  /\ asked \subseteq C!Tabs

C_Detail ==
  /\ scenario = None
       \/ scenario \in [slug : Slugs, category : C!CATEGORY_META \cup {"unknown"}]
  /\ standIn \in BOOLEAN /\ pressure \in {1, 3, 5}

C_Start ==
  /\ catalogPlace \in {"catalog", "detail", "guest", "upload"}
  /\ starts \subseteq [slug : Slugs, category : C!CATEGORY_META, pressure : {1, 3, 5}]
  /\ handed = None \/ handed.slug \in Slugs

LEMMA C_Parts == C_Inv <=> C_Catalogue /\ C_Detail /\ C_Start /\ C_Asked
BY DEF C_Inv, C!TypeOK, C_Catalogue, C_Detail, C_Start

\* What a step of the catalogue keeps, and what it promises of the list.
C_ListKept ==
  catalogList' # catalogList /\ ~loading /\ catalogPlace' = catalogPlace
    => \A item \in C!ToSet(catalogList') : C!InTab(item, tab')

LEMMA C_CatalogueStep ==
  ASSUME C!CatalogAssumption, C_Catalogue, C_Asked,
         \/ C!LoadSucceeds \/ C!LoadFails
         \/ \E t \in C!Tabs : C!SetActiveCategory(t)
         \/ \E t \in asked, ok \in BOOLEAN : C!FilterScenarios(t, ok)
  PROVE  /\ C_Catalogue' /\ C_Asked' /\ C_ListKept
         /\ UNCHANGED <<catalogPlace, scenario, standIn, pressure, starts, handed>>
<1>1. "all" \in C!Tabs
  BY DEF C!Tabs
<1>2. CASE C!LoadSucceeds
  <2>1. catalogList' \in Seq(C!Item)
    BY <1>1, <1>2, C_Shown DEF C!LoadSucceeds, C!GetScenarios
  <2> QED
    BY <1>2, <2>1 DEF C!LoadSucceeds, C!detail, C_Catalogue, C_Asked, C_ListKept
<1>3. CASE C!LoadFails
  <2>1. catalogList' \in Seq(C!Item)
    BY <1>1, <1>3, C_Shown DEF C!LoadFails, C!GetFallbackScenarios
  <2> QED
    BY <1>3, <2>1 DEF C!LoadFails, C!detail, C_Catalogue, C_Asked, C_ListKept
<1>4. ASSUME NEW t \in C!Tabs, C!SetActiveCategory(t)
      PROVE  /\ C_Catalogue' /\ C_Asked' /\ C_ListKept
             /\ UNCHANGED <<catalogPlace, scenario, standIn, pressure, starts, handed>>
  <2>1. /\ catalogPlace = "catalog" /\ tab' = t
        /\ UNCHANGED <<catalogPlace, loading, fallback, scenario, standIn, pressure, starts, handed>>
    BY <1>4 DEF C!SetActiveCategory, C!detail
  <2>2. CASE loading
    BY <1>4, <2>1, <2>2 DEF C!SetActiveCategory, C_Catalogue, C_Asked, C_ListKept
  <2>3. CASE ~loading /\ fallback
    <3>1. C!Embed(t) /\ asked' = {}
      BY <1>4, <2>3 DEF C!SetActiveCategory, C!CancelFilters
    <3> QED
      BY <2>1, <2>3, <3>1, C_Embed DEF C_Catalogue, C_Asked, C_ListKept
  <2>4. CASE ~loading /\ ~fallback
    <3>1. catalogList' = catalogList /\ asked' = {t}
      BY <1>4, <2>4 DEF C!SetActiveCategory, C!CancelFilters
    <3> QED
      BY <2>1, <2>4, <3>1 DEF C_Catalogue, C_Asked, C_ListKept
  <2> QED
    BY <2>2, <2>3, <2>4
<1>5. ASSUME NEW t \in asked, NEW ok \in BOOLEAN, C!FilterScenarios(t, ok)
      PROVE  /\ C_Catalogue' /\ C_Asked' /\ C_ListKept
             /\ UNCHANGED <<catalogPlace, scenario, standIn, pressure, starts, handed>>
  <2>1. t = tab /\ t \in C!Tabs /\ ~loading
    BY DEF C_Asked, C_Catalogue
  <2>2. /\ asked' = asked \ {t}
        /\ UNCHANGED <<catalogPlace, tab, loading, scenario, standIn, pressure, starts, handed>>
    BY <1>5 DEF C!FilterScenarios, C!detail
  <2>3. fallback' \in BOOLEAN
    BY <1>5 DEF C!FilterScenarios, C_Catalogue
  <2>4. /\ catalogList' \in Seq(C!Item)
        /\ \A item \in C!ToSet(catalogList') : C!InTab(item, t)
    BY <1>5, <2>1, C_Embed, C_Shown DEF C!FilterScenarios, C!GetScenarios
  <2> QED
    BY <2>1, <2>2, <2>3, <2>4 DEF C_Catalogue, C_Asked, C_ListKept
<1> QED
  BY <1>2, <1>3, <1>4, <1>5

LEMMA C_OpenStep ==
  ASSUME C!CatalogAssumption, C_Catalogue, C_Start, C_Asked, NEW s \in Slugs, C!OpenScenario(s)
  PROVE  C_Catalogue' /\ C_Detail' /\ C_Start' /\ C_Asked' /\ UNCHANGED catalogList
BY DEF C!OpenScenario, C!CancelFilters, C_Catalogue, C_Detail, C_Start, C_Asked

LEMMA C_LoadStep ==
  ASSUME C!CatalogAssumption, C_Detail, NEW ok \in BOOLEAN, C!LoadScenario(ok)
  PROVE  C_Detail' /\ UNCHANGED <<catalogPlace, C!catalogue, starts, handed>>
<1>1. scenario # None /\ scenario.slug \in Slugs
  BY DEF C!LoadScenario, C_Detail
<1>2. pressure' \in {1, 3, 5}
  BY C_Pressure DEF C!LoadScenario, C_Detail
<1> DEFINE s == scenario.slug
           fromApi == ok /\ s \in DOMAIN Served
<1>3. standIn' \in BOOLEAN
  BY DEF C!LoadScenario
<1>4. \/ scenario' = None
      \/ s \in DOMAIN Served /\ scenario' = C!ItemOf(s, Served)
      \/ s \in DOMAIN Embedded /\ scenario' = C!ItemOf(s, Embedded)
  BY DEF C!LoadScenario
<1>5. scenario' = None
       \/ scenario' \in [slug : Slugs, category : C!CATEGORY_META \cup {"unknown"}]
  BY <1>1, <1>4 DEF C!ItemOf, C!CatalogAssumption
<1> QED
  BY <1>2, <1>3, <1>5 DEF C_Detail, C!LoadScenario

LEMMA C_StartType ==
  ASSUME C_Detail, C!Loaded
  PROVE  C!ThisStart \in [slug : Slugs, category : C!CATEGORY_META, pressure : {1, 3, 5}]
BY DEF C_Detail, C!Loaded, C!ThisStart

LEMMA C_StartStep ==
  ASSUME C!CatalogAssumption, C_Catalogue, C_Detail, C_Start, C_Asked,
         \/ C!SetDifficulty \/ C!HandleStartScenario
         \/ \E start \in starts, authenticated \in BOOLEAN : C!SessionAnswers(start, authenticated)
  PROVE  C_Catalogue' /\ C_Detail' /\ C_Start' /\ C_Asked' /\ UNCHANGED catalogList
<1>1. CASE C!SetDifficulty
  <2>1. pressure' \in {1, 3, 5}
    BY <1>1 DEF C!SetDifficulty, C!START_PRESSURE_OPTIONS, C!ToSet
  <2> QED
    BY <1>1, <2>1 DEF C!SetDifficulty, C!catalogue, C_Catalogue, C_Detail, C_Start, C_Asked
<1>2. CASE C!HandleStartScenario
  <2>1. /\ C!Loaded
        /\ UNCHANGED <<tab, catalogList, loading, fallback, asked, scenario, standIn, pressure>>
    BY <1>2 DEF C!HandleStartScenario, C!catalogue, C!detail
  <2>2. C!ThisStart.slug \in Slugs
    BY <2>1, C_StartType
  <2>3. asked = {}
    BY <2>1 DEF C!Loaded, C_Asked
  <2>4. CASE standIn
    BY <1>2, <2>1, <2>2, <2>3, <2>4
       DEF C!HandleStartScenario, C!ToGuest, C_Catalogue, C_Detail, C_Start, C_Asked
  <2>5. CASE ~standIn
    <3>1. starts' = starts \cup {C!ThisStart} /\ UNCHANGED <<catalogPlace, handed>>
      BY <1>2, <2>5 DEF C!HandleStartScenario
    <3> QED
      BY <2>1, <3>1, C_StartType DEF C_Catalogue, C_Detail, C_Start, C_Asked
  <2> QED
    BY <2>4, <2>5
<1>3. ASSUME NEW start \in starts, NEW authenticated \in BOOLEAN,
             C!SessionAnswers(start, authenticated)
      PROVE  C_Catalogue' /\ C_Detail' /\ C_Start' /\ C_Asked' /\ UNCHANGED catalogList
  <2>1. start.slug \in Slugs
    BY DEF C_Start
  <2>2. asked' = {} /\ starts' = starts \ {start}
        /\ UNCHANGED <<tab, catalogList, loading, fallback, scenario, standIn, pressure>>
    BY <1>3 DEF C!SessionAnswers, C!CancelFilters, C!detail
  <2>3. catalogPlace' \in {"guest", "upload"} /\ handed'.slug \in Slugs
    BY <1>3, <2>1 DEF C!SessionAnswers, C!ToGuest
  <2> QED
    BY <2>2, <2>3 DEF C_Catalogue, C_Detail, C_Start, C_Asked
<1> QED
  BY <1>1, <1>2, <1>3

LEMMA C_BackStep ==
  ASSUME C_Catalogue, C_Start, C_Asked, C!BackToCatalog
  PROVE  /\ C_Catalogue' /\ C_Detail' /\ C_Start' /\ C_Asked'
         /\ catalogPlace' # catalogPlace
<1>1. <<>> \in Seq(C!Item)
  OBVIOUS
<1> QED
  BY <1>1 DEF C!BackToCatalog, C!Tabs, C_Catalogue, C_Detail, C_Start, C_Asked

LEMMA C_Step ==
  ASSUME C!CatalogAssumption, C_Inv, [C!Next]_(C!vars)
  PROVE  C_Inv' /\ C_ListKept
<1>1. C_Catalogue /\ C_Detail /\ C_Start /\ C_Asked
  BY C_Parts
<1>2. SUFFICES C_Catalogue' /\ C_Detail' /\ C_Start' /\ C_Asked' /\ C_ListKept
  BY DEF C_Inv, C!TypeOK, C_Catalogue, C_Detail, C_Start
<1>3. UNCHANGED <<scenario, standIn, pressure>> => C_Detail'
  BY <1>1 DEF C_Detail
<1>4. UNCHANGED <<catalogPlace, starts, handed>> => C_Start'
  BY <1>1 DEF C_Start
<1>5. UNCHANGED C!catalogue /\ UNCHANGED catalogPlace => C_Catalogue' /\ C_Asked' /\ C_ListKept
  BY <1>1 DEF C!catalogue, C_Catalogue, C_Asked, C_ListKept
<1>6. CASE \/ C!LoadSucceeds \/ C!LoadFails
           \/ \E t \in C!Tabs : C!SetActiveCategory(t)
           \/ \E t \in asked, ok \in BOOLEAN : C!FilterScenarios(t, ok)
  BY <1>1, <1>3, <1>4, <1>6, C_CatalogueStep
<1>7. ASSUME NEW s \in Slugs, C!OpenScenario(s)
      PROVE  C_Catalogue' /\ C_Detail' /\ C_Start' /\ C_Asked' /\ C_ListKept
  BY <1>1, <1>7, C_OpenStep DEF C_ListKept
<1>8. ASSUME NEW ok \in BOOLEAN, C!LoadScenario(ok)
      PROVE  C_Catalogue' /\ C_Detail' /\ C_Start' /\ C_Asked' /\ C_ListKept
  BY <1>1, <1>4, <1>5, <1>8, C_LoadStep
<1>9. CASE \/ C!SetDifficulty \/ C!HandleStartScenario
           \/ \E start \in starts, authenticated \in BOOLEAN :
                C!SessionAnswers(start, authenticated)
  BY <1>1, <1>9, C_StartStep DEF C_ListKept
<1>10. CASE C!BackToCatalog
  BY <1>1, <1>10, C_BackStep DEF C_ListKept
<1>11. CASE UNCHANGED C!vars
  BY <1>3, <1>4, <1>5, <1>11 DEF C!vars, C!detail
<1> QED
  BY <1>6, <1>7, <1>8, <1>9, <1>10, <1>11 DEF C!Next

-----------------------------------------------------------------------------
(* Notifications: the list of the bell (N!Next).                           *)

\* A list that has each notification at most once, and only some of a set.
N_Once(items, notes) ==
  /\ items \in Seq(N!Item)
  /\ \A i, j \in DOMAIN items : items[i].id = items[j].id => i = j
  /\ \A i \in DOMAIN items : items[i].id \in notes

N_Server ==
  /\ stored \in Seq(Notes)
  /\ \A i, j \in DOMAIN stored : stored[i] = stored[j] => i = j
  /\ read \subseteq Notes /\ channel \subseteq N!ToSet(stored)
  /\ listening \in BOOLEAN /\ signedIn \in BOOLEAN

N_Socket ==
  /\ mounted \in 0..Mounts /\ present \in BOOLEAN
  /\ socket \in [1..Mounts -> {"off", "connecting", "open", "aborted", "lost", "refused",
                               "closed"}]

\* The list that is shown, the one that is fetched and those that may be put back.
N_Lists ==
  /\ notificationsList = None \/ N_Once(notificationsList, N!ToSet(stored))
  /\ N_Once(notificationsFetch.got, N!ToSet(stored))
  /\ \A m \in Marks : previous[m] = None \/ N_Once(previous[m], N!ToSet(stored))

N_Bell ==
  /\ stale \in BOOLEAN
  /\ notificationsFetch \in [pc : {"idle", "sent", "read"}, got : Seq(N!Item)]
  /\ mark \in [Marks -> {"idle", "sent", "applied"}]
  /\ previous \in [Marks -> {None} \cup Seq(N!Item)]

\* What was fetched as read is read.
N_Fetched ==
  \A i \in DOMAIN notificationsFetch.got :
    notificationsFetch.got[i].is_read => notificationsFetch.got[i].id \in read

N_Inv == N_Server /\ N_Socket /\ N_Lists /\ N_Bell /\ N_Fetched /\ N!ShownReadIsRead

LEMMA N_Empty == \A notes : N_Once(<<>>, notes)
<1>1. <<>> \in Seq(N!Item)
  OBVIOUS
<1> QED
  BY <1>1 DEF N_Once

LEMMA N_More ==
  ASSUME NEW items, NEW notes, NEW more, N_Once(items, notes), notes \subseteq more
  PROVE  N_Once(items, more)
BY DEF N_Once

LEMMA N_First ==
  ASSUME NEW items, NEW notes, N_Once(items, notes), NEW n \in Notes, n \in notes,
         \A i \in DOMAIN items : items[i].id # n, NEW b \in BOOLEAN
  PROVE  N_Once(<<[id |-> n, is_read |-> b]>> \o items, notes)
<1> DEFINE item == [id |-> n, is_read |-> b]
           more == <<item>> \o items
<1>1. item \in N!Item /\ item.id = n
  BY DEF N!Item
<1>2. items \in Seq(N!Item)
  BY DEF N_Once
<1> HIDE DEF item
<1>3. /\ more \in Seq(N!Item) /\ Len(more) = Len(items) + 1
      /\ more[1] = item
      /\ \A i \in DOMAIN more : i = 1 \/ (i - 1 \in DOMAIN items /\ more[i] = items[i - 1])
  BY <1>1, <1>2
<1> HIDE DEF more
<1>4. \A i \in DOMAIN more : more[i].id \in notes
  BY <1>1, <1>3 DEF N_Once
<1>5. ASSUME NEW i \in DOMAIN more, NEW j \in DOMAIN more, more[i].id = more[j].id PROVE i = j
  <2>1. i \in Nat /\ j \in Nat
    BY <1>3
  <2>2. CASE i = 1
    BY <1>1, <1>3, <1>5, <2>1, <2>2
  <2>3. CASE j = 1
    BY <1>1, <1>3, <1>5, <2>1, <2>3
  <2>4. CASE i # 1 /\ j # 1
    <3>1. items[i - 1].id = items[j - 1].id /\ i - 1 \in DOMAIN items /\ j - 1 \in DOMAIN items
      BY <1>3, <1>5, <2>4
    <3>2. i - 1 = j - 1
      BY <3>1 DEF N_Once
    <3> QED
      BY <2>1, <3>2
  <2> QED
    BY <2>2, <2>3, <2>4
<1> QED
  BY <1>3, <1>4, <1>5 DEF N_Once, more, item

LEMMA N_Init == ASSUME N!NotificationsAssumption, N!Init PROVE N_Inv
<1>1. <<>> \in Seq(N!Item) /\ <<>> \in Seq(Notes)
  OBVIOUS
<1>2. N_Server
  <2>1. stored = <<>> /\ read = {} /\ channel = {} /\ listening = TRUE /\ signedIn = TRUE
    BY DEF N!Init
  <2>2. \A i, j \in DOMAIN stored : stored[i] = stored[j] => i = j
    BY <2>1
  <2> QED
    BY <1>1, <2>1, <2>2 DEF N_Server
<1>3. N_Socket
  <2>1. mounted \in 0..Mounts
    BY DEF N!Init, N!NotificationsAssumption
  <2> QED
    BY <2>1 DEF N!Init, N_Socket
<1>4. N_Lists
  BY N_Empty DEF N!Init, N_Lists, N!Idle
<1>5. N_Bell
  BY <1>1 DEF N!Init, N_Bell, N!Idle
<1>6. N_Fetched
  BY DEF N!Init, N_Fetched, N!Idle
<1>7. N!ShownReadIsRead
  BY DEF N!Init, N!ShownReadIsRead
<1> QED
  BY <1>2, <1>3, <1>4, <1>5, <1>6, <1>7 DEF N_Inv

-----------------------------------------------------------------------------
(* Its steps.                                                              *)

\* The socket and its component concern none of the lists.
LEMMA N_SocketStep ==
  ASSUME N!NotificationsAssumption, N_Socket,
         \/ N!Mount
         \/ \E i \in 1..Mounts : \/ N!Accept(i) \/ N!Refuse(i) \/ N!Lose(i)
                                 \/ N!Reconnect(i) \/ N!Unmount(i) \/ N!CloseAborted(i)
  PROVE  N_Socket' /\ UNCHANGED <<N!server, N!browser>>
<1>1. CASE N!Mount
  <2>1. mounted + 1 \in 1..Mounts
    BY <1>1 DEF N!Mount, N_Socket, N!NotificationsAssumption
  <2> QED
    BY <1>1, <2>1 DEF N!Mount, N_Socket
<1>2. ASSUME NEW i \in 1..Mounts,
             \/ N!Accept(i) \/ N!Refuse(i) \/ N!Lose(i) \/ N!Reconnect(i) \/ N!CloseAborted(i)
      PROVE  N_Socket' /\ UNCHANGED <<N!server, N!browser>>
  BY <1>2 DEF N!Accept, N!Refuse, N!Lose, N!Reconnect, N!CloseAborted, N!SetSocket, N_Socket
<1>3. ASSUME NEW i \in 1..Mounts, N!Unmount(i)
      PROVE  N_Socket' /\ UNCHANGED <<N!server, N!browser>>
  BY <1>3 DEF N!Unmount, N!SetSocket, N_Socket
<1> QED
  BY <1>1, <1>2, <1>3

LEMMA N_SendStep ==
  ASSUME N_Server, N_Lists, NEW n \in Notes, N!SendNotification(n)
  PROVE  N_Server' /\ N_Lists'
<1>1. stored' \in Seq(Notes) /\ stored' = <<n>> \o stored /\ Len(stored') = Len(stored) + 1
  BY DEF N!SendNotification, N_Server
<1>2. /\ stored'[1] = n
      /\ \A i \in DOMAIN stored' : i = 1 \/ (i - 1 \in DOMAIN stored /\ stored'[i] = stored[i - 1])
      /\ \A i \in DOMAIN stored : i + 1 \in DOMAIN stored' /\ stored'[i + 1] = stored[i]
  BY <1>1 DEF N_Server
<1>3. \A k \in DOMAIN stored : stored[k] # n
  BY DEF N!SendNotification, N!ToSet
<1>4. N!ToSet(stored') = N!ToSet(stored) \cup {n}
  <2>1. 1 \in DOMAIN stored'
    BY <1>1 DEF N_Server
  <2> QED
    BY <1>2, <2>1 DEF N!ToSet
<1>5. ASSUME NEW i \in DOMAIN stored', NEW j \in DOMAIN stored', stored'[i] = stored'[j]
      PROVE  i = j
  <2>1. i \in Nat /\ j \in Nat
    BY <1>1
  <2>2. CASE i = 1
    BY <1>2, <1>3, <1>5, <2>1, <2>2
  <2>3. CASE j = 1
    BY <1>2, <1>3, <1>5, <2>1, <2>3
  <2>4. CASE i # 1 /\ j # 1
    <3>1. stored[i - 1] = stored[j - 1] /\ i - 1 \in DOMAIN stored /\ j - 1 \in DOMAIN stored
      BY <1>2, <1>5, <2>4
    <3>2. i - 1 = j - 1
      BY <3>1 DEF N_Server
    <3> QED
      BY <2>1, <3>2
  <2> QED
    BY <2>2, <2>3, <2>4
<1>6. channel' = channel \cup {n} /\ UNCHANGED <<read, listening, signedIn, N!browser>>
  BY DEF N!SendNotification
<1>7. N_Server'
  BY <1>1, <1>4, <1>5, <1>6 DEF N_Server
<1>8. N_Lists'
  BY <1>4, <1>6, N_More DEF N_Lists, N!browser
<1> QED
  BY <1>7, <1>8

LEMMA N_ServerStep ==
  ASSUME N_Server,
         \/ N!ListenRedisFails \/ N!SignOut
         \/ \E n \in Notes : N!DropMessage(n)
  PROVE  /\ N_Server'
         /\ UNCHANGED <<stored, read, mounted, present, socket, N!browser>>
<1>1. CASE N!ListenRedisFails
  BY <1>1 DEF N!ListenRedisFails, N_Server
<1>2. CASE N!SignOut
  BY <1>2 DEF N!SignOut, N_Server
<1>3. CASE \E n \in Notes : N!DropMessage(n)
  BY <1>3 DEF N!DropMessage, N_Server
<1> QED
  BY <1>1, <1>2, <1>3

LEMMA N_ReceiveStep ==
  ASSUME N_Server, N_Lists, N!ShownReadIsRead, NEW n \in Notes, N!ReceiveMessage(n)
  PROVE  N_Server' /\ N_Lists' /\ N!ShownReadIsRead'
<1> DEFINE item == [id |-> n, is_read |-> FALSE]
<1>1. n \in N!ToSet(stored)
  BY DEF N!ReceiveMessage, N_Server
<1>2. /\ channel' = channel \ {n}
      /\ UNCHANGED <<stored, read, listening, signedIn, stale, notificationsFetch, mark, previous>>
  BY DEF N!ReceiveMessage
<1>3. N_Server'
  BY <1>2 DEF N_Server
<1>4. PICK items : /\ N_Once(items, N!ToSet(stored)) /\ items = N!Items
                   /\ \/ notificationsList' = notificationsList /\ items = notificationsList
                      \/ /\ notificationsList' = <<item>> \o items
                         /\ \A i \in DOMAIN items : items[i].id # n
  <2>1. CASE notificationsList = None
    <3>1. <<item>> = <<item>> \o <<>>
      OBVIOUS
    <3> QED
      BY <2>1, <3>1, N_Empty DEF N!ReceiveMessage, N!Items
  <2>2. CASE notificationsList # None
    <3>1. N_Once(notificationsList, N!ToSet(stored))
      BY <2>2 DEF N_Lists
    <3>2. notificationsList' = (IF n \in N!Listed(notificationsList) THEN notificationsList
                                ELSE <<item>> \o notificationsList)
      BY <2>2 DEF N!ReceiveMessage
    <3>3. N!Items = notificationsList
      BY <2>2 DEF N!Items
    <3> HIDE DEF item
    <3> QED
      BY <3>1, <3>2, <3>3 DEF N!Listed
  <2> QED
    BY <2>1, <2>2
<1>5. N_Once(notificationsList', N!ToSet(stored))
  BY <1>1, <1>4, N_First
<1>6. N_Lists'
  BY <1>2, <1>5 DEF N_Lists
<1>7. items \in Seq(N!Item)
  BY <1>4 DEF N_Once
<1>8. \A k \in DOMAIN N!Items' : N!Items'[k].is_read =>
         \E j \in DOMAIN items : items[j] = N!Items'[k]
  <2>1. CASE notificationsList' = notificationsList /\ items = notificationsList
    <3>1. N!Items' = items
      BY <1>4, <2>1 DEF N!Items
    <3> QED
      BY <3>1
  <2>2. CASE notificationsList' = <<item>> \o items
    <3>1. item \in N!Item /\ item.is_read = FALSE
      BY DEF N!Item
    <3> HIDE DEF item
    <3>2. /\ notificationsList' \in Seq(N!Item) /\ notificationsList'[1] = item
          /\ \A i \in DOMAIN notificationsList' :
               i = 1 \/ (i - 1 \in DOMAIN items /\ notificationsList'[i] = items[i - 1])
      BY <1>7, <2>2, <3>1
    <3>3. N!Items' = notificationsList' \/ N!Items' = <<>>
      BY DEF N!Items
    <3>4. CASE N!Items' = <<>>
      BY <3>4
    <3>5. CASE N!Items' = notificationsList'
      BY <3>1, <3>2, <3>5
    <3> QED
      BY <3>3, <3>4, <3>5
  <2> QED
    BY <1>4, <2>1, <2>2
<1>9. N!ShownReadIsRead'
  BY <1>2, <1>4, <1>8 DEF N!ShownReadIsRead
<1> QED
  BY <1>3, <1>6, <1>9

-----------------------------------------------------------------------------
(* The list that is fetched and the marks.                                 *)

N_Client == N_Lists /\ N_Bell /\ N_Fetched /\ N!ShownReadIsRead

LEMMA N_Idle ==
  /\ \A notes : N_Once(N!Idle.got, notes)
  /\ N!Idle \in [pc : {"idle", "sent", "read"}, got : Seq(N!Item)]
  /\ N!Idle.got = <<>>
  /\ [N!Idle EXCEPT !.pc = "sent"] \in [pc : {"idle", "sent", "read"}, got : Seq(N!Item)]
  /\ [N!Idle EXCEPT !.pc = "sent"].got = <<>>
<1>1. <<>> \in Seq(N!Item)
  OBVIOUS
<1> QED
  BY <1>1, N_Empty DEF N!Idle

LEMMA N_FetchStep ==
  ASSUME N_Server, N_Client,
         N!FetchNotifications \/ N!GetNotifications \/ N!ReceiveNotifications \/ N!FetchFails
  PROVE  N_Client' /\ UNCHANGED <<N!server, mounted, present, socket>>
<1> USE DEF N_Client
<1>1. CASE N!FetchNotifications
  <2>1. /\ notificationsFetch' = [N!Idle EXCEPT !.pc = "sent"]
        /\ UNCHANGED <<stored, read, notificationsList, stale, mark, previous>>
    BY <1>1 DEF N!FetchNotifications, N!server
  <2>2. N_Lists' /\ N_Bell' /\ N_Fetched'
    BY <2>1, N_Idle, N_Empty DEF N_Lists, N_Bell, N_Fetched
  <2>3. N!ShownReadIsRead'
    BY <2>1 DEF N!ShownReadIsRead, N!Items
  <2> QED
    BY <1>1, <2>2, <2>3 DEF N!FetchNotifications
<1>2. CASE N!GetNotifications
  <2> DEFINE got == [k \in DOMAIN stored |-> [id |-> stored[k], is_read |-> stored[k] \in read]]
  <2>1. /\ notificationsFetch' = [pc |-> "read", got |-> got]
        /\ UNCHANGED <<stored, read, notificationsList, stale, mark, previous>>
    BY <1>2 DEF N!GetNotifications, N!server
  <2>2. got \in Seq(N!Item)
    <3>1. DOMAIN stored = 1..Len(stored) /\ Len(stored) \in Nat
          /\ \A k \in DOMAIN stored : stored[k] \in Notes
      BY DEF N_Server
    <3>2. \A k \in DOMAIN stored : [id |-> stored[k], is_read |-> stored[k] \in read] \in N!Item
      BY <3>1 DEF N!Item
    <3> QED
      BY <3>1, <3>2
  <2>3. N_Once(got, N!ToSet(stored))
    BY <2>2 DEF N_Once, N_Server, N!ToSet
  <2>4. N_Lists' /\ N_Bell'
    <3> HIDE DEF got
    <3> QED
      BY <2>1, <2>2, <2>3 DEF N_Lists, N_Bell
  <2>5. N_Fetched'
    BY <2>1 DEF N_Fetched
  <2>6. N!ShownReadIsRead'
    BY <2>1 DEF N!ShownReadIsRead, N!Items
  <2> QED
    BY <1>2, <2>4, <2>5, <2>6 DEF N!GetNotifications
<1>3. CASE N!ReceiveNotifications
  <2>1. /\ notificationsList' = notificationsFetch.got /\ stale' = FALSE
        /\ notificationsFetch' = N!Idle
        /\ UNCHANGED <<stored, read, mark, previous>>
    BY <1>3 DEF N!ReceiveNotifications, N!server
  <2>2. N_Lists' /\ N_Fetched'
    BY <2>1, N_Idle DEF N_Lists, N_Fetched
  <2>3. N_Bell'
    BY <2>1, N_Idle DEF N_Bell
  <2>4. N!Items' = notificationsFetch.got \/ N!Items' = <<>>
    BY <2>1 DEF N!Items
  <2>5. N!ShownReadIsRead'
    BY <2>1, <2>4 DEF N!ShownReadIsRead, N_Fetched
  <2> QED
    BY <1>3, <2>2, <2>3, <2>5 DEF N!ReceiveNotifications
<1>4. CASE N!FetchFails
  <2>1. /\ notificationsFetch' = N!Idle
        /\ UNCHANGED <<stored, read, notificationsList, stale, mark, previous>>
    BY <1>4 DEF N!FetchFails, N!server
  <2>2. N_Lists' /\ N_Bell' /\ N_Fetched'
    BY <2>1, N_Idle DEF N_Lists, N_Bell, N_Fetched
  <2>3. N!ShownReadIsRead'
    BY <2>1 DEF N!ShownReadIsRead, N!Items
  <2> QED
    BY <1>4, <2>2, <2>3 DEF N!FetchFails
<1> QED
  BY <1>1, <1>2, <1>3, <1>4

\* A list in which some become read.
LEMMA N_Marked ==
  ASSUME NEW items \in Seq(N!Item), NEW notes, N_Once(items, notes), NEW targets, NEW marked,
         marked = [k \in DOMAIN items |->
                     [items[k] EXCEPT !.is_read = @ \/ items[k].id \in targets]]
  PROVE  /\ N_Once(marked, notes)
         /\ DOMAIN marked = DOMAIN items
<1>1. DOMAIN items = 1..Len(items) /\ Len(items) \in Nat /\ \A k \in DOMAIN items : items[k] \in N!Item
  OBVIOUS
<1>2. ASSUME NEW k \in DOMAIN items PROVE marked[k] \in N!Item /\ marked[k].id = items[k].id
  <2>1. items[k] \in N!Item
    BY <1>1
  <2>2. (items[k].is_read \/ items[k].id \in targets) \in BOOLEAN
    OBVIOUS
  <2>3. marked[k] = [items[k] EXCEPT !.is_read = items[k].is_read \/ items[k].id \in targets]
    OBVIOUS
  <2> QED
    BY <2>1, <2>2, <2>3 DEF N!Item
<1>3. DOMAIN marked = 1..Len(items)
  BY <1>1
<1>4. marked \in [1..Len(items) -> N!Item]
  BY <1>1, <1>2, <1>3
<1>5. marked \in Seq(N!Item)
  BY <1>1, <1>4
<1> QED
  BY <1>1, <1>2, <1>3, <1>5 DEF N_Once

LEMMA N_MarkStep ==
  ASSUME N_Server, N_Client, NEW m \in Marks, N!MarkAsRead(m)
  PROVE  N_Client' /\ UNCHANGED <<N!server, mounted, present, socket>>
<1> USE DEF N_Client
<1>1. /\ mark' = [mark EXCEPT ![m] = "sent"]
      /\ previous' = [previous EXCEPT ![m] = notificationsList]
      /\ notificationsFetch' = N!Idle
      /\ notificationsList' = [k \in DOMAIN notificationsList |->
            [notificationsList[k] EXCEPT !.is_read = @ \/ notificationsList[k].id \in TargetsOf[m]]]
      /\ UNCHANGED <<stored, read, stale>>
  BY DEF N!MarkAsRead, N!server
<1>2. notificationsList # None
  BY DEF N!MarkAsRead, N!CanMark, N!Items
<1>3. N_Once(notificationsList, N!ToSet(stored))
  BY <1>2 DEF N_Lists
<1>4. notificationsList \in Seq(N!Item)
  BY <1>3 DEF N_Once
<1>5. N_Once(notificationsList', N!ToSet(stored))
  BY <1>1, <1>3, <1>4, N_Marked
<1>6. \A k \in Marks : previous'[k] = None \/ N_Once(previous'[k], N!ToSet(stored))
  BY <1>1, <1>3 DEF N_Lists, N_Bell
<1>7. N_Lists' /\ N_Fetched'
  BY <1>1, <1>5, <1>6, N_Idle DEF N_Lists, N_Fetched
<1>8. mark' \in [Marks -> {"idle", "sent", "applied"}] /\ mark'[m] = "sent"
  BY <1>1 DEF N_Bell
<1>9. N_Bell'
  BY <1>1, <1>4, <1>8, N_Idle DEF N_Bell
<1>10. N!ShownReadIsRead'
  BY <1>8 DEF N!ShownReadIsRead
<1> QED
  BY <1>7, <1>9, <1>10 DEF N!MarkAsRead

LEMMA N_SettleStep ==
  ASSUME N_Server, N_Client, NEW m \in Marks, N!MarkSucceeds(m) \/ N!MarkFails(m)
  PROVE  N_Client' /\ UNCHANGED <<N!server, mounted, present, socket>>
<1> USE DEF N_Client
<1>1. /\ mark' = [mark EXCEPT ![m] = "idle"]
      /\ previous' = [previous EXCEPT ![m] = None]
      /\ stale' = TRUE /\ notificationsFetch' = [N!Idle EXCEPT !.pc = "sent"]
      /\ UNCHANGED <<N!server, mounted, present, socket>>
  BY DEF N!MarkSucceeds, N!MarkFails, N!Settled
<1>2. notificationsList' \in {notificationsList, previous[m]}
  BY DEF N!MarkSucceeds, N!MarkFails
<1>3. stored' = stored /\ read' = read
  BY <1>1 DEF N!server
<1>4. notificationsList' = None \/ N_Once(notificationsList', N!ToSet(stored))
  BY <1>2 DEF N_Lists
<1>5. \A k \in Marks : previous'[k] = None \/ N_Once(previous'[k], N!ToSet(stored))
  BY <1>1 DEF N_Lists, N_Bell
<1>6. N_Lists' /\ N_Fetched'
  BY <1>1, <1>3, <1>4, <1>5, N_Idle DEF N_Lists, N_Fetched
<1>7. mark' \in [Marks -> {"idle", "sent", "applied"}]
  BY <1>1 DEF N_Bell
<1>8. previous' \in [Marks -> {None} \cup Seq(N!Item)]
  BY <1>1 DEF N_Bell
<1>9. N_Bell'
  BY <1>1, <1>7, <1>8, N_Idle DEF N_Bell
<1>10. N!ShownReadIsRead'
  BY <1>1 DEF N!ShownReadIsRead
<1> QED
  BY <1>1, <1>6, <1>9, <1>10

LEMMA N_ApplyStep ==
  ASSUME N_Server, N_Client, NEW m \in Marks, N!ApplyMark(m)
  PROVE  N_Server' /\ N_Client' /\ UNCHANGED <<mounted, present, socket>>
<1> USE DEF N_Client
<1>1. /\ mark[m] = "sent" /\ mark' = [mark EXCEPT ![m] = "applied"]
      /\ read' = read \cup (TargetsOf[m] \cap N!ToSet(stored))
      /\ UNCHANGED <<stored, channel, listening, signedIn, mounted, present, socket,
                     notificationsList, stale, notificationsFetch, previous>>
  BY DEF N!ApplyMark
<1>2. N!ToSet(stored) \subseteq Notes
  BY DEF N_Server, N!ToSet
<1>3. N_Server'
  BY <1>1, <1>2 DEF N_Server
<1>4. N_Lists' /\ N_Fetched'
  BY <1>1 DEF N_Lists, N_Fetched
<1>5. mark' \in [Marks -> {"idle", "sent", "applied"}] /\ mark'[m] = "applied"
  BY <1>1 DEF N_Bell
<1>6. N_Bell'
  BY <1>1, <1>5 DEF N_Bell
<1>7. N!ShownReadIsRead'
  BY <1>5 DEF N!ShownReadIsRead
<1> QED
  BY <1>1, <1>3, <1>4, <1>6, <1>7

LEMMA N_Step == ASSUME N!NotificationsAssumption, N_Inv, [N!Next]_(N!vars) PROVE N_Inv'
<1> USE DEF N_Inv, N_Client
<1>1. UNCHANGED <<mounted, present, socket>> => N_Socket'
  BY DEF N_Socket
<1>2. UNCHANGED N!server => N_Server'
  BY DEF N!server, N_Server
<1>3. UNCHANGED <<stored, read, N!browser>> => N_Lists' /\ N_Bell' /\ N_Fetched' /\ N!ShownReadIsRead'
  <2> SUFFICES ASSUME UNCHANGED <<stored, read, N!browser>>
               PROVE  N_Lists' /\ N_Bell' /\ N_Fetched' /\ N!ShownReadIsRead'
    OBVIOUS
  <2>1. UNCHANGED <<stored, read, notificationsList, stale, notificationsFetch, mark, previous>>
    BY DEF N!browser
  <2>2. N!Items' = N!Items
    BY <2>1 DEF N!Items
  <2> QED
    BY <2>1, <2>2 DEF N_Lists, N_Bell, N_Fetched, N!ShownReadIsRead
<1>4. CASE \/ N!Mount
           \/ \E i \in 1..Mounts : \/ N!Accept(i) \/ N!Refuse(i) \/ N!Lose(i)
                                   \/ N!Reconnect(i) \/ N!Unmount(i) \/ N!CloseAborted(i)
  <2>1. N_Socket' /\ UNCHANGED <<N!server, N!browser>>
    BY <1>4, N_SocketStep
  <2> QED
    BY <1>2, <1>3, <2>1 DEF N!server
<1>5. ASSUME NEW n \in Notes, N!SendNotification(n) PROVE N_Inv'
  <2>1. N_Server' /\ N_Lists'
    BY <1>5, N_SendStep
  <2>2. UNCHANGED <<read, mounted, present, socket, notificationsList, stale, notificationsFetch,
                    mark, previous>>
    BY <1>5 DEF N!SendNotification, N!browser
  <2>3. N_Bell' /\ N_Fetched' /\ N!ShownReadIsRead'
    BY <2>2 DEF N_Bell, N_Fetched, N!ShownReadIsRead, N!Items
  <2> QED
    BY <1>1, <2>1, <2>2, <2>3
<1>6. CASE N!ListenRedisFails \/ N!SignOut \/ \E n \in Notes : N!DropMessage(n)
  BY <1>1, <1>3, <1>6, N_ServerStep
<1>7. ASSUME NEW n \in Notes, N!ReceiveMessage(n) PROVE N_Inv'
  <2>1. N_Server' /\ N_Lists' /\ N!ShownReadIsRead'
    BY <1>7, N_ReceiveStep
  <2>2. UNCHANGED <<read, mounted, present, socket, stale, notificationsFetch, mark, previous>>
    BY <1>7 DEF N!ReceiveMessage
  <2>3. N_Bell' /\ N_Fetched'
    BY <2>2 DEF N_Bell, N_Fetched
  <2> QED
    BY <1>1, <2>1, <2>2, <2>3
<1>8. CASE N!FetchNotifications \/ N!GetNotifications \/ N!ReceiveNotifications \/ N!FetchFails
  BY <1>1, <1>2, <1>8, N_FetchStep
<1>9. ASSUME NEW m \in Marks, N!MarkAsRead(m) PROVE N_Inv'
  BY <1>1, <1>2, <1>9, N_MarkStep
<1>10. ASSUME NEW m \in Marks, N!ApplyMark(m) PROVE N_Inv'
  BY <1>1, <1>10, N_ApplyStep
<1>11. ASSUME NEW m \in Marks, N!MarkSucceeds(m) \/ N!MarkFails(m) PROVE N_Inv'
  BY <1>1, <1>2, <1>11, N_SettleStep
<1>12. CASE UNCHANGED N!vars
  BY <1>1, <1>2, <1>3, <1>12 DEF N!vars, N!server
<1> QED
  BY <1>4, <1>5, <1>6, <1>7, <1>8, <1>9, <1>10, <1>11, <1>12 DEF N!Next

LEMMA N_ListedOnce == ASSUME N_Inv PROVE N!ListedOnce
<1> DEFINE items == N!Items
           listed == N!Listed(items)
           id == [k \in 1..Len(items) |-> items[k].id]
<1>1. N_Once(items, N!ToSet(stored))
  BY N_Empty DEF N_Inv, N_Lists, N!Items
<1>2. /\ DOMAIN items = 1..Len(items) /\ Len(items) \in Nat
      /\ \A i, j \in DOMAIN items : items[i].id = items[j].id => i = j
      /\ \A i \in DOMAIN items : items[i].id \in N!ToSet(stored)
  BY <1>1 DEF N_Once
<1> HIDE DEF items
<1>3. id \in Bijection(1..Len(items), listed)
  BY <1>2 DEF Bijection, Injection, Surjection, IsInjective, N!Listed
<1>4. IsFiniteSet(1..Len(items)) /\ Cardinality(1..Len(items)) = Len(items)
  <2>1. \A n \in Nat : IsFiniteSet(1..n) /\ Cardinality(1..n) = n
    <3> SUFFICES ASSUME NEW n \in Nat PROVE IsFiniteSet(1..n) /\ Cardinality(1..n) = n
      OBVIOUS
    <3>1. 1 \in Int /\ n \in Int /\ (IF 1 > n THEN 0 ELSE n - 1 + 1) = n
      OBVIOUS
    <3>2. /\ IsFiniteSet(1..n)
          /\ Cardinality(1..n) = IF 1 > n THEN 0 ELSE n - 1 + 1
      BY <3>1, FS_Interval
    <3> QED
      BY <3>1, <3>2
  <2> QED
    BY <1>2, <2>1
<1>5. Cardinality(listed) = Len(items)
  <2> HIDE DEF listed, id
  <2>1. ExistsBijection(1..Len(items), listed)
    BY <1>3 DEF ExistsBijection
  <2> QED
    BY <1>4, <2>1, FS_Bijection
<1>6. N!Cardinality(listed) = Cardinality(listed)
  BY DEF N!Cardinality, Cardinality
<1>7. listed \subseteq N!ToSet(stored)
  BY <1>2 DEF N!Listed
<1> QED
  BY <1>5, <1>6, <1>7 DEF N!ListedOnce, items

LEMMA N_Types == ASSUME N_Inv PROVE N!TypeOK
<1>1. channel \subseteq Notes
  BY DEF N_Inv, N_Server, N!ToSet
<1>2. notificationsList = None \/ notificationsList \in Seq(N!Item)
  BY DEF N_Inv, N_Lists, N_Once
<1>3. N!IsInjective(stored)
  BY DEF N_Inv, N_Server, N!IsInjective
<1> QED
  BY <1>1, <1>2, <1>3 DEF N_Inv, N_Server, N_Socket, N_Bell, N!TypeOK

-----------------------------------------------------------------------------
(* Push: the dialog (S!Next).                                              *)

\* The timer runs only for a permission that is open; what is on the screen was
\* put there by it.
S_Dialog ==
  /\ timer => seen = "default"
  /\ isVisible => seen = "default" \/ subscribing = "allow"

S_Inv == S!TypeOK /\ S_Dialog

LEMMA S_Wanted ==
  ASSUME NEW route \in BOOLEAN, NEW known, NEW date \in BOOLEAN
  PROVE  S!Wanted(route, known, date) \in BOOLEAN
BY DEF S!Wanted

LEMMA S_Init == ASSUME S!PushAssumption, S!Init PROVE S_Inv
<1>1. timer \in BOOLEAN
  BY S_Wanted DEF S!Init
<1>2. task \in [Tasks -> {"queued", "loaded", "done"}]
  BY DEF S!Init
<1>3. S!TypeOK
  BY <1>1, <1>2 DEF S!Init, S!TypeOK, S!Permission
<1>4. S_Dialog
  BY DEF S!Init, S_Dialog, S!Wanted
<1> QED
  BY <1>3, <1>4 DEF S_Inv

LEMMA S_Step == ASSUME S!PushAssumption, S_Inv, [S!Next]_(S!vars) PROVE S_Inv'
<1> USE DEF S!PushAssumption, S_Inv, S!TypeOK, S_Dialog, S!dialog, S!Permission
<1>1. CASE S!Navigate
  <2>1. suppressed' \in BOOLEAN /\ timer' \in BOOLEAN
    BY <1>1, S_Wanted DEF S!Navigate
  <2>2. S!TypeOK'
    BY <1>1, <2>1 DEF S!Navigate
  <2>3. S_Dialog'
    BY <1>1 DEF S!Navigate, S!Wanted
  <2> QED
    BY <2>2, <2>3
<1>2. CASE S!TimerFires
  BY <1>2 DEF S!TimerFires
<1>3. CASE S!HandleDismiss
  BY <1>3 DEF S!HandleDismiss
<1>4. CASE S!HandleAllow
  BY <1>4 DEF S!HandleAllow
<1>5. CASE \E answer \in S!Permission : S!AnswerPermission(answer)
  BY <1>5 DEF S!AnswerPermission
<1>6. CASE \E u \in Users : S!Load(u)
  BY <1>6 DEF S!Load, S!Wanted
<1>7. CASE S!SubscribeBrowserToPush
  BY <1>7 DEF S!SubscribeBrowserToPush
<1>8. CASE S!SubscribeFails
  <2>1. endpoint' \in BOOLEAN /\ isVisible' \in BOOLEAN /\ prompted' \in BOOLEAN
    BY <1>8 DEF S!SubscribeFails
  <2> QED
    BY <1>8, <2>1 DEF S!SubscribeFails
<1>9. CASE S!SettingsChange
  <2>1. endpoint' \in BOOLEAN
    BY <1>9 DEF S!SettingsChange
  <2> QED
    BY <1>9, <2>1 DEF S!SettingsChange
<1>10. CASE S!DateGrowsOld
  BY <1>10 DEF S!DateGrowsOld
<1>11. CASE \E t \in Tasks : S!LoadSubscriptions(t) \/ S!SendWebPush(t)
  BY <1>11 DEF S!LoadSubscriptions, S!SendWebPush
<1>12. CASE UNCHANGED S!vars
  BY <1>12 DEF S!vars
<1> QED
  BY <1>1, <1>2, <1>3, <1>4, <1>5, <1>6, <1>7, <1>8, <1>11, <1>12, <1>9, <1>10 DEF S!Next

LEMMA S_Answered == ASSUME S_Inv PROVE S!AnsweredIsNotAsked
BY DEF S_Inv, S_Dialog, S!AnsweredIsNotAsked, S!DialogShown

-----------------------------------------------------------------------------
(* Checkout: reports and confirmations (Next).                             *)

State == {"none", "requested", "offered", "paid", "applied"}

\* Types, without a bound on the credits.
AnAccount == [plan : Plan, active : BOOLEAN, credits : Nat]
ARequest == [pc : {"idle", "sent", "read"}, got : AnAccount \cup {None}]

Types ==
  /\ ledger \in [Payments -> State]
  /\ reported \in [Payments -> Nat]
  /\ account \in AnAccount
  /\ fetch \in [Fetches -> ARequest]

-----------------------------------------------------------------------------
(* Reports.                                                                *)

\* The context holds a payment only after its redirect, and no longer once it
\* has been reported; a payment is redirected to once.
ReportInv ==
  \A p \in Payments :
    /\ reported[p] <= 1
    /\ context = p => reported[p] = 0
    /\ context = p \/ reported[p] # 0 => ledger[p] \notin {"none", "requested"}

\* The steps that concern neither reports nor the context.
LEMMA LedgerGoesOn ==
  ASSUME Types, ReportInv, UNCHANGED <<context, reported>>,
         \A p \in Payments :
           ledger'[p] \in {"none", "requested"} => ledger[p] \in {"none", "requested"}
  PROVE  ReportInv'
BY DEF ReportInv

LEMMA ReportedKeeps ==
  ASSUME CheckoutAssumption, Types, ReportInv, Reported, UNCHANGED ledger
  PROVE  reported' \in [Payments -> Nat] /\ ReportInv'
<1>1. \A p \in Payments : reported'[p] = reported[p] + (IF p = context THEN 1 ELSE 0)
  BY DEF Reported
<1>2. reported' \in [Payments -> Nat]
  BY DEF Reported, Types
<1>3. ReportInv'
  BY <1>1 DEF Reported, ReportInv, Types, CheckoutAssumption
<1> QED
  BY <1>2, <1>3

-----------------------------------------------------------------------------
(* Confirmations.                                                          *)

Applied == \E p \in Payments : ledger[p] = "applied"

\* An account without paid access.
Bare(s) == s.plan = "free" /\ s.credits = 0

\* Nobody can know of access that the account does not have.
EarnedInv ==
  InitialPlans = {"free"} /\ ~Applied =>
    /\ Bare(account)
    /\ status # None => Bare(status)
    /\ \A f \in Fetches : fetch[f].got # None => Bare(fetch[f].got)

IInv == Types /\ ReportInv /\ EarnedInv

LEMMA InitHolds == ASSUME CheckoutAssumption, Init PROVE IInv
<1>1. Idle \in ARequest /\ Idle.got = None
  BY DEF Idle, ARequest
<1>2. account \in AnAccount /\ account.credits = 0 /\ account.plan \in InitialPlans
  BY DEF Init, CheckoutAssumption, AnAccount
<1>3. Types
  BY <1>1, <1>2 DEF Init, Types, State
<1>4. ReportInv
  BY DEF Init, ReportInv, CheckoutAssumption
<1>5. EarnedInv
  BY <1>1, <1>2 DEF Init, EarnedInv, Bare
<1> QED
  BY <1>3, <1>4, <1>5 DEF IInv

-----------------------------------------------------------------------------
(* Steps.                                                                  *)

\* What a request carries, and the store's status, come from the account.
LEMMA FetchTypes ==
  ASSUME Types, NEW f \in Fetches, FetchStatus(f)
  PROVE  /\ fetch' \in [Fetches -> ARequest]
         /\ \A g \in Fetches : fetch'[g].got = fetch[g].got
BY DEF Types, FetchStatus, ARequest

StoreNext(f) ==
  \/ ReadStatus(f) \/ ReceiveStatus(f) \/ FetchFails(f)
  \/ RefreshBilling(f) \/ HandleCancel(f) \/ Poll(f) \/ RefreshByHand(f)

LEMMA StoreKeeps ==
  ASSUME IInv, NEW f \in Fetches, StoreNext(f)
  PROVE  IInv'
<1> USE DEF IInv
<1>1. Idle \in ARequest /\ [Idle EXCEPT !.pc = "sent"] \in ARequest
      /\ Idle.got = None /\ [Idle EXCEPT !.pc = "sent"].got = None
  BY DEF Idle, ARequest
<1>2. UNCHANGED <<ledger, context, reported>>
  BY DEF StoreNext, ReadStatus, ReceiveStatus, FetchFails, RefreshBilling, HandleCancel,
         Poll, RefreshByHand
<1>3. ReportInv' /\ (Applied' <=> Applied)
  BY <1>2, LedgerGoesOn DEF Applied
<1>4. CASE ReadStatus(f)
  <2>1. [pc |-> "read", got |-> account] \in ARequest
    BY DEF Types, ARequest
  <2> QED
    BY <1>2, <1>3, <1>4, <2>1 DEF ReadStatus, Types, EarnedInv, Bare
<1>5. CASE ReceiveStatus(f)
  <2>1. fetch' \in [Fetches -> ARequest]
    BY <1>1, <1>5 DEF ReceiveStatus, Repoll, Types
  <2>2. \A g \in Fetches : fetch'[g].got = fetch[g].got \/ fetch'[g].got = None
    BY <1>1, <1>5 DEF ReceiveStatus, Repoll, Types
  <2>3. status' = fetch[f].got /\ UNCHANGED account
    BY <1>5 DEF ReceiveStatus
  <2> QED
    BY <1>2, <1>3, <2>1, <2>2, <2>3 DEF Types, EarnedInv, Bare
<1>6. CASE FetchFails(f)
  <2>1. fetch' \in [Fetches -> ARequest]
    BY <1>1, <1>6 DEF FetchFails, Types
  <2>2. \A g \in Fetches : fetch'[g].got = fetch[g].got \/ fetch'[g].got = None
    BY <1>1, <1>6 DEF FetchFails, Types
  <2> QED
    BY <1>2, <1>3, <1>6, <2>1, <2>2 DEF FetchFails, Types, EarnedInv, Bare
<1>7. CASE RefreshBilling(f) \/ Poll(f) \/ RefreshByHand(f)
  <2>1. FetchStatus(f) /\ UNCHANGED <<status, account>>
    BY <1>7 DEF RefreshBilling, Poll, RefreshByHand
  <2> QED
    BY <1>2, <1>3, <2>1, FetchTypes DEF Types, EarnedInv, Bare
<1>8. CASE HandleCancel(f)
  <2>1. FetchStatus(f) /\ UNCHANGED status
    BY <1>8 DEF HandleCancel
  <2>2. /\ account' \in AnAccount
        /\ account'.plan = account.plan /\ account'.credits = account.credits
    BY <1>8 DEF HandleCancel, Types, AnAccount
  <2> QED
    BY <1>2, <1>3, <2>1, <2>2, FetchTypes DEF Types, EarnedInv, Bare
<1> QED
  BY <1>4, <1>5, <1>6, <1>7, <1>8 DEF StoreNext

BuyNext(p) ==
  \/ HandleUpgrade(p) \/ HandleBuy(p) \/ RedirectFromPage(p)
  \/ RedirectFromModal(p) \/ ApplyPayment(p)

LEMMA BuyKeeps ==
  ASSUME CheckoutAssumption, IInv, NEW p \in Payments, BuyNext(p)
  PROVE  IInv'
<1> USE DEF IInv
<1>1. CASE HandleUpgrade(p) \/ HandleBuy(p)
  <2>1. /\ ledger[p] = "none" /\ ledger' = [ledger EXCEPT ![p] = "requested"]
        /\ UNCHANGED <<status, fetch, context, reported, account>>
    BY <1>1 DEF HandleUpgrade, HandleBuy, Order
  <2>2. Types'
    BY <2>1 DEF Types, State
  <2>3. ReportInv'
    BY <2>1, LedgerGoesOn DEF Types
  <2>4. EarnedInv'
    BY <2>1 DEF EarnedInv, Applied, Types, Bare
  <2> QED
    BY <2>2, <2>3, <2>4
<1>2. CASE RedirectFromPage(p) \/ RedirectFromModal(p)
  <2>1. /\ ledger[p] = "requested" /\ ledger' = [ledger EXCEPT ![p] = "offered"]
        /\ context' \in {p, context}
        /\ UNCHANGED <<status, fetch, reported, account>>
    BY <1>2 DEF RedirectFromPage, RedirectFromModal, Redirect
  <2>2. Types'
    BY <2>1 DEF Types, State
  <2>3. reported[p] = 0
    BY <2>1 DEF ReportInv
  <2>4. ReportInv'
    BY <2>1, <2>3 DEF ReportInv, Types
  <2>5. EarnedInv'
    BY <2>1 DEF EarnedInv, Applied, Types, Bare
  <2> QED
    BY <2>2, <2>4, <2>5
<1>3. CASE ApplyPayment(p)
  <2>1. /\ ledger[p] = "paid" /\ ledger' = [ledger EXCEPT ![p] = "applied"]
        /\ UNCHANGED <<status, fetch, context, reported>>
    BY <1>3 DEF ApplyPayment
  <2>2. account' \in AnAccount
    <3>1. account \in AnAccount /\ account.credits + 1 \in Nat
      BY DEF Types, AnAccount
    <3>2. CASE PlanOf[p] = "per_session"
      BY <1>3, <3>1, <3>2 DEF ApplyPayment, AnAccount
    <3>3. CASE PlanOf[p] # "per_session"
      <4>1. PlanOf[p] \in Plan
        BY <3>3 DEF CheckoutAssumption, Plan
      <4> QED
        BY <1>3, <3>1, <3>3, <4>1 DEF ApplyPayment, AnAccount
    <3> QED
      BY <3>2, <3>3
  <2>3. Types'
    BY <2>1, <2>2 DEF Types, State
  <2>4. ReportInv'
    BY <2>1, LedgerGoesOn DEF Types
  <2>5. Applied'
    BY <2>1 DEF Applied, Types
  <2> QED
    BY <2>3, <2>4, <2>5 DEF EarnedInv
<1> QED
  BY <1>1, <1>2, <1>3 DEF BuyNext

PageNext ==
  \/ OpenProvider \/ ReturnFromProvider \/ ReloadSuccess \/ ReturnToBilling
  \/ TrackSuccess \/ OpenBridge \/ BridgeConverts

\* A page that is loaded knows nothing.
LEMMA LoadKeeps ==
  ASSUME IInv, UNCHANGED <<context, reported, account>>, status' = status \/ status' = None,
         fetch' \in [Fetches -> ARequest],
         \A f \in Fetches : fetch'[f].got = None,
         ledger' \in [Payments -> State],
         \A p \in Payments :
           /\ ledger'[p] \in {"none", "requested"} => ledger[p] \in {"none", "requested"}
           /\ ledger[p] = "applied" => ledger'[p] = "applied"
  PROVE  IInv'
<1>1. Types'
  BY DEF IInv, Types
<1>2. ReportInv'
  BY LedgerGoesOn DEF IInv
<1>3. EarnedInv'
  BY DEF IInv, EarnedInv, Applied, Bare
<1> QED
  BY <1>1, <1>2, <1>3 DEF IInv

LEMMA PageKeeps == ASSUME CheckoutAssumption, IInv, PageNext PROVE IInv'
<1>1. Idle \in ARequest /\ [Idle EXCEPT !.pc = "sent"] \in ARequest
      /\ Idle.got = None /\ [Idle EXCEPT !.pc = "sent"].got = None
  BY DEF Idle, ARequest
<1>2. ledger \in [Payments -> State]
  BY DEF IInv, Types
<1>3. ASSUME OpenSuccess
      PROVE  /\ fetch' \in [Fetches -> ARequest] /\ \A f \in Fetches : fetch'[f].got = None
             /\ status' = None /\ UNCHANGED <<context, reported, account>>
  BY <1>1, <1>3 DEF OpenSuccess, Load
<1>4. ASSUME Unloaded
      PROVE  fetch' \in [Fetches -> ARequest] /\ \A f \in Fetches : fetch'[f].got = None
  BY <1>1, <1>4 DEF Unloaded
<1>5. CASE OpenProvider
  BY <1>2, <1>4, <1>5, LoadKeeps DEF OpenProvider
<1>6. CASE ReturnFromProvider
  <2>1. \/ ledger' = [ledger EXCEPT ![target] = IF @ = "offered" THEN "paid" ELSE @]
        \/ ledger' = ledger
    BY <1>6 DEF ReturnFromProvider
  <2>2. /\ ledger' \in [Payments -> State]
        /\ \A p \in Payments :
             /\ ledger'[p] \in {"none", "requested"} => ledger[p] \in {"none", "requested"}
             /\ ledger[p] = "applied" => ledger'[p] = "applied"
    BY <1>2, <2>1 DEF State
  <2> QED
    BY <1>3, <1>6, <2>2, LoadKeeps DEF ReturnFromProvider
<1>7. CASE ReloadSuccess
  BY <1>2, <1>3, <1>7, LoadKeeps DEF ReloadSuccess
<1>8. CASE ReturnToBilling
  BY <1>2, <1>4, <1>8, LoadKeeps DEF ReturnToBilling, Load
<1>9. CASE TrackSuccess \/ BridgeConverts
  <2>1. Reported /\ UNCHANGED <<status, fetch, ledger, account>>
    BY <1>9 DEF TrackSuccess, BridgeConverts
  <2>2. reported' \in [Payments -> Nat] /\ ReportInv'
    BY <2>1, ReportedKeeps DEF IInv
  <2> QED
    BY <2>1, <2>2 DEF IInv, Types, EarnedInv, Applied, Bare
<1>10. CASE OpenBridge
  BY <1>10 DEF OpenBridge, IInv, Types, ReportInv, EarnedInv, Applied, Bare
<1> QED
  BY <1>5, <1>6, <1>7, <1>8, <1>9, <1>10 DEF PageNext

-----------------------------------------------------------------------------
(* The theorems.                                                           *)

LEMMA IInvStep == ASSUME CheckoutAssumption, IInv, [Next]_vars PROVE IInv'
<1>1. CASE UNCHANGED vars
  BY <1>1 DEF vars, IInv, Types, ReportInv, EarnedInv, Applied, Bare
<1>2. CASE Next
  BY <1>2, StoreKeeps, BuyKeeps, PageKeeps DEF Next, StoreNext, BuyNext, PageNext
<1> QED
  BY <1>1, <1>2

LEMMA Inductive == ASSUME CheckoutAssumption PROVE Spec => []IInv
<1>1. Init => IInv
  BY InitHolds
<1>2. IInv /\ [Next]_vars => IInv'
  BY IInvStep
<1> QED
  BY <1>1, <1>2, PTL DEF Spec

\* No payment is reported twice, however often the success page is reloaded
\* and although the bridge page reports as well (success/page.tsx:55-78,
\* from-guest/page.tsx:34-53).
THEOREM OneReport == ASSUME CheckoutAssumption PROVE Spec => []ReportedOnce
<1>1. IInv => ReportedOnce
  BY DEF IInv, ReportInv, ReportedOnce
<1> QED
  BY <1>1, Inductive, PTL

\* Without paid access before, a confirmation follows a payment, whatever order
\* the answers come in (success/page.tsx:18-25, billingStore.ts:28-36).
THEOREM Earned == ASSUME CheckoutAssumption PROVE Spec => []ConfirmationIsEarned
<1>1. IInv => ConfirmationIsEarned
  <2>1. ASSUME IInv, ShowsConfirmation, InitialPlans = {"free"}, ~Applied PROVE FALSE
    <3>1. status # None /\ (status.plan \in {"personal", "pro"} \/ status.credits > 0)
      BY <2>1 DEF ShowsConfirmation, IsConfirmed, IsPaidPlan, HasSessionCredit
    <3>2. status.plan = "free" /\ status.credits = 0
      BY <2>1, <3>1 DEF IInv, EarnedInv, Bare
    <3> QED
      BY <3>1, <3>2
  <2> QED
    BY <2>1 DEF ConfirmationIsEarned, Applied
<1> QED
  BY <1>1, Inductive, PTL

-----------------------------------------------------------------------------
(* Checkout: the page and the credits (TypeOK).                            *)

K_Flags == isLoading \in BOOLEAN /\ polling \in BOOLEAN /\ tracked \in BOOLEAN

\* The interval that still runs has polls left.
K_Polls ==
  /\ attempts \in 0..MaxAttempts
  /\ polling => attempts < MaxAttempts
  /\ visits \in 0..MaxVisits

K_Known ==
  /\ place \in {"billing", "leaving", "provider", "success", "bridge"}
  /\ target \in Payments \cup {None} /\ context \in Payments \cup {None}
  /\ status \in AnAccount \cup {None}

K_Page == K_Flags /\ K_Polls /\ K_Known

AppliedOnes == {p \in Payments : ledger[p] = "applied"}

\* There are no more credits than payments applied, and no snapshot has more
\* credits than the account: they are never taken back here.
K_Credits ==
  /\ account.credits <= Cardinality(AppliedOnes)
  /\ status # None => status.credits <= account.credits
  /\ \A f \in Fetches : fetch[f].got # None => fetch[f].got.credits <= account.credits

K_Inv == K_Page /\ K_Credits

LEMMA K_Init == ASSUME CheckoutAssumption, Init PROVE K_Inv
<1>1. account \in AnAccount /\ account.credits = 0
  BY DEF Init, CheckoutAssumption, AnAccount
<1>2. AppliedOnes = {}
  BY DEF Init, AppliedOnes
<1>3. Idle.got = None
  BY DEF Idle
<1>4. K_Page
  <2>1. K_Flags
    BY DEF Init, K_Flags
  <2>2. K_Polls
    BY DEF Init, K_Polls, CheckoutAssumption
  <2>3. K_Known
    BY DEF Init, K_Known
  <2> QED
    BY <2>1, <2>2, <2>3 DEF K_Page
<1>5. K_Credits
  BY <1>1, <1>2, <1>3, FS_EmptySet DEF Init, K_Credits
<1> QED
  BY <1>4, <1>5 DEF K_Inv

\* A snapshot that is taken, passed on or dropped.
LEMMA K_CreditsKept ==
  ASSUME Types, K_Credits, account'.credits = account.credits, AppliedOnes' = AppliedOnes,
         status' \in {None, status} \cup {fetch[f].got : f \in Fetches},
         \A g \in Fetches : fetch'[g].got \in {None, fetch[g].got, account}
  PROVE  K_Credits'
<1>1. account.credits \in Nat
  BY DEF Types, AnAccount
<1>2. status' # None => status'.credits <= account'.credits
  BY DEF K_Credits
<1>3. \A f \in Fetches : fetch'[f].got # None => fetch'[f].got.credits <= account'.credits
  BY <1>1 DEF K_Credits
<1> QED
  BY <1>2, <1>3 DEF K_Credits

\* A poll that is counted, and an interval that ends or starts anew.
LEMMA K_PollsKept ==
  ASSUME MaxAttempts \in Nat \ {0}, K_Polls, UNCHANGED visits,
         \/ attempts' = 0
         \/ attempts' = attempts /\ (polling' => polling)
         \/ /\ polling /\ attempts' = attempts + 1
            /\ polling' => attempts + 1 < MaxAttempts
  PROVE  K_Polls'
<1>1. attempts \in 0..MaxAttempts /\ visits \in 0..MaxVisits /\ (polling => attempts < MaxAttempts)
  BY DEF K_Polls
<1>2. CASE attempts' = 0
  <2>1. attempts' \in 0..MaxAttempts /\ attempts' < MaxAttempts
    BY <1>2
  <2> QED
    BY <1>1, <2>1 DEF K_Polls
<1>3. CASE attempts' = attempts /\ (polling' => polling)
  BY <1>1, <1>3, Zenon DEF K_Polls
<1>4. CASE /\ polling /\ attempts' = attempts + 1
           /\ polling' => attempts + 1 < MaxAttempts
  <2>1. attempts < MaxAttempts
    BY <1>1, <1>4, Zenon
  <2>2. attempts' \in 0..MaxAttempts
    BY <1>1, <1>4, <2>1
  <2>3. polling' => attempts' < MaxAttempts
    BY <1>4, Zenon
  <2> QED
    BY <1>1, <2>2, <2>3, Zenon DEF K_Polls
<1> QED
  BY <1>2, <1>3, <1>4

LEMMA K_StoreKeeps ==
  ASSUME CheckoutAssumption, Types, K_Inv, NEW f \in Fetches, StoreNext(f)
  PROVE  K_Inv'
<1>1. K_Page /\ K_Credits /\ MaxAttempts \in Nat \ {0}
  BY DEF K_Inv, CheckoutAssumption
<1>2. Idle.got = None /\ [Idle EXCEPT !.pc = "sent"].got = None
  BY DEF Idle
<1>3. fetch[f].got \in AnAccount \cup {None} /\ account \in AnAccount
  BY DEF Types, ARequest
<1>4. AppliedOnes' = AppliedOnes
  BY DEF StoreNext, ReadStatus, ReceiveStatus, FetchFails, RefreshBilling, HandleCancel,
         Poll, RefreshByHand, AppliedOnes
<1>5. K_Page'
  <2>1. K_Flags'
    <3>1. K_Flags
      BY <1>1 DEF K_Page
    <3>2. CASE ReceiveStatus(f)
      BY <3>1, <3>2 DEF K_Flags, ReceiveStatus, Repoll
    <3>3. CASE Poll(f)
      <4>1. (attempts + 1 < MaxAttempts) \in BOOLEAN
        OBVIOUS
      <4>2. polling' = (attempts + 1 < MaxAttempts) /\ isLoading' = TRUE /\ UNCHANGED tracked
        BY <3>3 DEF Poll, FetchStatus
      <4> QED
        BY <3>1, <4>1, <4>2, Zenon DEF K_Flags
    <3>4. CASE ~ReceiveStatus(f) /\ ~Poll(f)
      BY <3>1, <3>4 DEF K_Flags, StoreNext, ReadStatus, FetchFails, RefreshBilling,
         HandleCancel, RefreshByHand, FetchStatus
    <3> QED
      BY <3>2, <3>3, <3>4
  <2>2. K_Known'
    BY <1>1, <1>3 DEF K_Page, K_Known, StoreNext, ReadStatus, ReceiveStatus, FetchFails,
                RefreshBilling, HandleCancel, Poll, RefreshByHand
  <2>3. UNCHANGED visits
    BY DEF StoreNext, ReadStatus, ReceiveStatus, FetchFails, RefreshBilling,
           HandleCancel, Poll, RefreshByHand
  <2>4. \/ attempts' = 0
        \/ attempts' = attempts /\ (polling' => polling)
        \/ /\ polling /\ attempts' = attempts + 1
           /\ polling' => attempts + 1 < MaxAttempts
    BY DEF StoreNext, ReadStatus, ReceiveStatus, Repoll, FetchFails, RefreshBilling,
           HandleCancel, Poll, RefreshByHand
  <2>5. K_Polls'
    BY <1>1, <2>3, <2>4, K_PollsKept DEF K_Page
  <2> QED
    BY <2>1, <2>2, <2>5 DEF K_Page
<1>6. account'.credits = account.credits
  BY <1>3 DEF StoreNext, ReadStatus, ReceiveStatus, FetchFails, RefreshBilling, HandleCancel,
              Poll, RefreshByHand, AnAccount
<1>7. status' \in {None, status} \cup {fetch[g].got : g \in Fetches}
  BY DEF StoreNext, ReadStatus, ReceiveStatus, FetchFails, RefreshBilling, HandleCancel,
         Poll, RefreshByHand
<1>8. \A g \in Fetches : fetch'[g].got \in {None, fetch[g].got, account}
  <2>1. fetch \in [Fetches -> ARequest]
    BY DEF Types
  <2>2. CASE ReadStatus(f)
    BY <2>1, <2>2 DEF ReadStatus
  <2>3. CASE ReceiveStatus(f) \/ FetchFails(f)
    BY <1>2, <2>1, <2>3 DEF ReceiveStatus, Repoll, FetchFails
  <2>4. CASE FetchStatus(f)
    BY <2>4, FetchTypes
  <2> QED
    BY <2>2, <2>3, <2>4 DEF StoreNext, RefreshBilling, HandleCancel, Poll, RefreshByHand
<1> QED
  BY <1>1, <1>4, <1>5, <1>6, <1>7, <1>8, K_CreditsKept DEF K_Inv

LEMMA K_BuyKeeps ==
  ASSUME CheckoutAssumption, Types, K_Inv, NEW p \in Payments, BuyNext(p)
  PROVE  K_Inv'
<1>1. K_Page /\ K_Credits /\ ledger \in [Payments -> State] /\ account \in AnAccount
  BY DEF K_Inv, Types
<1>2. K_Page'
  BY <1>1 DEF K_Page, K_Flags, K_Polls, K_Known, BuyNext, HandleUpgrade, HandleBuy, Order, RedirectFromPage,
              RedirectFromModal, Redirect, ApplyPayment
<1>3. UNCHANGED <<status, fetch>>
  BY DEF BuyNext, HandleUpgrade, HandleBuy, Order, RedirectFromPage,
         RedirectFromModal, Redirect, ApplyPayment
<1>4. CASE ApplyPayment(p)
  <2>1. ledger[p] = "paid" /\ ledger' = [ledger EXCEPT ![p] = "applied"]
    BY <1>4 DEF ApplyPayment
  <2>2. AppliedOnes' = AppliedOnes \cup {p} /\ p \notin AppliedOnes
    BY <1>1, <2>1 DEF AppliedOnes
  <2>3. IsFiniteSet(AppliedOnes)
    BY FS_Subset DEF AppliedOnes, CheckoutAssumption
  <2>4. /\ Cardinality(AppliedOnes') = Cardinality(AppliedOnes) + 1
        /\ Cardinality(AppliedOnes) \in Nat
    BY <2>2, <2>3, FS_AddElement, FS_CardinalityType
  <2>5. account'.credits \in {account.credits, account.credits + 1} /\ account.credits \in Nat
    BY <1>1, <1>4 DEF ApplyPayment, AnAccount
  <2>6. \A s \in AnAccount : s.credits <= account.credits => s.credits <= account'.credits
    BY <2>5 DEF AnAccount
  <2>7. status # None => status'.credits <= account'.credits
    BY <1>1, <1>3, <2>6 DEF K_Page, K_Known, K_Credits
  <2>8. \A f \in Fetches : fetch[f].got # None => fetch'[f].got.credits <= account'.credits
    <3>1. \A f \in Fetches : fetch[f].got # None => fetch[f].got \in AnAccount
      BY DEF Types, ARequest
    <3> QED
      BY <1>1, <1>3, <2>6, <3>1 DEF K_Credits
  <2>9. account'.credits <= Cardinality(AppliedOnes')
    BY <1>1, <2>4, <2>5 DEF K_Credits
  <2> QED
    BY <1>2, <1>3, <2>7, <2>8, <2>9 DEF K_Inv, K_Credits
<1>5. CASE ~ApplyPayment(p)
  <2>1. \E s \in {"requested", "offered"} :
          ledger[p] # "applied" /\ ledger' = [ledger EXCEPT ![p] = s]
    BY <1>5 DEF BuyNext, HandleUpgrade, HandleBuy, Order, RedirectFromPage,
         RedirectFromModal, Redirect
  <2>2. AppliedOnes' = AppliedOnes
    BY <1>1, <2>1 DEF AppliedOnes
  <2>3. UNCHANGED account
    BY <1>5 DEF BuyNext, HandleUpgrade, HandleBuy, Order, RedirectFromPage,
         RedirectFromModal, Redirect
  <2> QED
    BY <1>1, <1>2, <1>3, <2>2, <2>3, K_CreditsKept DEF K_Inv
<1> QED
  BY <1>4, <1>5

LEMMA K_PageKeeps ==
  ASSUME CheckoutAssumption, Types, K_Inv, PageNext
  PROVE  K_Inv'
<1>1. K_Page /\ K_Credits /\ ledger \in [Payments -> State] /\ account \in AnAccount
  BY DEF K_Inv, Types
<1>2. MaxAttempts \in Nat \ {0} /\ MaxVisits \in Nat
  BY DEF CheckoutAssumption
<1>3. Idle.got = None /\ [Idle EXCEPT !.pc = "sent"].got = None
  BY DEF Idle
<1>4. K_Flags'
  BY <1>1 DEF K_Page, K_Flags, PageNext, OpenProvider, ReturnFromProvider, ReloadSuccess,
              ReturnToBilling, OpenSuccess, Unloaded, Load, TrackSuccess, OpenBridge, BridgeConverts
<1>5. K_Page'
  <2>1. K_Known'
    BY <1>1 DEF K_Page, K_Known, PageNext, OpenProvider, ReturnFromProvider, ReloadSuccess,
                ReturnToBilling, OpenSuccess, Load, TrackSuccess, OpenBridge, BridgeConverts,
                Reported
  <2>2. K_Polls'
    <3>1. CASE OpenSuccess \/ (Load("billing") /\ Unloaded)
      <4>1. attempts' = 0 /\ visits < MaxVisits /\ visits' = visits + 1
        BY <3>1 DEF OpenSuccess, Load
      <4>2. attempts' \in 0..MaxAttempts /\ attempts' < MaxAttempts /\ visits' \in 0..MaxVisits
        BY <1>1, <1>2, <4>1 DEF K_Page, K_Polls
      <4> QED
        BY <4>2 DEF K_Polls
    <3>2. CASE OpenProvider \/ TrackSuccess \/ OpenBridge \/ BridgeConverts
      <4>1. attempts' = attempts /\ visits' = visits /\ (polling' => polling)
        BY <3>2 DEF OpenProvider, Unloaded, TrackSuccess, OpenBridge, BridgeConverts
      <4> QED
        BY <1>1, <1>2, <4>1, K_PollsKept DEF K_Page
    <3> QED
      BY <3>1, <3>2 DEF PageNext, ReturnFromProvider, ReloadSuccess, ReturnToBilling
  <2> QED
    BY <1>4, <2>1, <2>2 DEF K_Page
<1>6. AppliedOnes' = AppliedOnes
  <2>1. \/ ledger' = ledger
        \/ ledger' = [ledger EXCEPT ![target] = IF @ = "offered" THEN "paid" ELSE @]
    BY DEF PageNext, OpenProvider, ReturnFromProvider, ReloadSuccess, ReturnToBilling,
           TrackSuccess, OpenBridge, BridgeConverts
  <2> QED
    BY <1>1, <2>1 DEF AppliedOnes
<1>7. account' = account /\ status' \in {None, status}
  BY DEF PageNext, OpenProvider, ReturnFromProvider, ReloadSuccess, ReturnToBilling, OpenSuccess,
         Load, TrackSuccess, OpenBridge, BridgeConverts
<1>8. \A g \in Fetches : fetch'[g].got \in {None, fetch[g].got}
  <2>1. CASE UNCHANGED fetch
    BY <2>1
  <2>2. CASE OpenSuccess \/ Unloaded
    BY <1>3, <2>2 DEF OpenSuccess, Unloaded
  <2> QED
    BY <2>1, <2>2 DEF PageNext, OpenProvider, ReturnFromProvider, ReloadSuccess, ReturnToBilling,
         TrackSuccess, OpenBridge, BridgeConverts
<1> QED
  BY <1>1, <1>5, <1>6, <1>7, <1>8, K_CreditsKept DEF K_Inv

LEMMA K_Step ==
  ASSUME CheckoutAssumption, IInv, K_Inv, [Next]_vars
  PROVE  K_Inv'
<1>1. Types
  BY DEF IInv
<1>2. CASE UNCHANGED vars
  BY <1>2 DEF vars, K_Inv, K_Page, K_Flags, K_Polls, K_Known, K_Credits, AppliedOnes
<1>3. CASE Next
  BY <1>1, <1>3, K_StoreKeeps, K_BuyKeeps, K_PageKeeps DEF Next, StoreNext, BuyNext, PageNext
<1> QED
  BY <1>2, <1>3

LEMMA K_Types == ASSUME CheckoutAssumption, IInv, K_Inv PROVE TypeOK
<1>1. Types /\ K_Page /\ K_Credits
  BY DEF IInv, K_Inv
<1>2. IsFiniteSet(Payments) /\ AppliedOnes \subseteq Payments
  BY DEF AppliedOnes, CheckoutAssumption
<1>3. /\ Cardinality(AppliedOnes) <= Cardinality(Payments)
      /\ Cardinality(AppliedOnes) \in Nat /\ Cardinality(Payments) \in Nat
  BY <1>2, FS_Subset, FS_CardinalityType
<1>4. \A s \in AnAccount : s.credits <= account.credits => s \in Account
  <2>1. account.credits \in Nat /\ account.credits <= Cardinality(AppliedOnes)
    BY <1>1 DEF Types, AnAccount, K_Credits
  <2> QED
    BY <1>3, <2>1 DEF AnAccount, Account
<1>5. account \in Account
  BY <1>1, <1>4 DEF Types, AnAccount
<1>6. status \in Account \cup {None}
  BY <1>1, <1>4 DEF K_Page, K_Known, K_Credits
<1>7. fetch \in [Fetches -> Request]
  <2>1. \A f \in Fetches : fetch[f] \in ARequest /\ fetch[f].got \in AnAccount \cup {None}
    BY <1>1 DEF Types, ARequest
  <2>2. \A f \in Fetches : fetch[f].got \in Account \cup {None}
    BY <1>1, <1>4, <2>1 DEF K_Credits
  <2>3. \A f \in Fetches : fetch[f] \in Request
    BY <2>1, <2>2 DEF ARequest, Request
  <2> QED
    BY <1>1, <2>3 DEF Types
<1>8. K_Flags /\ attempts \in 0..MaxAttempts /\ visits \in 0..MaxVisits /\ K_Known
  BY <1>1 DEF K_Page, K_Polls
<1> QED
  BY <1>1, <1>5, <1>6, <1>7, <1>8 DEF TypeOK, Types, K_Flags, K_Known, State

-----------------------------------------------------------------------------
(* Own opponents: a list as one line.                                      *)

\* What is left of a part that is trimmed.
Tidy(s) ==
  /\ s \in Seq(O!Token) /\ s # <<>> /\ s[1] # Blank /\ s[Len(s)] # Blank
  /\ \A i \in DOMAIN s : s[i] # Comma

LEMMA O_FoldIs == \A step, start, n : O!Fold(step, start, n) = Fold(step, start, n)
BY DEF O!Fold, Fold

LEMMA O_TrimIs ==
  ASSUME NEW s \in Seq(O!Token), NEW a \in DOMAIN s, NEW b \in DOMAIN s,
         s[a] # Blank, s[b] # Blank,
         \A i \in DOMAIN s : s[i] # Blank => a <= i /\ i <= b
  PROVE  O!TrimBlanks(s) = SubSeq(s, a, b)
<1> DEFINE solid == {i \in DOMAIN s : s[i] # Blank}
<1>1. DOMAIN s \subseteq Nat /\ a \in solid /\ b \in solid
  OBVIOUS
<1>2. \A i \in solid : i \in Nat /\ a <= i /\ i <= b
  BY <1>1
<1>3. O!TrimBlanks(s) = IF solid = {} THEN <<>> ELSE SubSeq(s, O!Min(solid), O!Max(solid))
  BY DEF O!TrimBlanks
<1> HIDE DEF solid
<1>4. O!Min(solid) = a
  BY <1>1, <1>2 DEF O!Min
<1>5. O!Max(solid) = b
  BY <1>1, <1>2 DEF O!Max
<1> QED
  BY <1>1, <1>3, <1>4, <1>5

LEMMA O_TrimBlank ==
  ASSUME NEW s \in Seq(O!Token), \A i \in DOMAIN s : s[i] = Blank
  PROVE  O!TrimBlanks(s) = <<>>
<1>1. {i \in DOMAIN s : s[i] # Blank} = {}
  OBVIOUS
<1> QED
  BY <1>1 DEF O!TrimBlanks

LEMMA O_TrimTidy == ASSUME NEW s, Tidy(s) PROVE O!TrimBlanks(s) = s
<1>1. /\ s \in Seq(O!Token) /\ Len(s) \in Nat \ {0} /\ DOMAIN s = 1..Len(s)
      /\ s[1] # Blank /\ s[Len(s)] # Blank
  BY DEF Tidy
<1>2. O!TrimBlanks(s) = SubSeq(s, 1, Len(s))
  <2> DEFINE b == Len(s)
  <2>1. /\ s \in Seq(O!Token) /\ 1 \in DOMAIN s /\ b \in DOMAIN s /\ s[1] # Blank /\ s[b] # Blank
        /\ \A i \in DOMAIN s : s[i] # Blank => 1 <= i /\ i <= b
    BY <1>1
  <2> HIDE DEF b
  <2>2. O!TrimBlanks(s) = SubSeq(s, 1, b)
    BY <2>1, O_TrimIs
  <2> QED
    BY <2>2 DEF b
<1>3. SubSeq(s, 1, Len(s)) = s
  BY <1>1
<1> QED
  BY <1>2, <1>3

LEMMA O_TrimSetOff ==
  ASSUME NEW s, Tidy(s), Blank \in O!Token
  PROVE  O!TrimBlanks(<<Blank>> \o s) = s
<1> DEFINE n == Len(s)
           t == <<Blank>> \o s
<1>1. /\ s \in Seq(O!Token) /\ n \in Nat \ {0} /\ DOMAIN s = 1..n
      /\ s[1] # Blank /\ s[n] # Blank
  BY DEF Tidy
<1>2. /\ t \in Seq(O!Token) /\ Len(t) = n + 1 /\ DOMAIN t = 1..(n + 1)
      /\ t[1] = Blank /\ \A i \in 1..n : t[i + 1] = s[i]
  BY <1>1
<1> HIDE DEF n, t
<1>3. t[2] # Blank /\ t[n + 1] # Blank /\ 2 \in DOMAIN t /\ n + 1 \in DOMAIN t
  <2>1. 1 \in 1..n /\ n \in 1..n /\ 1 + 1 = 2
    BY <1>1
  <2> QED
    BY <1>1, <1>2, <2>1
<1>4. \A i \in DOMAIN t : t[i] # Blank => 2 <= i /\ i <= n + 1
  BY <1>1, <1>2
<1>5. O!TrimBlanks(t) = SubSeq(t, 2, n + 1)
  BY <1>2, <1>3, <1>4, O_TrimIs
<1>6. SubSeq(t, 2, n + 1) = s
  <2>1. /\ SubSeq(t, 2, n + 1) \in Seq(O!Token)
        /\ Len(SubSeq(t, 2, n + 1)) = n
        /\ \A i \in 1..n : SubSeq(t, 2, n + 1)[i] = t[i + 1]
    BY <1>1, <1>2
  <2> QED
    BY <1>1, <1>2, <2>1 DEF n
<1> QED
  BY <1>5, <1>6 DEF t

LEMMA O_Trimmed ==
  ASSUME NEW s \in Seq(O!Token), \A i \in DOMAIN s : s[i] # Comma, O!TrimBlanks(s) # <<>>
  PROVE  Tidy(O!TrimBlanks(s))
<1> DEFINE solid == {i \in DOMAIN s : s[i] # Blank}
           n == Len(s)
<1>1. n \in Nat /\ DOMAIN s = 1..n
  OBVIOUS
<1>2. solid # {}
  BY O_TrimBlank
<1>3. PICK a \in solid : \A i \in solid : a <= i
  <2>1. solid \in SUBSET Nat
    OBVIOUS
  <2> HIDE DEF solid
  <2> QED
    BY <1>2, <2>1, LeastNumber
<1>4. PICK b \in solid : \A i \in solid : i <= b
  <2> DEFINE back == {n - i : i \in solid}
  <2>1. back \in SUBSET Nat /\ back # {}
    BY <1>1, <1>2
  <2>2. PICK k \in back : \A j \in back : k <= j
    <3> HIDE DEF back
    <3> QED
      BY <2>1, LeastNumber
  <2>3. PICK b \in solid : k = n - b
    BY <2>2
  <2>4. \A i \in solid : i <= b
    <3> SUFFICES ASSUME NEW i \in solid PROVE i <= b
      OBVIOUS
    <3>1. n - b <= n - i
      BY <2>2, <2>3
    <3> QED
      BY <1>1, <2>3, <3>1
  <2> QED
    BY <2>3, <2>4
<1>5. /\ a \in 1..n /\ b \in 1..n /\ a <= b /\ s[a] # Blank /\ s[b] # Blank
      /\ \A i \in DOMAIN s : s[i] # Blank => a <= i /\ i <= b
  BY <1>1, <1>3, <1>4
<1> DEFINE t == SubSeq(s, a, b)
<1>6. O!TrimBlanks(s) = t
  BY <1>1, <1>5, O_TrimIs
<1> HIDE DEF solid, n
<1>7. /\ t \in Seq(O!Token) /\ Len(t) = b - a + 1
      /\ \A i \in 1..(b - a + 1) : t[i] = s[a + i - 1] /\ a + i - 1 \in DOMAIN s
  BY <1>1, <1>5, SubSeqProperties DEF n
<1> HIDE DEF t
<1>8. 1 \in 1..(b - a + 1) /\ b - a + 1 \in 1..(b - a + 1) /\ a + 1 - 1 = a /\ a + (b - a + 1) - 1 = b
  BY <1>1, <1>5
<1>9. t[1] # Blank /\ t[Len(t)] # Blank
  BY <1>5, <1>7, <1>8
<1>10. t # <<>>
  BY <1>7, <1>8
<1>11. \A i \in DOMAIN t : t[i] # Comma
  BY <1>7
<1> QED
  BY <1>6, <1>7, <1>9, <1>10, <1>11 DEF Tidy

-----------------------------------------------------------------------------
(* Own opponents: reading and writing the line.                            *)

\* What is read of a line has tidy parts and no comma in the last.
Tidied(acc) ==
  /\ acc \in O!Reading
  /\ \A i \in DOMAIN acc.parts : Tidy(acc.parts[i])
  /\ \A i \in DOMAIN acc.part : acc.part[i] # Comma

LEMMA O_WithPart ==
  ASSUME NEW acc, Tidied(acc)
  PROVE  O!WithPart(acc) \in Seq(Seq(O!Token)) /\ \A i \in DOMAIN O!WithPart(acc) : Tidy(O!WithPart(acc)[i])
<1> DEFINE parts == acc.parts
           trimmed == O!TrimBlanks(acc.part)
<1>1. parts \in Seq(Seq(O!Token)) /\ acc.part \in Seq(O!Token) /\ \A i \in DOMAIN parts : Tidy(parts[i])
  BY DEF Tidied, O!Reading
<1>2. O!WithPart(acc) = IF trimmed = <<>> THEN parts ELSE Append(parts, trimmed)
  BY DEF O!WithPart
<1>3. trimmed # <<>> => Tidy(trimmed)
  BY <1>1, O_Trimmed DEF Tidied
<1> HIDE DEF parts, trimmed
<1>4. CASE trimmed = <<>>
  BY <1>1, <1>2, <1>4
<1>5. CASE trimmed # <<>>
  <2> DEFINE n == Len(parts)
             more == Append(parts, trimmed)
  <2>1. Tidy(trimmed) /\ trimmed \in Seq(O!Token)
    BY <1>3, <1>5 DEF Tidy
  <2>2. /\ n \in Nat /\ DOMAIN parts = 1..n /\ more \in Seq(Seq(O!Token)) /\ DOMAIN more = 1..(n + 1)
        /\ more[n + 1] = trimmed /\ \A i \in 1..n : more[i] = parts[i]
    BY <1>1, <2>1
  <2> HIDE DEF n, more
  <2>3. \A i \in DOMAIN more : Tidy(more[i])
    <3> SUFFICES ASSUME NEW i \in 1..(n + 1) PROVE Tidy(more[i])
      BY <2>2
    <3>1. i \in 1..n \/ i = n + 1
      BY <2>2
    <3> QED
      BY <1>1, <2>1, <2>2, <3>1
  <2> QED
    BY <1>2, <1>5, <2>2, <2>3 DEF more
<1> QED
  BY <1>4, <1>5

LEMMA O_Read ==
  ASSUME NEW acc, Tidied(acc), NEW token \in O!Token
  PROVE  Tidied(O!Read(acc, token))
<1>1. CASE token = Comma
  <2>1. O!Read(acc, token) = [parts |-> O!WithPart(acc), part |-> <<>>]
    BY <1>1 DEF O!Read
  <2>2. <<>> \in Seq(O!Token) /\ DOMAIN <<>> = {}
    OBVIOUS
  <2> QED
    BY <2>1, <2>2, O_WithPart DEF Tidied, O!Reading
<1>2. CASE token # Comma
  <2> DEFINE part == acc.part
             n == Len(part)
             more == Append(part, token)
  <2>1. O!Read(acc, token) = [parts |-> acc.parts, part |-> more]
    BY <1>2 DEF O!Read, Tidied, O!Reading
  <2>2. part \in Seq(O!Token) /\ \A i \in DOMAIN part : part[i] # Comma
    BY DEF Tidied, O!Reading
  <2> HIDE DEF part
  <2>3. /\ n \in Nat /\ DOMAIN part = 1..n /\ more \in Seq(O!Token) /\ DOMAIN more = 1..(n + 1)
        /\ more[n + 1] = token /\ \A i \in 1..n : more[i] = part[i]
    BY <2>2
  <2> HIDE DEF n, more
  <2>4. \A i \in DOMAIN more : more[i] # Comma
    <3> SUFFICES ASSUME NEW i \in 1..(n + 1) PROVE more[i] # Comma
      BY <2>3
    <3>1. i \in 1..n \/ i = n + 1
      BY <2>3
    <3> QED
      BY <1>2, <2>2, <2>3, <3>1
  <2> QED
    BY <2>1, <2>3, <2>4 DEF Tidied, O!Reading
<1> QED
  BY <1>1, <1>2

O_Steps(line) == [i \in DOMAIN line |-> [acc \in O!Reading |-> O!Read(acc, line[i])]]
O_Unread == [parts |-> <<>>, part |-> <<>>]

LEMMA O_ReadLineIs == \A line : O!ReadLine(line) = Fold(O_Steps(line), O_Unread, Len(line))
BY O_FoldIs DEF O!ReadLine, O_Steps, O_Unread

LEMMA O_UnreadTidied == Tidied(O_Unread)
<1>1. <<>> \in Seq(O!Token) /\ <<>> \in Seq(Seq(O!Token)) /\ DOMAIN <<>> = {}
  OBVIOUS
<1> QED
  BY <1>1 DEF Tidied, O_Unread, O!Reading

LEMMA O_ReadTidied ==
  ASSUME NEW line \in Seq(O!Token)
  PROVE  Tidied(O!ReadLine(line))
<1> DEFINE n == Len(line)
           step == O_Steps(line)
           good == [k \in 0..n |-> {acc \in O!Reading : Tidied(acc)}]
<1>1. n \in Nat /\ DOMAIN line = 1..n
  OBVIOUS
<1>2. O_Unread \in good[0]
  BY <1>1, O_UnreadTidied DEF Tidied
<1>3. \A k \in 1..n : \A v \in good[k - 1] : step[k][v] \in good[k]
  <2> SUFFICES ASSUME NEW k \in 1..n, NEW v \in good[k - 1] PROVE step[k][v] \in good[k]
    OBVIOUS
  <2>1. k - 1 \in 0..n /\ k \in 0..n
    BY <1>1
  <2>2. v \in O!Reading /\ Tidied(v) /\ line[k] \in O!Token
    BY <1>1, <2>1
  <2>3. step[k][v] = O!Read(v, line[k])
    BY <1>1, <2>2 DEF O_Steps
  <2>4. Tidied(O!Read(v, line[k]))
    BY <2>2, O_Read
  <2> QED
    BY <2>1, <2>3, <2>4 DEF Tidied
<1> HIDE DEF step
<1>4. Fold(step, O_Unread, n) \in good[n]
  <2> HIDE DEF good, n
  <2> QED
    BY <1>1, <1>2, <1>3, FoldKeeps
<1>5. n \in 0..n
  BY <1>1
<1> QED
  BY <1>4, <1>5, O_ReadLineIs DEF step

LEMMA O_ReadAppend ==
  ASSUME NEW line \in Seq(O!Token), NEW token \in O!Token
  PROVE  O!ReadLine(Append(line, token)) = O!Read(O!ReadLine(line), token)
<1> DEFINE more == Append(line, token)
           n == Len(line)
           less == O_Steps(line)
           last == O_Steps(more)
           V == {acc \in O!Reading : Tidied(acc)}
<1>1. /\ n \in Nat /\ Len(more) = n + 1 /\ DOMAIN more = 1..(n + 1) /\ DOMAIN line = 1..n
      /\ more[n + 1] = token /\ \A i \in 1..n : more[i] = line[i] /\ line[i] \in O!Token
  OBVIOUS
<1> HIDE DEF more
<1>2. \A k \in 1..n : \A v \in V : less[k][v] \in V /\ less[k][v] = last[k][v]
  <2> SUFFICES ASSUME NEW k \in 1..n, NEW v \in V PROVE less[k][v] \in V /\ less[k][v] = last[k][v]
    OBVIOUS
  <2>1. less[k][v] = O!Read(v, line[k]) /\ last[k][v] = O!Read(v, more[k])
    BY <1>1 DEF O_Steps
  <2>2. Tidied(O!Read(v, line[k]))
    BY <1>1, O_Read
  <2> QED
    BY <1>1, <2>1, <2>2 DEF Tidied
<1>3. O_Unread \in V
  BY O_UnreadTidied DEF Tidied
<1>4. Fold(less, O_Unread, n) \in V /\ Fold(less, O_Unread, n) = Fold(last, O_Unread, n)
  <2> HIDE DEF less, last, V, n
  <2> QED
    BY <1>1, <1>2, <1>3, FoldSame
<1>5. Fold(last, O_Unread, n + 1) = last[n + 1][Fold(last, O_Unread, n)]
  BY <1>1, FoldNext
<1>6. \A v \in V : last[n + 1][v] = O!Read(v, token)
  BY <1>1 DEF O_Steps
<1>7. O!ReadLine(line) = Fold(less, O_Unread, n) /\ O!ReadLine(more) = Fold(last, O_Unread, n + 1)
  BY <1>1, O_ReadLineIs
<1> HIDE DEF less, last, V, n
<1>8. O!ReadLine(more) = O!Read(O!ReadLine(line), token)
  BY <1>4, <1>5, <1>6, <1>7
<1> QED
  BY <1>8 DEF more

\* What has no comma goes on with the last part.
LEMMA O_ReadRun ==
  ASSUME NEW line \in Seq(O!Token), NEW run \in Seq(O!Token), \A i \in DOMAIN run : run[i] # Comma
  PROVE  O!ReadLine(line \o run) =
           [parts |-> O!ReadLine(line).parts, part |-> O!ReadLine(line).part \o run]
<1> DEFINE n == Len(run)
           acc == O!ReadLine(line)
           Reads(k) == O!ReadLine(line \o SubSeq(run, 1, k)) =
                         [parts |-> acc.parts, part |-> acc.part \o SubSeq(run, 1, k)]
           T == {k \in Nat : k <= n => Reads(k)}
<1>1. n \in Nat /\ DOMAIN run = 1..n
  OBVIOUS
<1>2. acc \in O!Reading
  BY O_ReadTidied DEF Tidied
<1>3. acc.part \in Seq(O!Token) /\ acc = [parts |-> acc.parts, part |-> acc.part]
  BY <1>2 DEF O!Reading
<1> HIDE DEF acc
<1>4. 0 \in T
  <2>1. SubSeq(run, 1, 0) = <<>>
    OBVIOUS
  <2>2. line \o <<>> = line /\ acc.part \o <<>> = acc.part
    BY <1>3
  <2>3. Reads(0)
    BY <1>3, <2>1, <2>2 DEF acc
  <2> QED
    BY <2>3
<1>5. ASSUME NEW k \in T PROVE k + 1 \in T
  <2> SUFFICES ASSUME k + 1 <= n PROVE Reads(k + 1)
    OBVIOUS
  <2> DEFINE less == SubSeq(run, 1, k)
             token == run[k + 1]
  <2>1. k \in Nat /\ k + 1 \in 1..n /\ Reads(k)
    BY <1>1
  <2>2. SubSeq(run, 1, k + 1) = Append(less, token) /\ less \in Seq(O!Token)
    BY <1>1, <2>1, SubSeqProperties
  <2>3. token \in O!Token /\ token # Comma
    BY <1>1, <2>1
  <2>4. O!ReadLine(line \o less) = [parts |-> acc.parts, part |-> acc.part \o less]
    BY <2>1
  <2> HIDE DEF less, token
  <2>5. line \o Append(less, token) = Append(line \o less, token)
    BY <2>2, <2>3
  <2>6. acc.part \o Append(less, token) = Append(acc.part \o less, token)
    BY <1>3, <2>2, <2>3
  <2>7. O!ReadLine(Append(line \o less, token)) = O!Read(O!ReadLine(line \o less), token)
    <3>1. line \o less \in Seq(O!Token)
      BY <2>2
    <3> QED
      BY <2>3, <3>1, O_ReadAppend
  <2>8. O!Read(O!ReadLine(line \o less), token) =
          [parts |-> acc.parts, part |-> Append(acc.part \o less, token)]
    <3> DEFINE r == [parts |-> acc.parts, part |-> acc.part \o less]
    <3>1. O!Read(r, token) = [r EXCEPT !.part = Append(@, token)]
      BY <2>3 DEF O!Read
    <3>2. [r EXCEPT !.part = Append(@, token)] = [parts |-> acc.parts, part |-> Append(acc.part \o less, token)]
      <4>1. r.part = acc.part \o less
        OBVIOUS
      <4>2. ASSUME NEW p PROVE [r EXCEPT !.part = p] = [parts |-> acc.parts, part |-> p]
        OBVIOUS
      <4> HIDE DEF r
      <4> QED
        BY <4>1, <4>2
    <3> QED
      BY <2>4, <3>1, <3>2
  <2> QED
    BY <2>2, <2>5, <2>6, <2>7, <2>8
<1>6. T = Nat
  <2> HIDE DEF T
  <2>1. T \in SUBSET Nat
    BY DEF T
  <2> QED
    BY <1>4, <1>5, <2>1, NumbersFrom0
<1>7. Reads(n)
  <2>1. n \in T
    BY <1>1, <1>6
  <2> HIDE DEF Reads, n
  <2>2. \A k \in T : k <= n => Reads(k)
    OBVIOUS
  <2> HIDE DEF T
  <2> QED
    BY <1>1, <2>1, <2>2
<1>8. SubSeq(run, 1, n) = run
  BY <1>1
<1> QED
  BY <1>7, <1>8 DEF acc
LEMMA O_FormatTypes ==
  ASSUME NEW phrases \in Seq(Seq(O!Token)), {Comma, Blank} \subseteq O!Token
  PROVE  O!FormatList(phrases) \in Seq(O!Token)
<1> DEFINE n == Len(phrases)
           step == [k \in DOMAIN phrases |->
                      [line \in Seq(O!Token) |->
                         IF k = 1 THEN phrases[k] ELSE line \o <<Comma, Blank>> \o phrases[k]]]
           good == [k \in 0..n |-> Seq(O!Token)]
<1>1. n \in Nat /\ DOMAIN phrases = 1..n /\ \A k \in 1..n : phrases[k] \in Seq(O!Token)
  OBVIOUS
<1>2. <<>> \in good[0]
  BY <1>1
<1>3. \A k \in 1..n : \A v \in good[k - 1] : step[k][v] \in good[k]
  <2> SUFFICES ASSUME NEW k \in 1..n, NEW v \in good[k - 1] PROVE step[k][v] \in good[k]
    OBVIOUS
  <2>1. k - 1 \in 0..n /\ k \in 0..n /\ v \in Seq(O!Token)
    BY <1>1
  <2>2. step[k][v] = IF k = 1 THEN phrases[k] ELSE v \o <<Comma, Blank>> \o phrases[k]
    BY <1>1, <2>1
  <2>3. v \o <<Comma, Blank>> \o phrases[k] \in Seq(O!Token)
    BY <1>1, <2>1
  <2> HIDE DEF step
  <2> QED
    BY <1>1, <2>1, <2>2, <2>3
<1>4. O!FormatList(phrases) = Fold(step, <<>>, n)
  BY O_FoldIs DEF O!FormatList
<1>5. n \in 0..n
  BY <1>1
<1> HIDE DEF step
<1>6. Fold(step, <<>>, n) \in good[n]
  <2> HIDE DEF good, n
  <2> QED
    BY <1>1, <1>2, <1>3, FoldKeeps
<1> QED
  BY <1>4, <1>5, <1>6

\* A tidy phrase at the end of a line.
LEMMA O_NextPhrase ==
  ASSUME O!PersonasAssumption, NEW line \in Seq(O!Token), NEW phrase, Tidy(phrase)
  PROVE  O!ParseCsv(line \o <<Comma, Blank>> \o phrase) = Append(O!ParseCsv(line), phrase)
<1>1. Comma \in O!Token /\ Blank \in O!Token /\ Comma # Blank
  BY DEF O!Token, O!PersonasAssumption
<1>2. phrase \in Seq(O!Token) /\ phrase # <<>> /\ \A i \in DOMAIN phrase : phrase[i] # Comma
  BY DEF Tidy
<1> DEFINE ended == Append(line, Comma)
           spaced == Append(ended, Blank)
<1>3. line \o <<Comma, Blank>> \o phrase = spaced \o phrase
  BY <1>1, <1>2
<1>4. ended \in Seq(O!Token) /\ spaced \in Seq(O!Token)
  BY <1>1
<1>5. O!ReadLine(ended) = [parts |-> O!ParseCsv(line), part |-> <<>>]
  BY <1>1, O_ReadAppend DEF O!Read, O!ParseCsv
<1> HIDE DEF ended
<1>6. O!ReadLine(spaced) = [parts |-> O!ParseCsv(line), part |-> <<Blank>>]
  <2> DEFINE r == [parts |-> O!ParseCsv(line), part |-> <<>>]
  <2>1. O!ReadLine(spaced) = O!Read(r, Blank)
    BY <1>1, <1>4, <1>5, O_ReadAppend
  <2>2. O!Read(r, Blank) = [r EXCEPT !.part = Append(@, Blank)]
    BY <1>1 DEF O!Read
  <2>3. [r EXCEPT !.part = Append(@, Blank)] = [parts |-> O!ParseCsv(line), part |-> <<Blank>>]
    <3>1. Append(<<>>, Blank) = <<Blank>>
      OBVIOUS
    <3> QED
      BY <3>1
  <2> QED
    BY <2>1, <2>2, <2>3
<1> HIDE DEF spaced
<1>7. O!ReadLine(spaced \o phrase) = [parts |-> O!ParseCsv(line), part |-> <<Blank>> \o phrase]
  <2>1. O!ReadLine(spaced \o phrase) =
          [parts |-> O!ReadLine(spaced).parts, part |-> O!ReadLine(spaced).part \o phrase]
    BY <1>2, <1>4, O_ReadRun
  <2> QED
    BY <1>6, <2>1
<1>8. O!TrimBlanks(<<Blank>> \o phrase) = phrase
  BY <1>1, O_TrimSetOff
<1>9. O!ParseCsv(spaced \o phrase) = Append(O!ParseCsv(line), phrase)
  <2> DEFINE r == [parts |-> O!ParseCsv(line), part |-> <<Blank>> \o phrase]
  <2>1. r.parts = O!ParseCsv(line) /\ r.part = <<Blank>> \o phrase
    OBVIOUS
  <2> HIDE DEF r
  <2>2. O!WithPart(r) = Append(O!ParseCsv(line), phrase)
    BY <1>2, <1>8, <2>1 DEF O!WithPart
  <2>3. O!ReadLine(spaced \o phrase) = r
    BY <1>7 DEF r
  <2>4. O!ParseCsv(spaced \o phrase) = O!WithPart(r)
    BY <2>3 DEF O!ParseCsv
  <2> QED
    BY <2>2, <2>4
<1> QED
  BY <1>3, <1>9

\* A tidy phrase alone.
LEMMA O_FirstPhrase ==
  ASSUME NEW phrase, Tidy(phrase)
  PROVE  O!ParseCsv(phrase) = <<phrase>>
<1>1. phrase \in Seq(O!Token) /\ phrase # <<>> /\ \A i \in DOMAIN phrase : phrase[i] # Comma
  BY DEF Tidy
<1>2. O!ReadLine(<<>>) = O_Unread
  BY O_ReadLineIs, FoldNone
<1>3. O!ReadLine(<<>> \o phrase) = [parts |-> <<>>, part |-> <<>> \o phrase]
  <2>1. <<>> \in Seq(O!Token)
    OBVIOUS
  <2>2. O!ReadLine(<<>> \o phrase) =
          [parts |-> O!ReadLine(<<>>).parts, part |-> O!ReadLine(<<>>).part \o phrase]
    BY <1>1, <2>1, O_ReadRun
  <2>3. O_Unread.parts = <<>> /\ O_Unread.part = <<>>
    BY DEF O_Unread
  <2>4. O!ReadLine(<<>>).parts = <<>> /\ O!ReadLine(<<>>).part = <<>>
    BY <1>2, <2>3
  <2> QED
    BY <2>2, <2>4
<1>4. <<>> \o phrase = phrase
  BY <1>1
<1> DEFINE r == [parts |-> <<>>, part |-> phrase]
<1>5. O!ReadLine(phrase) = r
  BY <1>3, <1>4
<1>6. r.parts = <<>> /\ r.part = phrase
  OBVIOUS
<1> HIDE DEF r
<1>7. O!WithPart(r) = Append(<<>>, phrase)
  BY <1>1, <1>6, O_TrimTidy DEF O!WithPart
<1>8. Append(<<>>, phrase) = <<phrase>>
  OBVIOUS
<1> QED
  BY <1>5, <1>7, <1>8 DEF O!ParseCsv

\* What was split and stored is joined and split into the same.
LEMMA O_RoundTrip ==
  ASSUME O!PersonasAssumption, NEW phrases \in Seq(Seq(O!Token)),
         \A i \in DOMAIN phrases : Tidy(phrases[i])
  PROVE  O!ParseCsv(O!FormatList(phrases)) = phrases
<1> DEFINE n == Len(phrases)
           step == [k \in DOMAIN phrases |->
                      [line \in Seq(O!Token) |->
                         IF k = 1 THEN phrases[k] ELSE line \o <<Comma, Blank>> \o phrases[k]]]
           good == [k \in 0..n |-> {line \in Seq(O!Token) : O!ParseCsv(line) = SubSeq(phrases, 1, k)}]
<1>1. n \in Nat /\ DOMAIN phrases = 1..n /\ \A k \in 1..n : phrases[k] \in Seq(O!Token)
  OBVIOUS
<1>2. {Comma, Blank} \subseteq O!Token
  BY DEF O!Token
<1>3. <<>> \in good[0]
  <2>1. O!ReadLine(<<>>) = O_Unread
    BY O_ReadLineIs, FoldNone
  <2>2. O!TrimBlanks(<<>>) = <<>>
    <3>1. <<>> \in Seq(O!Token) /\ DOMAIN <<>> = {}
      OBVIOUS
    <3> QED
      BY <3>1, O_TrimBlank
  <2>3. O!ParseCsv(<<>>) = <<>>
    <3>1. O_Unread.parts = <<>> /\ O_Unread.part = <<>>
      BY DEF O_Unread
    <3>2. O!WithPart(O_Unread) = <<>>
      BY <2>2, <3>1 DEF O!WithPart
    <3> QED
      BY <2>1, <3>2 DEF O!ParseCsv
  <2>4. SubSeq(phrases, 1, 0) = <<>> /\ <<>> \in Seq(O!Token) /\ 0 \in 0..n
    BY <1>1
  <2> QED
    BY <2>3, <2>4
<1>4. \A k \in 1..n : \A v \in good[k - 1] : step[k][v] \in good[k]
  <2> SUFFICES ASSUME NEW k \in 1..n, NEW v \in good[k - 1] PROVE step[k][v] \in good[k]
    OBVIOUS
  <2> DEFINE less == SubSeq(phrases, 1, k - 1)
             phrase == phrases[k]
  <2>1. k - 1 \in 0..n /\ k \in 0..n /\ k \in DOMAIN phrases
    BY <1>1
  <2>2. v \in Seq(O!Token) /\ O!ParseCsv(v) = less
    BY <2>1
  <2>3. Tidy(phrase) /\ phrase \in Seq(O!Token)
    BY <1>1, <2>1
  <2>4. step[k][v] = IF k = 1 THEN phrase ELSE v \o <<Comma, Blank>> \o phrase
    BY <2>1, <2>2
  <2>5. SubSeq(phrases, 1, k) = Append(less, phrase)
    BY <1>1, <2>1, SubSeqProperties
  <2>6. k = 1 => less = <<>>
    OBVIOUS
  <2> HIDE DEF less, phrase, step
  <2>7. CASE k = 1
    <3>1. O!ParseCsv(phrase) = <<phrase>> /\ Append(<<>>, phrase) = <<phrase>>
      BY <2>3, O_FirstPhrase
    <3> QED
      BY <2>1, <2>3, <2>4, <2>5, <2>6, <2>7, <3>1
  <2>8. CASE k # 1
    <3> DEFINE longer == v \o <<Comma, Blank>> \o phrase
    <3>1. O!ParseCsv(longer) = Append(less, phrase)
      BY <2>2, <2>3, O_NextPhrase
    <3>2. longer \in Seq(O!Token)
      BY <1>2, <2>2, <2>3
    <3> HIDE DEF longer
    <3>3. step[k][v] = longer
      BY <2>4, <2>8 DEF longer
    <3> QED
      BY <2>1, <2>5, <3>1, <3>2, <3>3
  <2> QED
    BY <2>7, <2>8
<1>5. O!FormatList(phrases) = Fold(step, <<>>, n)
  BY O_FoldIs DEF O!FormatList
<1> HIDE DEF step
<1>6. Fold(step, <<>>, n) \in good[n]
  <2> HIDE DEF good, n
  <2> QED
    BY <1>1, <1>3, <1>4, FoldKeeps
<1>7. n \in 0..n /\ SubSeq(phrases, 1, n) = phrases
  BY <1>1
<1> QED
  BY <1>5, <1>6, <1>7
-----------------------------------------------------------------------------
(* Own opponents: the steps (O!Next).                                      *)

Clean(phrases) ==
  phrases \in Seq(Seq(O!Token)) /\ \A i \in DOMAIN phrases : Tidy(phrases[i])

O_Form ==
  /\ personasList = None \/ personasList \subseteq O!Persona
  /\ showForm \in BOOLEAN /\ personasEditing \in O!Persona \cup {None}
  /\ personasForm \in O!PersonaFormData \cup {None}
  /\ deleting \in People \cup {None}
  /\ personasSent = None
       \/ personasSent \in [id : People \cup {None}, form : O!PersonaFormData,
                            state : {"asked", "written", "refused"}]
  /\ personasDeletions \subseteq People

\* What is stored was split from a line.
O_Rows ==
  /\ personasRow \in [People -> O!Row \cup {None}]
  /\ personasFlushed \in [People -> O!Row \cup {None}]
  /\ \A p \in People : personasRow[p] # None => Clean(personasRow[p].phrases)
  /\ \A p \in People : personasFlushed[p] # None => Clean(personasFlushed[p].phrases)
  /\ personasRemoving \subseteq People /\ personasBegun \subseteq People

O_Inv == O_Form /\ O_Rows

LEMMA O_Types == ASSUME O_Inv PROVE O!TypeOK
BY DEF O_Inv, O_Form, O_Rows, O!TypeOK

LEMMA O_Tokens ==
  ASSUME O!PersonasAssumption
  PROVE  {Comma, Blank} \subseteq O!Token /\ Comma # Blank /\ Lines \subseteq Seq(O!Token)
BY DEF O!PersonasAssumption, O!Token

LEMMA O_Parsed ==
  ASSUME NEW line \in Seq(O!Token)
  PROVE  Clean(O!ParseCsv(line))
BY O_ReadTidied, O_WithPart DEF O!ParseCsv, Clean

LEMMA O_Init == ASSUME O!PersonasAssumption, O!Init PROVE O_Inv
<1>1. O_Form
  BY DEF O!Init, O_Form
<1>2. O_Rows
  BY DEF O!Init, O_Rows
<1> QED
  BY <1>1, <1>2 DEF O_Inv

\* A form that appears, or stays.
LEMMA O_Opens ==
  ASSUME O!PersonasAssumption, O_Form, NEW show \in BOOLEAN, NEW p \in O!Persona \cup {None},
         O!Open(show, p)
  PROVE  /\ showForm' \in BOOLEAN /\ personasEditing' \in O!Persona \cup {None}
         /\ personasForm' \in O!PersonaFormData \cup {None}
<1>1. O!EmptyForm \in O!PersonaFormData
  <2>1. <<>> \in Seq(O!Token)
    OBVIOUS
  <2> QED
    BY <2>1 DEF O!EmptyForm, O!PersonaFormData
<1>2. p # None => O!FormOf(p) \in O!PersonaFormData
  <2> SUFFICES ASSUME p # None PROVE O!FormOf(p) \in O!PersonaFormData
    OBVIOUS
  <2>1. p.id \in People /\ p.age \in Ages \cup {None} /\ p.phrases \in Seq(Seq(O!Token))
    BY DEF O!Persona
  <2>2. O!FormatList(p.phrases) \in Seq(O!Token)
    BY <2>1, O_FormatTypes, O_Tokens
  <2> QED
    BY <2>1, <2>2 DEF O!FormOf, O!PersonaFormData
<1>3. O!Mounted(show, p) \in O!PersonaFormData \cup {None}
  BY <1>1, <1>2 DEF O!Mounted, O_Form
<1> QED
  BY <1>3 DEF O!Open

LEMMA O_FormStep ==
  ASSUME O!PersonasAssumption, O_Inv,
         \/ O!ShowCreate \/ O!EditPersona \/ O!CancelForm \/ O!TypeAge \/ O!TypeLine
         \/ O!HandleSubmit \/ O!SaveSucceeds \/ O!SaveFails
         \/ O!AskDelete \/ O!CancelDelete \/ O!HandleDeleteConfirm \/ O!UsePersona
         \/ \E p \in People : O!DeleteSucceeds(p) \/ O!DeleteFails(p)
  PROVE  O_Inv'
<1>1. O_Form
  BY DEF O_Inv
<1>2. UNCHANGED O!server => O_Rows'
  BY DEF O_Inv, O_Rows, O!server
<1>3. CASE O!ShowCreate
  <2>1. O!Open(TRUE, personasEditing)
    BY <1>3 DEF O!ShowCreate
  <2>2. personasEditing \in O!Persona \cup {None} /\ TRUE \in BOOLEAN
    BY <1>1 DEF O_Form
  <2>3. showForm' \in BOOLEAN /\ personasEditing' \in O!Persona \cup {None}
        /\ personasForm' \in O!PersonaFormData \cup {None}
    BY <1>1, <2>1, <2>2, O_Opens
  <2> QED
    BY <1>1, <1>2, <1>3, <2>3 DEF O!ShowCreate, O_Inv, O_Form
<1>4. CASE O!EditPersona
  <2>1. PICK p \in personasList : O!Open(showForm, p)
    BY <1>4 DEF O!EditPersona
  <2>2. p \in O!Persona \cup {None} /\ showForm \in BOOLEAN
    BY <1>1, <1>4 DEF O_Form, O!EditPersona
  <2>3. showForm' \in BOOLEAN /\ personasEditing' \in O!Persona \cup {None}
        /\ personasForm' \in O!PersonaFormData \cup {None}
    BY <1>1, <2>1, <2>2, O_Opens
  <2> QED
    BY <1>1, <1>2, <1>4, <2>3 DEF O!EditPersona, O_Inv, O_Form
<1>5. CASE O!CancelForm
  <2>1. O!Open(showForm, None) \/ O!Open(FALSE, None)
    BY <1>5 DEF O!CancelForm
  <2>2. None \in O!Persona \cup {None} /\ showForm \in BOOLEAN /\ FALSE \in BOOLEAN
    BY <1>1 DEF O_Form
  <2>3. showForm' \in BOOLEAN /\ personasEditing' \in O!Persona \cup {None}
        /\ personasForm' \in O!PersonaFormData \cup {None}
    BY <1>1, <2>1, <2>2, O_Opens
  <2> QED
    BY <1>1, <1>2, <1>5, <2>3 DEF O!CancelForm, O_Inv, O_Form
<1>6. CASE O!TypeAge
  <2>1. PICK age \in Ages \cup {None} : O!HandleChange([personasForm EXCEPT !.age = age])
    BY <1>6 DEF O!TypeAge
  <2>2. personasForm \in O!PersonaFormData
    BY <1>1, <1>6 DEF O_Form, O!TypeAge
  <2>3. personasForm' \in O!PersonaFormData
    BY <2>1, <2>2 DEF O!HandleChange, O!PersonaFormData
  <2> QED
    BY <1>1, <1>2, <2>1, <2>3 DEF O!HandleChange, O_Inv, O_Form
<1>7. CASE O!TypeLine
  <2>1. PICK line \in Lines : O!HandleChange([personasForm EXCEPT !.line = line])
    BY <1>7 DEF O!TypeLine
  <2>2. personasForm \in O!PersonaFormData /\ line \in Seq(O!Token)
    BY <1>1, <1>7, O_Tokens DEF O_Form, O!TypeLine
  <2>3. personasForm' \in O!PersonaFormData
    BY <2>1, <2>2 DEF O!HandleChange, O!PersonaFormData
  <2> QED
    BY <1>1, <1>2, <2>1, <2>3 DEF O!HandleChange, O_Inv, O_Form
<1>8. CASE O!HandleSubmit
  <2>1. personasForm \in O!PersonaFormData
    BY <1>1, <1>8 DEF O_Form, O!HandleSubmit
  <2>2. (IF personasEditing = None THEN None ELSE personasEditing.id) \in People \cup {None}
    BY <1>1 DEF O_Form, O!Persona
  <2> QED
    BY <1>1, <1>2, <1>8, <2>1, <2>2 DEF O!HandleSubmit, O_Inv, O_Form
<1>9. CASE O!SaveSucceeds
  <2>1. O!Open(FALSE, personasEditing) \/ O!Open(showForm, None)
    BY <1>9 DEF O!SaveSucceeds
  <2>2. /\ None \in O!Persona \cup {None} /\ personasEditing \in O!Persona \cup {None}
        /\ showForm \in BOOLEAN /\ FALSE \in BOOLEAN
    BY <1>1 DEF O_Form
  <2>3. showForm' \in BOOLEAN /\ personasEditing' \in O!Persona \cup {None}
        /\ personasForm' \in O!PersonaFormData \cup {None}
    BY <1>1, <2>1, <2>2, O_Opens
  <2> QED
    BY <1>1, <1>2, <1>9, <2>3 DEF O!SaveSucceeds, O_Inv, O_Form
<1>10. CASE O!UsePersona
  <2>1. O!Open(FALSE, None)
    BY <1>10 DEF O!UsePersona
  <2>2. None \in O!Persona \cup {None} /\ FALSE \in BOOLEAN
    OBVIOUS
  <2>3. showForm' \in BOOLEAN /\ personasEditing' \in O!Persona \cup {None}
        /\ personasForm' \in O!PersonaFormData \cup {None}
    BY <1>1, <2>1, <2>2, O_Opens
  <2> QED
    BY <1>1, <1>2, <1>10, <2>3 DEF O!UsePersona, O_Inv, O_Form
<1>11. CASE O!SaveFails \/ O!CancelDelete
  BY <1>1, <1>2, <1>11 DEF O!SaveFails, O!CancelDelete, O_Inv, O_Form
<1>12. CASE O!AskDelete
  <2>1. PICK p \in personasList : deleting' = p.id
    BY <1>12 DEF O!AskDelete
  <2>2. deleting' \in People
    BY <1>1, <1>12, <2>1 DEF O_Form, O!AskDelete, O!Persona
  <2> QED
    BY <1>1, <1>2, <1>12, <2>2 DEF O!AskDelete, O_Inv, O_Form
<1>13. CASE O!HandleDeleteConfirm
  BY <1>1, <1>2, <1>13 DEF O!HandleDeleteConfirm, O_Inv, O_Form
<1>14. CASE \E p \in People : O!DeleteSucceeds(p) \/ O!DeleteFails(p)
  BY <1>1, <1>2, <1>14 DEF O!DeleteSucceeds, O!DeleteFails, O_Inv, O_Form
<1> QED
  BY <1>3, <1>4, <1>5, <1>6, <1>7, <1>8, <1>9, <1>10, <1>11, <1>12, <1>13, <1>14

LEMMA O_RowStep ==
  ASSUME O!PersonasAssumption, O_Inv,
         \/ O!ListPersonas \/ O!CreatePersona \/ O!UpdatePersona
         \/ \E p \in People : O!DeletePersona(p) \/ O!CommitPersona(p)
  PROVE  O_Inv'
<1>1. O_Form /\ O_Rows
  BY DEF O_Inv
<1>3. CASE O!ListPersonas
  <2>1. \A p \in People : personasRow[p] # None =>
          [id |-> p, age |-> personasRow[p].age, phrases |-> personasRow[p].phrases] \in O!Persona
    BY <1>1 DEF O_Rows, O!Row, O!Persona
  <2>2. personasList' \subseteq O!Persona
    BY <1>3, <2>1 DEF O!ListPersonas
  <2> QED
    BY <1>1, <1>3, <2>2 DEF O!ListPersonas, O_Inv, O_Form, O_Rows, O!server
<1>4. ASSUME NEW f \in O!PersonaFormData
      PROVE  O!Created(f) \in O!Row /\ Clean(O!Created(f).phrases)
  <2>1. f.line \in Seq(O!Token) /\ f.age \in Ages \cup {None}
    BY DEF O!PersonaFormData
  <2>2. Clean(O!ParseCsv(f.line))
    BY <2>1, O_Parsed
  <2>3. O!Created(f).age = f.age /\ O!Created(f).phrases = O!ParseCsv(f.line)
    BY DEF O!Created
  <2> QED
    BY <2>1, <2>2, <2>3 DEF O!Created, O!Row, Clean
<1>5. ASSUME NEW r \in O!Row, NEW f \in O!PersonaFormData
      PROVE  O!Updated(r, f) \in O!Row /\ Clean(O!Updated(r, f).phrases)
  <2>1. f.line \in Seq(O!Token) /\ f.age \in Ages \cup {None}
    BY DEF O!PersonaFormData
  <2>2. Clean(O!ParseCsv(f.line))
    BY <2>1, O_Parsed
  <2> DEFINE u == [age |-> IF f.age = None THEN r.age ELSE f.age, phrases |-> O!ParseCsv(f.line)]
  <2>3. O!Updated(r, f) = u
    <3> DEFINE age == IF f.age = None THEN r.age ELSE f.age
               phrases == O!ParseCsv(f.line)
               aged == [r EXCEPT !.age = age]
    <3>1. O!Updated(r, f) = [aged EXCEPT !.phrases = phrases]
      BY DEF O!Updated
    <3> HIDE DEF age, phrases
    <3>2. aged \in [age : {age}, phrases : Seq(Seq(O!Token))]
      BY DEF O!Row
    <3> HIDE DEF aged
    <3>3. [aged EXCEPT !.phrases = phrases] = [age |-> age, phrases |-> phrases]
      BY <3>2
    <3> QED
      BY <3>1, <3>3 DEF age, phrases
  <2>4. u \in O!Row /\ u.phrases = O!ParseCsv(f.line)
    BY <2>1, <2>2 DEF O!Row, Clean
  <2> QED
    BY <2>2, <2>3, <2>4
<1>6. CASE O!CreatePersona
  <2>1. PICK p \in People \ personasBegun :
          /\ personasFlushed' = [personasFlushed EXCEPT ![p] = O!Created(personasSent.form)]
          /\ personasBegun' = personasBegun \cup {p}
    BY <1>6 DEF O!CreatePersona
  <2>2. personasSent.form \in O!PersonaFormData
    BY <1>1, <1>6 DEF O_Form, O!CreatePersona
  <2>3. O!Created(personasSent.form) \in O!Row /\ Clean(O!Created(personasSent.form).phrases)
    BY <1>4, <2>2
  <2>4. O_Rows'
    BY <1>1, <1>6, <2>1, <2>3 DEF O!CreatePersona, O_Rows
  <2>5. O_Form'
    BY <1>1, <1>6 DEF O!CreatePersona, O_Form
  <2> QED
    BY <2>4, <2>5 DEF O_Inv
<1>7. CASE O!UpdatePersona
  <2>1. personasSent.form \in O!PersonaFormData /\ personasSent.id \in People
    BY <1>1, <1>7 DEF O_Form, O!UpdatePersona
  <2>2. O_Form'
    BY <1>1, <1>7 DEF O!UpdatePersona, O_Form
  <2>3. CASE personasRow[personasSent.id] = None
    BY <1>1, <1>7, <2>2, <2>3 DEF O!UpdatePersona, O_Rows, O_Inv
  <2>4. CASE personasRow[personasSent.id] # None
    <3> DEFINE r == O!Updated(personasRow[personasSent.id], personasSent.form)
    <3>1. personasRow[personasSent.id] \in O!Row
      BY <1>1, <2>1, <2>4 DEF O_Rows
    <3>2. r \in O!Row /\ Clean(r.phrases)
      BY <1>5, <2>1, <3>1
    <3>3. personasFlushed' = [personasFlushed EXCEPT ![personasSent.id] = r]
      BY <1>7, <2>4 DEF O!UpdatePersona
    <3> HIDE DEF r
    <3>4. O_Rows'
      BY <1>1, <1>7, <2>1, <3>2, <3>3 DEF O!UpdatePersona, O_Rows
    <3> QED
      BY <2>2, <3>4 DEF O_Inv
  <2> QED
    BY <2>3, <2>4
<1>8. CASE \E p \in People : O!DeletePersona(p)
  BY <1>1, <1>8 DEF O!DeletePersona, O!view, O_Inv, O_Form, O_Rows
<1>9. CASE \E p \in People : O!CommitPersona(p)
  <2>1. PICK p \in People : O!CommitPersona(p)
    BY <1>9
  <2>2. O_Form'
    BY <1>1, <2>1 DEF O!CommitPersona, O!view, O_Form
  <2>3. O_Rows'
    BY <1>1, <2>1 DEF O!CommitPersona, O_Rows
  <2> QED
    BY <2>2, <2>3 DEF O_Inv
<1> QED
  BY <1>3, <1>6, <1>7, <1>8, <1>9

LEMMA O_Step == ASSUME O!PersonasAssumption, O_Inv, O!Next PROVE O_Inv'
BY O_FormStep, O_RowStep DEF O!Next

LEMMA O_Idle == ASSUME O_Inv, UNCHANGED personasVars PROVE O_Inv'
BY DEF O_Inv, O_Form, O_Rows, personasVars

LEMMA O_Untouched ==
  ASSUME O!PersonasAssumption, O_Inv
  PROVE  O!UntouchedIsUnchanged
<1> SUFFICES ASSUME NEW p \in People, personasRow[p] # None
             PROVE  O!Updated(personasRow[p],
                              O!FormOf([id |-> p, age |-> personasRow[p].age,
                                        phrases |-> personasRow[p].phrases])) = personasRow[p]
  BY DEF O!UntouchedIsUnchanged
<1> DEFINE r == personasRow[p]
           f == O!FormOf([id |-> p, age |-> r.age, phrases |-> r.phrases])
<1>1. r \in O!Row /\ Clean(r.phrases)
  BY DEF O_Inv, O_Rows
<1>2. O!ParseCsv(O!FormatList(r.phrases)) = r.phrases
  BY <1>1, O_RoundTrip DEF Clean
<1>3. f.age = r.age /\ f.line = O!FormatList(r.phrases)
  BY DEF O!FormOf
<1> HIDE DEF r, f
<1>4. O!Updated(r, f) = r
  BY <1>1, <1>2, <1>3 DEF O!Updated, O!Row
<1> QED
  BY <1>4 DEF r, f

-----------------------------------------------------------------------------
(* The pages together: the one that is looked at keeps its invariant.      *)

CabinetInv ==
  /\ focus \in {"checkout", "meetings", "personas", "catalog", "notifications", "push"}
  /\ focus = "checkout" => IInv /\ K_Inv
  /\ focus = "meetings" => M_Inv
  /\ focus = "personas" => O_Inv
  /\ focus = "catalog" => C_Inv
  /\ focus = "notifications" => N_Inv
  /\ focus = "push" => S_Inv

LEMMA CabinetInitHolds == ASSUME CabinetInit PROVE CabinetInv
BY Assumptions, InitHolds, K_Init, M_Init, O_Init, C_Init, N_Init, S_Init DEF CabinetInit, CabinetInv

LEMMA CabinetStep == ASSUME CabinetInv, [CabinetNext]_cabinetVars PROVE CabinetInv'
<1> USE Assumptions DEF CabinetInv
<1>1. CASE focus = "checkout" /\ Next /\ focus' = focus
  BY <1>1, IInvStep, K_Step
<1>2. CASE focus = "meetings" /\ M!Next /\ focus' = focus
  BY <1>2, M_Step
<1>3. CASE focus = "personas" /\ O!Next /\ focus' = focus
  BY <1>3, O_Step
<1>4. CASE focus = "catalog" /\ C!Next /\ focus' = focus
  BY <1>4, C_Step
<1>5. CASE focus = "notifications" /\ N!Next /\ focus' = focus
  BY <1>5, N_Step
<1>6. CASE focus = "push" /\ S!Next /\ focus' = focus
  BY <1>6, S_Step
<1>7. CASE UNCHANGED cabinetVars
  <2>1. /\ UNCHANGED vars /\ UNCHANGED M!vars /\ UNCHANGED C!vars /\ UNCHANGED N!vars
        /\ UNCHANGED S!vars /\ UNCHANGED personasVars /\ focus' = focus
    BY <1>7 DEF cabinetVars, meetingsVars, catalogVars, notificationsVars, pushVars,
       M!vars, M!view, M!server, C!vars, C!catalogue, C!detail, N!vars, N!server, N!browser,
       S!vars, S!dialog
  <2> QED
    BY <2>1, IInvStep, K_Step, M_Step, O_Idle, C_Step, N_Step, S_Step
<1> QED
  BY <1>1, <1>2, <1>3, <1>4, <1>5, <1>6, <1>7 DEF CabinetNext

LEMMA CabinetInductive == CabinetSpec => []CabinetInv
<1>1. CabinetInit => CabinetInv
  BY CabinetInitHolds
<1>2. CabinetInv /\ [CabinetNext]_cabinetVars => CabinetInv'
  BY CabinetStep
<1> QED
  BY <1>1, <1>2, PTL DEF CabinetSpec

\* Every variable keeps its type; in particular no account and no snapshot of
\* one ever has more credits than there are payments, and the interval of the
\* success page ends after its last poll (Checkout, Meetings, Personas, Catalog,
\* Notifications, Push).
THEOREM CabinetTypes == CabinetSpec => []TypesOK
<1>1. CabinetInv => TypesOK
  <2> SUFFICES ASSUME CabinetInv PROVE TypesOK
    OBVIOUS
  <2>1. focus = "checkout" => TypeOK
    BY Assumptions, K_Types DEF CabinetInv
  <2>2. focus = "meetings" => M!TypeOK
    BY DEF CabinetInv, M_Inv
  <2>3. focus = "personas" => O!TypeOK
    BY O_Types DEF CabinetInv
  <2>4. focus = "catalog" => C!TypeOK
    BY DEF CabinetInv, C_Inv
  <2>5. focus = "notifications" => N!TypeOK
    BY N_Types DEF CabinetInv
  <2>6. focus = "push" => S!TypeOK
    BY DEF CabinetInv, S_Inv
  <2> QED
    BY <2>1, <2>2, <2>3, <2>4, <2>5, <2>6 DEF TypesOK
<1> QED
  BY <1>1, CabinetInductive, PTL

\* The text of one meeting is never saved into another, nor that of an old one
\* into a new one, however many meetings there are (meetings/page.tsx:131, 516).
THEOREM OwnForm == CabinetSpec => []SavedIntoItsOwn
<1>1. CabinetInv => SavedIntoItsOwn
  BY M_OwnForm DEF CabinetInv, SavedIntoItsOwn
<1> QED
  BY <1>1, CabinetInductive, PTL

\* A form that is saved as it was filled leaves the opponent's phrases as they
\* were: what a form makes of the stored phrases, the next save reads back, for
\* any phrases of any length (personas/page.tsx:62-71,
\* 453-454, 478-479, 570-571).
THEOREM SavedUntouched == CabinetSpec => []UntouchedIsUnchanged
<1>1. CabinetInv => UntouchedIsUnchanged
  BY Assumptions, O_Untouched DEF CabinetInv, UntouchedIsUnchanged
<1> QED
  BY <1>1, CabinetInductive, PTL

\* The list of the bell never has a notification twice, and none that is not
\* stored (useWebSocket.ts:43-49, NotificationsPopover.tsx:69-112).
THEOREM BellOnce == CabinetSpec => []ListedOnce
<1>1. CabinetInv => ListedOnce
  BY N_ListedOnce DEF CabinetInv, ListedOnce
<1> QED
  BY <1>1, CabinetInductive, PTL

\* What the bell shows as read is read, unless a mark is on its way or the list
\* is to be fetched again, however marks overlap and fail
\* (NotificationsPopover.tsx:69-112).
THEOREM ReadIsRead == CabinetSpec => []ShownReadIsRead
<1>1. CabinetInv => ShownReadIsRead
  BY DEF CabinetInv, ShownReadIsRead, N_Inv
<1> QED
  BY <1>1, CabinetInductive, PTL

\* Whoever has answered the browser's question is not offered it again
\* (PushPromoDialog.tsx:28-44).
THEOREM AskedOnce == CabinetSpec => []AnsweredIsNotAsked
<1>1. CabinetInv => AnsweredIsNotAsked
  BY S_Answered DEF CabinetInv, AnsweredIsNotAsked
<1> QED
  BY <1>1, CabinetInductive, PTL

\* A list of scenarios that replaces another is that of the chosen tab, whatever
\* the catalogues hold (scenarios/page.tsx:287).
THEOREM ListOfTab == CabinetSpec => ListIsOfItsTab
<1> DEFINE Kept == catalogList' # catalogList /\ ~loading /\ catalogPlace' = catalogPlace
                     => \A item \in C!ToSet(catalogList') : C!InTab(item, tab')
<1>1. CabinetInv /\ [CabinetNext]_cabinetVars => [Kept]_(C!vars)
  <2> SUFFICES ASSUME CabinetInv, [CabinetNext]_cabinetVars PROVE Kept \/ UNCHANGED C!vars
    OBVIOUS
  <2>1. CASE focus = "catalog" /\ C!Next
    BY <2>1, Assumptions, C_Step DEF CabinetInv, C_ListKept
  <2>2. CASE UNCHANGED catalogVars
    BY <2>2 DEF catalogVars, C!vars, C!catalogue, C!detail
  <2> QED
    BY <2>1, <2>2 DEF CabinetNext, cabinetVars
<1> QED
  BY <1>1, CabinetInductive, PTL DEF CabinetSpec, ListIsOfItsTab, C!ListIsOfItsTab
============================================================================
