------------------------------ MODULE Meetings ------------------------------
(* The meetings page: its cards, the form that creates or edits a meeting,  *)
(* the deletion, and the router behind it.  A rehearsal started for a       *)
(* meeting marks it as prepared (Practice).                                 *)
EXTENDS Naturals, Sequences, FiniteSets, SequencesExt

CONSTANTS
  Meets,         \* meetings, one for each row that may be made
  Titles,
  MaxDate,       \* bounds the dates
  Offset,        \* how far the clock of the browser is ahead of the server's
  None

Dates == 0..MaxDate

MeetingsAssumption ==
  /\ IsFiniteSet(Meets) /\ MaxDate \in Nat /\ Offset \in Nat
  /\ None \notin Meets \cup Titles \cup Dates

VARIABLES
  \* the browser
  list,          \* the meetings as fetched, or None
  modalOpen, editing, form,
  sent,          \* the form that is being saved, or None
  deletions,     \* meetings whose deletion the page waits for
  \* the server
  row,           \* the committed row of each meeting
  flushed,       \* what is written to it and not committed
  removing,      \* meetings whose deletion is not committed
  begun          \* meetings that have been written

view == <<list, modalOpen, editing, form, sent, deletions>>
server == <<row, flushed, removing, begun>>
vars == <<view, server>>

MeetingStatus == {"upcoming", "prepared", "completed", "cancelled"}
Row == [title : Titles, date : Dates, status : MeetingStatus, active : BOOLEAN]
Meeting == [id : Meets, title : Titles, date : Dates, status : MeetingStatus, active : BOOLEAN]

\* What is typed; of: the meeting whose record the form was filled from.
MeetingFormData == [title : Titles \cup {None}, date : Dates \cup {None}, of : Meets \cup {None}]

TypeOK ==
  /\ list = None \/ list \in Seq(Meeting)
  /\ modalOpen \in BOOLEAN /\ editing \in Meeting \cup {None}
  /\ form \in MeetingFormData
  /\ sent = None \/ sent \in [id : Meets \cup {None}, form : MeetingFormData,
                              state : {"asked", "written", "refused"}]
  /\ deletions \subseteq Meets
  /\ row \in [Meets -> Row \cup {None}]
  /\ flushed \in [Meets -> Row \cup {None}]
  /\ removing \subseteq Meets /\ begun \subseteq Meets

EmptyForm == [title |-> None, date |-> None, of |-> None]

Init ==
  /\ list = None /\ modalOpen = FALSE /\ editing = None /\ form = EmptyForm
  /\ sent = None /\ deletions = {}
  /\ row = [m \in Meets |-> None] /\ flushed = [m \in Meets |-> None]
  /\ removing = {} /\ begun = {}

-----------------------------------------------------------------------------
(* The page.                                                               *)

\* One card for each, with its buttons; the order they are shown in is left out.
Cards == IF list = None THEN {} ELSE ToSet(list)

StartOffered(meeting) == meeting.status \in {"upcoming", "prepared"}

UpcomingCount == Cardinality({meeting \in Cards : StartOffered(meeting)})

\* Back into local time, without a zone.
FormatDatetimeLocal(date) == date + Offset

\* What the page gives the form: built anew whenever it renders.
InitialOf(meeting) ==
  IF meeting = None THEN EmptyForm
  ELSE [title |-> meeting.title, date |-> FormatDatetimeLocal(meeting.date), of |-> meeting.id]

\* Variant: a form without a record is not emptied when it opens.
RenderedFromRecord(opens, meeting, old) ==
  IF meeting # None THEN InitialOf(meeting) ELSE old

\* The form while the page renders: taken again from a record that is edited,
\* as that record's copy is new; a form without a record keeps what is typed.
Rendered(opens, meeting, old) ==
  IF opens \/ meeting # None THEN InitialOf(meeting) ELSE old

PageRenders == form' = IF modalOpen THEN Rendered(FALSE, editing, form) ELSE form

OpenCreate ==
  /\ ~modalOpen
  /\ modalOpen' = TRUE /\ editing' = None
  /\ form' = Rendered(TRUE, None, form)
  /\ UNCHANGED <<list, sent, deletions, server>>

OpenEdit ==
  /\ ~modalOpen
  /\ \E meeting \in Cards :
       /\ FormatDatetimeLocal(meeting.date) \in Dates
       /\ modalOpen' = TRUE /\ editing' = meeting
       /\ form' = Rendered(TRUE, meeting, form)
  /\ UNCHANGED <<list, sent, deletions, server>>

CloseModal ==
  /\ modalOpen
  /\ modalOpen' = FALSE /\ editing' = None
  /\ UNCHANGED <<list, form, sent, deletions, server>>

HandleChange(typed) ==
  /\ modalOpen /\ form' = typed
  /\ typed.title # form.title \/ typed.date # form.date
  /\ UNCHANGED <<list, modalOpen, editing, sent, deletions, server>>

TypeTitle == \E title \in Titles : HandleChange([form EXCEPT !.title = title])
TypeDate == \E date \in Dates : HandleChange([form EXCEPT !.date = date])

\* One form is saved at a time, and none without a title or a date.
CanSubmit == sent = None /\ form.title # None /\ form.date # None

\* The page renders when the wait begins.
HandleSubmit ==
  /\ modalOpen /\ CanSubmit
  /\ sent' = [id |-> IF editing = None THEN None ELSE editing.id, form |-> form, state |-> "asked"]
  /\ PageRenders
  /\ UNCHANGED <<list, modalOpen, editing, deletions, server>>

\* Whatever form is open by now is closed.
SaveSucceeds ==
  /\ sent # None /\ sent.state = "written"
  /\ sent' = None
  /\ modalOpen' = FALSE /\ editing' = None
  /\ UNCHANGED <<list, form, deletions, server>>

\* An error status, or an answer that is lost after the row was written.
SaveFails ==
  /\ sent # None
  /\ sent' = None
  /\ PageRenders
  /\ UNCHANGED <<list, modalOpen, editing, deletions, server>>

\* Any card, also while its deletion runs.
HandleDelete ==
  /\ ~modalOpen
  /\ \E meeting \in Cards : deletions' = deletions \cup {meeting.id}
  /\ UNCHANGED <<list, modalOpen, editing, form, sent, server>>

DeleteSettles(m) ==
  /\ m \in deletions
  /\ deletions' = deletions \ {m}
  /\ PageRenders
  /\ UNCHANGED <<list, modalOpen, editing, sent, server>>

\* A card's button goes to the rehearsal of a meeting to come and leaves the
\* page (Practice); what it still asks for is taken as answered before.
HandleStartSimulation ==
  /\ ~modalOpen
  /\ sent # None => sent.state # "asked"
  /\ \E meeting \in Cards : StartOffered(meeting)
  /\ form' = EmptyForm /\ sent' = None /\ deletions' = {}
  /\ UNCHANGED <<list, modalOpen, editing, server>>

-----------------------------------------------------------------------------
(* The router; a row is committed when the answer has been sent.           *)

\* No transaction writes the row.
Unlocked(m) == flushed[m] = None /\ m \notin removing

\* GET /meetings, by date: on load, after a change, on return to the window.
ListMeetings ==
  LET shown == {m \in Meets : row[m] # None}
      Item(m) == [id |-> m, title |-> row[m].title, date |-> row[m].date,
                  status |-> row[m].status, active |-> row[m].active]
  IN /\ list' \in {s \in SetToSeqs({Item(m) : m \in shown}) :
                     \A i, j \in DOMAIN s : i < j => s[i].date <= s[j].date}
     /\ IF list' = list THEN UNCHANGED form ELSE PageRenders
     /\ UNCHANGED <<modalOpen, editing, sent, deletions, server>>

\* POST /meetings.  The date has no zone and is taken for the server's time.
CreateMeeting ==
  /\ sent # None /\ sent.state = "asked" /\ sent.id = None
  /\ \E m \in Meets \ begun :
       /\ flushed' = [flushed EXCEPT ![m] = [title |-> sent.form.title, date |-> sent.form.date,
                                             status |-> "upcoming", active |-> FALSE]]
       /\ begun' = begun \cup {m}
  /\ sent' = [sent EXCEPT !.state = "written"]
  /\ UNCHANGED <<list, modalOpen, editing, form, deletions, row, removing>>

\* PATCH /meetings/{id}: waits for another write of the row.
UpdateMeeting ==
  /\ sent # None /\ sent.state = "asked" /\ sent.id # None
  /\ Unlocked(sent.id)
  /\ IF row[sent.id] = None
       THEN sent' = [sent EXCEPT !.state = "refused"] /\ UNCHANGED flushed
       ELSE /\ sent' = [sent EXCEPT !.state = "written"]
            /\ flushed' = [flushed EXCEPT ![sent.id] =
                             [row[sent.id] EXCEPT !.title = sent.form.title,
                                                  !.date = sent.form.date]]
  /\ UNCHANGED <<list, modalOpen, editing, form, deletions, row, removing, begun>>

DeleteMeeting(m) ==
  /\ m \in deletions /\ row[m] # None /\ Unlocked(m)
  /\ removing' = removing \cup {m}
  /\ UNCHANGED <<view, row, flushed, begun>>

CommitMeeting(m) ==
  /\ ~Unlocked(m)
  /\ row' = [row EXCEPT ![m] = flushed[m]]
  /\ flushed' = [flushed EXCEPT ![m] = None]
  /\ removing' = removing \ {m}
  /\ UNCHANGED <<view, begun>>

\* A rehearsal is started for the meeting; it ends.
LinkMeeting(m) ==
  /\ row[m] # None /\ Unlocked(m) /\ ~row[m].active
  /\ row' = [row EXCEPT ![m] = [@ EXCEPT !.status = "prepared", !.active = TRUE]]
  /\ UNCHANGED <<view, flushed, removing, begun>>

EndSession(m) ==
  /\ row[m] # None /\ Unlocked(m) /\ row[m].active
  /\ row' = [row EXCEPT ![m] = [@ EXCEPT !.active = FALSE]]
  /\ UNCHANGED <<view, flushed, removing, begun>>

Next ==
  \/ OpenCreate \/ OpenEdit \/ CloseModal \/ TypeTitle \/ TypeDate
  \/ HandleSubmit \/ SaveSucceeds \/ SaveFails
  \/ HandleDelete \/ HandleStartSimulation
  \/ ListMeetings \/ CreateMeeting \/ UpdateMeeting
  \/ \E m \in Meets : \/ DeleteSettles(m) \/ DeleteMeeting(m) \/ CommitMeeting(m)
                      \/ LinkMeeting(m) \/ EndSession(m)

Spec == Init /\ [][Next]_vars

-----------------------------------------------------------------------------
(* Properties.                                                             *)

\* The text of one meeting is never saved into another, and a new meeting is
\* never saved with what was filled from an old one, however dialogs are closed
\* by late answers and opened again (meetings/page.tsx:131, 516).
SavedIntoItsOwn ==
  /\ sent # None => sent.form.of = sent.id
  /\ modalOpen => form.of = InitialOf(editing).of
=============================================================================
