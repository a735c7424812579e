------------------------------ MODULE Personas ------------------------------
(* The page of a user's own opponents: its list, the form that creates or   *)
(* edits one, the deletion, and the router behind it.  The two lists of an  *)
(* opponent, its phrases and its focus areas, are typed as one line each    *)
(* and are treated alike: phrases stands for both.                          *)
EXTENDS Lists, FiniteSetsExt

CONSTANTS
  People,        \* opponents, one for each row that may be made
  Ages,
  Words,
  Lines,         \* the lines that are typed
  Comma, Blank,
  None

Token == Words \cup {Comma, Blank}

PersonasAssumption ==
  /\ Lines \subseteq Seq(Token)
  /\ Comma # Blank /\ {Comma, Blank} \cap Words = {}
  /\ None \notin People \cup Ages

VARIABLES
  \* the browser
  list,          \* the opponents as fetched, or None
  showForm, editing, form,
  deleting,      \* the opponent of the open dialog
  sent,          \* the form that is being saved, or None
  deletions,     \* opponents whose deletion the page waits for
  \* the server
  row,           \* the committed row of each opponent
  flushed,       \* what is written to it and not committed
  removing,      \* opponents whose deletion is not committed
  begun          \* opponents that have been written

view == <<list, showForm, editing, form, deleting, sent, deletions>>
server == <<row, flushed, removing, begun>>
vars == <<view, server>>

Row == [age : Ages \cup {None}, phrases : Seq(Seq(Token))]
Persona == [id : People, age : Ages \cup {None}, phrases : Seq(Seq(Token))]

\* key: which form it is; age None: left empty.
PersonaFormData == [key : People \cup {"create-new"}, of : People \cup {None},
                    age : Ages \cup {None}, line : Seq(Token)]

TypeOK ==
  /\ list = None \/ list \subseteq Persona
  /\ showForm \in BOOLEAN /\ editing \in Persona \cup {None}
  /\ form \in PersonaFormData \cup {None}
  /\ deleting \in People \cup {None}
  /\ sent = None \/ sent \in [id : People \cup {None}, form : PersonaFormData,
                              state : {"asked", "written", "refused"}]
  /\ deletions \subseteq People
  /\ row \in [People -> Row \cup {None}] /\ flushed \in [People -> Row \cup {None}]
  /\ removing \subseteq People /\ begun \subseteq People

Init ==
  /\ list = None /\ showForm = FALSE /\ editing = None /\ form = None
  /\ deleting = None /\ sent = None /\ deletions = {}
  /\ row = [p \in People |-> None] /\ flushed = [p \in People |-> None]
  /\ removing = {} /\ begun = {}

-----------------------------------------------------------------------------
(* A list as one line.                                                     *)

\* Variant: the parts are not trimmed.
Untrimmed(s) == s

\* Without the blanks around it.
TrimBlanks(s) ==
  LET solid == {i \in DOMAIN s : s[i] # Blank}
  IN IF solid = {} THEN <<>> ELSE SubSeq(s, Min(solid), Max(solid))

\* What has been read of a line: the parts that are complete, and the last one.
Reading == [parts : Seq(Seq(Token)), part : Seq(Token)]

\* A part is trimmed, and dropped if nothing is left of it.
WithPart(acc) ==
  IF TrimBlanks(acc.part) = <<>> THEN acc.parts
  ELSE Append(acc.parts, TrimBlanks(acc.part))

Read(acc, token) ==
  IF token = Comma THEN [parts |-> WithPart(acc), part |-> <<>>]
  ELSE [acc EXCEPT !.part = Append(@, token)]

ReadLine(line) ==
  Fold([i \in DOMAIN line |-> [acc \in Reading |-> Read(acc, line[i])]],
       [parts |-> <<>>, part |-> <<>>], Len(line))

ParseCsv(line) == WithPart(ReadLine(line))

FormatList(phrases) ==
  Fold([k \in DOMAIN phrases |->
          [line \in Seq(Token) |->
             IF k = 1 THEN phrases[k] ELSE line \o <<Comma, Blank>> \o phrases[k]]],
       <<>>, Len(phrases))

EmptyForm == [key |-> "create-new", of |-> None, age |-> None, line |-> <<>>]

FormOf(p) == [key |-> p.id, of |-> p.id, age |-> p.age, line |-> FormatList(p.phrases)]

\* An age that is left empty is not sent, and the row keeps what it has.
Updated(r, f) ==
  [r EXCEPT !.age = IF f.age = None THEN @ ELSE f.age, !.phrases = ParseCsv(f.line)]

Created(f) == [age |-> f.age, phrases |-> ParseCsv(f.line)]

-----------------------------------------------------------------------------
(* The page; the time its form takes to fade is left out.                  *)

\* One form at a time, the edited opponent's first; a form with another key is
\* another form, filled when it appears, and the same one keeps what is typed.
KeyOf(show, p) ==
  IF p # None THEN p.id ELSE IF show THEN "create-new" ELSE None

Mounted(show, p) ==
  IF KeyOf(show, p) = None THEN None
  ELSE IF form # None /\ form.key = KeyOf(show, p) THEN form
  ELSE IF p # None THEN FormOf(p) ELSE EmptyForm

Open(show, p) ==
  /\ showForm' = show /\ editing' = p
  /\ form' = Mounted(show, p)

\* From the header while no form is open, from the empty list at any time.
ShowCreate ==
  /\ list # None /\ (form = None \/ list = {})
  /\ Open(TRUE, editing)
  /\ UNCHANGED <<list, deleting, sent, deletions, server>>

EditPersona ==
  /\ list # None /\ deleting = None
  /\ \E p \in list : Open(showForm, p)
  /\ UNCHANGED <<list, deleting, sent, deletions, server>>

\* The cross closes it also while it is being saved.
CancelForm ==
  /\ form # None
  /\ IF editing # None THEN Open(showForm, None) ELSE Open(FALSE, None)
  /\ UNCHANGED <<list, deleting, sent, deletions, server>>

HandleChange(typed) ==
  /\ typed # form /\ form' = typed
  /\ UNCHANGED <<list, showForm, editing, deleting, sent, deletions, server>>

TypeAge == form # None /\ \E age \in Ages \cup {None} : HandleChange([form EXCEPT !.age = age])
TypeLine == form # None /\ \E line \in Lines : HandleChange([form EXCEPT !.line = line])

\* One form is saved at a time.
HandleSubmit ==
  /\ form # None /\ sent = None
  /\ sent' = [id |-> IF editing = None THEN None ELSE editing.id, form |-> form, state |-> "asked"]
  /\ UNCHANGED <<list, showForm, editing, form, deleting, deletions, server>>

\* The form of that kind is closed, whichever opponent it is open for by now.
SaveSucceeds ==
  /\ sent # None /\ sent.state = "written"
  /\ sent' = None
  /\ IF sent.id = None THEN Open(FALSE, editing) ELSE Open(showForm, None)
  /\ UNCHANGED <<list, deleting, deletions, server>>

\* An error status, or an answer that is lost after the row was written.
SaveFails ==
  /\ sent # None
  /\ sent' = None
  /\ UNCHANGED <<list, showForm, editing, form, deleting, deletions, server>>

AskDelete ==
  /\ list # None /\ deleting = None
  /\ \E p \in list : deleting' = p.id
  /\ UNCHANGED <<list, showForm, editing, form, sent, deletions, server>>

CancelDelete ==
  /\ deleting # None
  /\ deleting' = None
  /\ UNCHANGED <<list, showForm, editing, form, sent, deletions, server>>

HandleDeleteConfirm ==
  /\ deleting # None
  /\ deletions' = deletions \cup {deleting}
  /\ UNCHANGED <<list, showForm, editing, form, deleting, sent, server>>

\* Whatever dialog is open by now is closed.
DeleteSucceeds(p) ==
  /\ p \in deletions /\ (p \in removing \/ row[p] = None)
  /\ deletions' = deletions \ {p}
  /\ deleting' = None
  /\ UNCHANGED <<list, showForm, editing, form, sent, server>>

DeleteFails(p) ==
  /\ p \in deletions
  /\ deletions' = deletions \ {p}
  /\ UNCHANGED <<list, showForm, editing, form, deleting, sent, server>>

\* A card's button goes to the rehearsals and leaves the page (Practice); what
\* it still asks for is taken as answered before.
UsePersona ==
  /\ list # None /\ list # {} /\ deleting = None
  /\ sent # None => sent.state # "asked"
  /\ Open(FALSE, None)
  /\ sent' = None /\ deletions' = {}
  /\ UNCHANGED <<list, deleting, server>>

-----------------------------------------------------------------------------
(* The router; a row is committed when the answer has been sent.           *)

Unlocked(p) == flushed[p] = None /\ p \notin removing

\* GET /personas: on load, after a change, on return to the window.
ListPersonas ==
  /\ list' = {[id |-> p, age |-> row[p].age, phrases |-> row[p].phrases] :
                p \in {q \in People : row[q] # None}}
  /\ UNCHANGED <<showForm, editing, form, deleting, sent, deletions, server>>

CreatePersona ==
  /\ sent # None /\ sent.state = "asked" /\ sent.id = None
  /\ \E p \in People \ begun :
       /\ flushed' = [flushed EXCEPT ![p] = Created(sent.form)]
       /\ begun' = begun \cup {p}
  /\ sent' = [sent EXCEPT !.state = "written"]
  /\ UNCHANGED <<list, showForm, editing, form, deleting, deletions, row, removing>>

\* Waits for another write of the row.
UpdatePersona ==
  /\ sent # None /\ sent.state = "asked" /\ sent.id # None
  /\ Unlocked(sent.id)
  /\ IF row[sent.id] = None
       THEN sent' = [sent EXCEPT !.state = "refused"] /\ UNCHANGED flushed
       ELSE /\ sent' = [sent EXCEPT !.state = "written"]
            /\ flushed' = [flushed EXCEPT ![sent.id] = Updated(row[sent.id], sent.form)]
  /\ UNCHANGED <<list, showForm, editing, form, deleting, deletions, row, removing, begun>>

DeletePersona(p) ==
  /\ p \in deletions /\ row[p] # None /\ Unlocked(p)
  /\ removing' = removing \cup {p}
  /\ UNCHANGED <<view, row, flushed, begun>>

CommitPersona(p) ==
  /\ ~Unlocked(p)
  /\ row' = [row EXCEPT ![p] = flushed[p]]
  /\ flushed' = [flushed EXCEPT ![p] = None]
  /\ removing' = removing \ {p}
  /\ UNCHANGED <<view, begun>>

Next ==
  \/ ShowCreate \/ EditPersona \/ CancelForm \/ TypeAge \/ TypeLine
  \/ HandleSubmit \/ SaveSucceeds \/ SaveFails
  \/ AskDelete \/ CancelDelete \/ HandleDeleteConfirm \/ UsePersona
  \/ ListPersonas \/ CreatePersona \/ UpdatePersona
  \/ \E p \in People : DeleteSucceeds(p) \/ DeleteFails(p) \/ DeletePersona(p) \/ CommitPersona(p)

Spec == Init /\ [][Next]_vars

-----------------------------------------------------------------------------
(* Properties.                                                             *)

\* An opponent that is opened and saved untouched stays as it was: what was
\* typed survives being split, stored, joined and split again
\* (personas/page.tsx:62-71).
UntouchedIsUnchanged ==
  \A p \in People : row[p] # None =>
    Updated(row[p], FormOf([id |-> p, age |-> row[p].age, phrases |-> row[p].phrases])) = row[p]
=============================================================================
