------------------------------ MODULE Practice ------------------------------
(* The page of all simulations: the paged history, the form that sets a    *)
(* simulation up, and its start.  Links from the analysis, the meetings    *)
(* and the personas fill the form in while the user is already at it.      *)
EXTENDS Naturals, FiniteSets

CONSTANTS
  Documents, Drafts,   \* materials; GET /documents lists the documents
  Roles, Personas, Meetings,
  SuggestedRole,       \* of each meeting
  MaxPages,            \* bound: pages of the history
  MaxStarts,           \* bound: requests to start
  None

Materials == Documents \cup Drafts

PracticeAssumption ==
  /\ Documents \cap Drafts = {}
  /\ SuggestedRole \in [Meetings -> Roles]
  /\ None \notin Materials \cup Roles \cup Personas \cup Meetings
  /\ MaxPages \in Nat /\ MaxStarts \in Nat

VARIABLES
  url,           \* ?draft= or ?doc=, ?meeting=, ?persona=
  view, stage,   \* what is shown; how far fetchAll has come
  found,         \* docsItems of fetchAll
  documents,     \* the materials the form lists
  personasKnown,
  selectedDoc, selectedRole, selectedUserPersonaId, selectedDomain,
  linkedMeetingId,
  sessionTotal, sessionPage, askedPage,   \* in pages; 0: nothing asked
  canStartSimulation,
  upgradeOpen,
  isStarting,    \* the payload of the start the page waits for, or None
  started        \* the sessions the server has started

form == <<selectedDoc, selectedRole, selectedUserPersonaId, selectedDomain,
          linkedMeetingId>>
list == <<sessionTotal, sessionPage, askedPage>>
loaded == <<url, stage, found, documents, personasKnown>>
vars == <<loaded, view, form, list, canStartSimulation, upgradeOpen, isStarting,
          started>>

\* POST /simulation/start: the material is sent as a document unless the form
\* knows it for a draft.
Payload == [document : Materials \cup {None}, draft : Materials \cup {None},
            role : Roles \cup {None}, persona : Personas \cup {None},
            meeting : Meetings \cup {None}]

TypeOK ==
  /\ url \in [draft : Materials \cup {None}, meeting : Meetings \cup {None},
              persona : Personas \cup {None}]
  /\ view \in {"loading", "history", "setup", "session", "report"}
  /\ stage \in {"all", "draft", "meeting", "ready"}
  /\ found \subseteq Materials /\ documents \subseteq Materials
  /\ personasKnown \in BOOLEAN
  /\ selectedDoc \in Materials \cup {None}
  /\ selectedRole \in Roles \cup {None}
  /\ selectedUserPersonaId \in Personas \cup {None}
  /\ selectedDomain \in {"none", "listed", "blank", "custom"}
  /\ linkedMeetingId \in Meetings \cup {None}
  /\ sessionTotal \in 0..MaxPages /\ sessionPage \in 1..(MaxPages + 1)
  /\ askedPage \in 0..MaxPages
  /\ canStartSimulation \in BOOLEAN /\ upgradeOpen \in BOOLEAN
  /\ isStarting \in Payload \cup {None}
  /\ started \subseteq Payload

Init ==
  /\ url \in [draft : Materials \cup {None}, meeting : Meetings \cup {None},
              persona : Personas \cup {None}]
  /\ view = "loading" /\ stage = "all" /\ found = {} /\ documents = {}
  /\ personasKnown = FALSE
  /\ selectedDoc = None /\ selectedRole = None /\ selectedUserPersonaId = None
  /\ selectedDomain = "none" /\ linkedMeetingId = None
  /\ sessionTotal = 0 /\ sessionPage = 1 /\ askedPage = 0
  /\ canStartSimulation \in BOOLEAN /\ upgradeOpen = FALSE
  /\ isStarting = None /\ started = {}

Here == {"loading", "history", "setup"}

-----------------------------------------------------------------------------
(* fetchAll: three requests together, then the draft, then the meeting.    *)

HistoryOrSetup(total) == IF total > 0 THEN "history" ELSE "setup"

\* Any of the three may fail.  The domain of the latest session is taken
\* over; a persona of the URL opens the form.
FetchAll ==
  /\ stage = "all"
  /\ \E total \in 0..MaxPages, personas, docs \in BOOLEAN :
       /\ sessionTotal' = total
       /\ personasKnown' = personas
       /\ found' = IF docs THEN Documents ELSE {}
       /\ selectedDomain' = IF personas /\ url.meeting = None /\ total > 0
                            THEN "listed" ELSE selectedDomain
       /\ selectedUserPersonaId' = IF personas THEN url.persona ELSE None
       /\ view' = IF personas /\ url.persona # None THEN "setup"
                  ELSE HistoryOrSetup(total)
  /\ stage' = "draft"
  /\ UNCHANGED <<url, documents, selectedDoc, selectedRole, linkedMeetingId,
                 sessionPage, askedPage, canStartSimulation, upgradeOpen,
                 isStarting, started>>

\* A draft that the list has not is fetched by itself.  Found or not, it is
\* selected.
FetchDraft ==
  /\ stage = "draft" /\ view \in Here
  /\ stage' = "meeting"
  /\ IF url.draft = None
     THEN UNCHANGED <<found, selectedDoc, view>>
     ELSE /\ found' \in IF url.draft \in Drafts THEN {found, found \cup {url.draft}}
                        ELSE {found}
          /\ selectedDoc' = url.draft
          /\ view' = "setup"
  /\ UNCHANGED <<url, documents, personasKnown, selectedRole,
                 selectedUserPersonaId, selectedDomain, linkedMeetingId, list,
                  canStartSimulation, upgradeOpen, isStarting,
                 started>>

\* The meeting has a running session, is ready, or cannot be read.  The
\* materials are listed last, and not at all when the page moves on.
FetchMeeting ==
  /\ stage = "meeting" /\ view \in Here
  /\ stage' = "ready"
  /\ \/ /\ url.meeting # None
        /\ view' = "session"
        /\ UNCHANGED <<documents, selectedRole, selectedUserPersonaId, linkedMeetingId>>
     \/ /\ url.meeting # None
        /\ selectedRole' = SuggestedRole[url.meeting]
        /\ selectedUserPersonaId' = None
        /\ linkedMeetingId' = url.meeting
        /\ view' = "setup" /\ documents' = found
     \/ /\ documents' = found
        /\ UNCHANGED <<view, selectedRole, selectedUserPersonaId, linkedMeetingId>>
  /\ UNCHANGED <<url, found, personasKnown, selectedDoc, selectedDomain, list,
                 canStartSimulation, upgradeOpen, isStarting,
                 started>>

-----------------------------------------------------------------------------
(* The history.                                                            *)

HistoryPanel == view = "history"

\* Previous, next, first, last and the neighbours of the page, none of them
\* while a page is being loaded.
PageOffered ==
  {p \in 1..sessionTotal : /\ sessionTotal > 1
                           /\ \/ p \in {1, sessionTotal}
                              \/ p \in (sessionPage - 1)..(sessionPage + 1)}

FetchSessionPage(p) ==
  /\ HistoryPanel /\ askedPage = 0 /\ p \in PageOffered
  /\ askedPage' = p
  /\ UNCHANGED <<loaded, view, form, sessionTotal, sessionPage,
                 canStartSimulation, upgradeOpen, isStarting, started>>

\* The page arrives, with the number of pages there are by now, and the
\* history is shown, whatever was shown meanwhile.
ReceiveSessionPage ==
  /\ askedPage # 0 /\ view \in Here
  /\ \E total \in sessionTotal..MaxPages : sessionTotal' = total
  /\ sessionPage' = askedPage /\ askedPage' = 0
  /\ view' = HistoryOrSetup(sessionTotal')
  /\ UNCHANGED <<loaded, form, canStartSimulation, upgradeOpen, isStarting, started>>

PageFails ==
  /\ askedPage # 0
  /\ askedPage' = 0
  /\ UNCHANGED <<loaded, view, form, sessionTotal, sessionPage,
                 canStartSimulation, upgradeOpen, isStarting, started>>

\* A running session opens as dialogue, an ended one as report; a cancelled
\* one does not open.
CardOpens == [active |-> "session", completed |-> "report", cancelled |-> "history"]

HandleSessionClick(status) ==
  /\ HistoryPanel
  /\ view' = CardOpens[status]
  /\ UNCHANGED <<loaded, form, list, canStartSimulation, upgradeOpen, isStarting,
                 started>>

\* "New": without access, the upgrade dialog.
NewSession ==
  /\ HistoryPanel
  /\ IF canStartSimulation THEN view' = "setup" /\ UNCHANGED upgradeOpen
     ELSE upgradeOpen' = TRUE /\ UNCHANGED view
  /\ UNCHANGED <<loaded, form, list, canStartSimulation, isStarting, started>>

BackToHistory ==
  /\ view = "setup" /\ sessionTotal > 0
  /\ view' = "history"
  /\ UNCHANGED <<loaded, form, list, canStartSimulation, upgradeOpen, isStarting,
                 started>>

-----------------------------------------------------------------------------
(* The form.                                                               *)

SetupPanel == view = "setup"

Fill ==
  /\ SetupPanel
  /\ UNCHANGED <<loaded, view, list, linkedMeetingId, canStartSimulation,
                 upgradeOpen, isStarting, started>>

\* Variant: the own opponent stays selected.
SelectRoleOnly(r) ==
  /\ Fill
  /\ selectedRole' = r
  /\ UNCHANGED <<selectedDoc, selectedUserPersonaId, selectedDomain>>

\* The built-in roles are offered even if the personas could not be read.
SelectRole(r) ==
  /\ Fill
  /\ selectedRole' = r /\ selectedUserPersonaId' = None
  /\ UNCHANGED <<selectedDoc, selectedDomain>>

SelectPersona(p) ==
  /\ Fill /\ personasKnown
  /\ selectedUserPersonaId' = p /\ selectedRole' = None
  /\ UNCHANGED <<selectedDoc, selectedDomain>>

\* The tabs of the opponents drop the choice made on the other tab.
SwitchTab ==
  /\ Fill
  /\ \/ selectedUserPersonaId' = None /\ UNCHANGED selectedRole
     \/ selectedRole' = None /\ UNCHANGED selectedUserPersonaId
  /\ UNCHANGED <<selectedDoc, selectedDomain>>

SelectDomain(domain) ==
  /\ Fill
  /\ domain = "custom" => selectedDomain \in {"blank", "custom"}
  /\ selectedDomain' = domain
  /\ UNCHANGED <<selectedDoc, selectedRole, selectedUserPersonaId>>

SelectDoc(d) ==
  /\ Fill /\ d \in documents
  /\ selectedDoc' = d
  /\ UNCHANGED <<selectedRole, selectedUserPersonaId, selectedDomain>>

IsReady ==
  /\ selectedRole # None \/ selectedUserPersonaId # None
  /\ selectedDomain \in {"listed", "custom"}
  /\ selectedDoc # None

IsDraft(d) == d \in documents /\ d \in Drafts

PayloadOf ==
  [document |-> IF IsDraft(selectedDoc) THEN None ELSE selectedDoc,
   draft    |-> IF IsDraft(selectedDoc) THEN selectedDoc ELSE None,
   role     |-> IF selectedUserPersonaId # None THEN None ELSE selectedRole,
   persona  |-> selectedUserPersonaId,
   meeting  |-> linkedMeetingId]

LaunchEnabled == SetupPanel /\ IsReady /\ isStarting = None

HandleStart ==
  /\ LaunchEnabled
  /\ IF canStartSimulation
     THEN isStarting' = PayloadOf /\ UNCHANGED upgradeOpen
     ELSE upgradeOpen' = TRUE /\ UNCHANGED isStarting
  /\ UNCHANGED <<loaded, view, form, list, canStartSimulation, started>>

\* The material must be one of its kind.
Acceptable(p) == p.document \notin Drafts /\ p.draft \notin Documents

ReceiveStart ==
  /\ isStarting # None /\ Acceptable(isStarting) /\ Cardinality(started) < MaxStarts
  /\ started' = started \cup {isStarting}
  /\ isStarting' = None
  /\ view' = "session"
  /\ UNCHANGED <<loaded, form, list, canStartSimulation, upgradeOpen>>

\* Refused, failed, or started and the response lost: the form stays.
StartFails ==
  /\ isStarting # None
  /\ started' \in {started} \cup
                  IF Acceptable(isStarting) /\ Cardinality(started) < MaxStarts
                  THEN {started \cup {isStarting}} ELSE {}
  /\ isStarting' = None
  /\ UNCHANGED <<loaded, view, form, list, canStartSimulation, upgradeOpen>>

CloseUpgrade ==
  /\ upgradeOpen
  /\ upgradeOpen' = FALSE
  /\ UNCHANGED <<loaded, view, form, list, canStartSimulation, isStarting, started>>

Next ==
  \/ FetchAll \/ FetchDraft \/ FetchMeeting
  \/ \E p \in 1..MaxPages : FetchSessionPage(p)
  \/ \E status \in DOMAIN CardOpens : HandleSessionClick(status)
  \/ ReceiveSessionPage \/ PageFails \/ NewSession \/ BackToHistory \/ SwitchTab
  \/ \E r \in Roles : SelectRole(r)
  \/ \E p \in Personas : SelectPersona(p)
  \/ \E domain \in {"listed", "blank", "custom"} : SelectDomain(domain)
  \/ \E d \in Materials : SelectDoc(d)
  \/ HandleStart \/ ReceiveStart \/ StartFails \/ CloseUpgrade

Spec == Init /\ [][Next]_vars

-----------------------------------------------------------------------------
(* Properties.                                                             *)

\* Whatever the URL, the meeting's late answer and the user have selected, one
\* opponent at most is selected, so that no built-in role is dropped silently
\* for a persona that is no longer shown as chosen
\* (simulation/page.tsx:323-328, 374-376, 917-931, 972, 1015).
OneOpponent == selectedRole = None \/ selectedUserPersonaId = None
=============================================================================
