------------------------------- MODULE Report -------------------------------
(* The report of a completed simulation: the Defense Brief its card waits  *)
(* for, the notes on the answers, and the second run on the same material. *)
EXTENDS Naturals, FiniteSets

CONSTANTS
  Tasks,       \* background tasks that make the brief of the session
  Reruns,      \* POST /simulation/{id}/rerun requests; each names its session
  Answers,     \* the answers of the transcript
  MaxVisits,   \* bound: page loads
  None

\* The pages besides the sessions that a rerun opens.
Places == {"loading", "report", "list", "billing"}

ReportAssumption ==
  /\ MaxVisits \in Nat \ {0} /\ IsFiniteSet(Tasks)
  /\ None \notin Reruns \cup Answers
  /\ Reruns \cap Places = {}

VARIABLES
  \* the page
  place,         \* loading, the report, the list or another session
  visits,
  popover,       \* the answer whose comment is shown
  rerunLoading,  \* the rerun the page waits for, or None
  \* the card
  card, artifactReq,
  \* the server
  task,          \* what each background task has found or done
  briefs,        \* stored prep_card artifacts of the session
  paid,          \* the session or its user has access to the brief
  config,        \* rerun_session_id of the source, committed
  lock,          \* the rerun that holds the source's row
  rerun,         \* where each rerun is
  made           \* the sessions that reruns have committed

page == <<place, visits, popover, rerunLoading>>
server == <<task, briefs, paid, config, lock, rerun, made>>
vars == <<page, card, artifactReq, server>>

TypeOK ==
  /\ place \in Places \cup Reruns
  /\ visits \in 1..MaxVisits
  /\ popover \in Answers \cup {None}
  /\ rerunLoading \in Reruns \cup {None}
  /\ card \in {"off", "loading", "brief", "teaser", "error"}
  /\ artifactReq \in {"none", "sent", "later"}
  /\ task \in [Tasks -> {"waiting", "found none", "done"}]
  /\ briefs \in 0..Cardinality(Tasks)
  /\ paid \in BOOLEAN
  /\ config \in Reruns \cup {None} /\ lock \in Reruns \cup {None}
  /\ rerun \in [Reruns -> [pc : {"idle", "sent", "locked", "answered", "done", "failed"},
                           id : Reruns \cup {None}]]
  /\ made \subseteq Reruns

Init ==
  /\ place = "loading" /\ visits = 1 /\ popover = None /\ rerunLoading = None
  /\ card = "off" /\ artifactReq = "none"
  /\ task = [t \in Tasks |-> "waiting"] /\ briefs = 0
  /\ paid \in BOOLEAN
  /\ config = None /\ lock = None
  /\ rerun = [r \in Reruns |-> [pc |-> "idle", id |-> None]]
  /\ made = {}

-----------------------------------------------------------------------------
(* The page.                                                               *)

\* The card is mounted with the report and asks at once.
FetchReport ==
  /\ place = "loading"
  /\ place' = "report"
  /\ card' = "loading" /\ artifactReq' = "sent"
  /\ UNCHANGED <<visits, popover, rerunLoading, server>>

Unmount ==
  /\ popover' = None /\ rerunLoading' = None
  /\ card' = "off" /\ artifactReq' = "none"
  /\ UNCHANGED server

\* The report cannot be read, or the user goes on.
ReportFails ==
  /\ place = "loading"
  /\ place' = "list"
  /\ Unmount
  /\ UNCHANGED visits

Leave ==
  /\ place \notin {"loading", "list"}
  /\ place' = "list"
  /\ Unmount
  /\ UNCHANGED visits

Return ==
  /\ place = "list" /\ visits < MaxVisits
  /\ place' = "loading" /\ visits' = visits + 1
  /\ Unmount

\* The transcript marks the answers with a weak metric; a click shows or hides
\* the comment, a click elsewhere hides it.
HandlePopover(a) ==
  /\ place = "report"
  /\ popover' = IF popover = a THEN None ELSE a
  /\ UNCHANGED <<place, visits, rerunLoading, card, artifactReq, server>>

ClosePopover ==
  /\ popover # None
  /\ popover' = None
  /\ UNCHANGED <<place, visits, rerunLoading, card, artifactReq, server>>

-----------------------------------------------------------------------------
(* The card and GET /simulation/{id}/artifact.                             *)

\* A task that finds no brief stores one; one that fails stores none.
FindBrief(t) ==
  /\ task[t] = "waiting"
  /\ task' = [task EXCEPT ![t] = IF briefs = 0 THEN "found none" ELSE "done"]
  /\ UNCHANGED <<page, card, artifactReq, briefs, paid, config, lock, rerun, made>>

StoreBrief(t) ==
  /\ task[t] = "found none"
  /\ task' = [task EXCEPT ![t] = "done"]
  /\ briefs' \in {briefs, briefs + 1}
  /\ UNCHANGED <<page, card, artifactReq, paid, config, lock, rerun, made>>

\* Without a brief 409, with more than one an error of the server.
FetchArtifact ==
  /\ card = "loading" /\ artifactReq = "sent"
  /\ CASE briefs = 0 -> artifactReq' = "later" /\ UNCHANGED card
       [] briefs = 1 -> /\ artifactReq' = "none"
                        /\ card' = IF paid THEN "brief" ELSE "teaser"
       [] OTHER -> artifactReq' = "none" /\ card' = "error"
  /\ UNCHANGED <<page, server>>

FetchArtifactFails ==
  /\ card = "loading" /\ artifactReq = "sent"
  /\ artifactReq' = "none" /\ card' = "error"
  /\ UNCHANGED <<page, server>>

\* Variant: the answer 409 is the last.
NeverFetchAgain ==
  /\ card = "loading" /\ artifactReq = "later"
  /\ artifactReq' = "none"
  /\ UNCHANGED <<page, card, server>>

\* After two seconds, as often as it takes.
FetchAgain ==
  /\ card = "loading" /\ artifactReq = "later"
  /\ artifactReq' = "sent"
  /\ UNCHANGED <<page, card, server>>

\* The teaser sells a session's brief.
TeaserPanel == card = "teaser"

OpenPaywall ==
  /\ TeaserPanel
  /\ place' = "billing"
  /\ Unmount
  /\ UNCHANGED visits

\* The payment or the plan reaches the account.
AccessGranted ==
  /\ ~paid
  /\ paid' = TRUE
  /\ UNCHANGED <<page, card, artifactReq, task, briefs, config, lock, rerun, made>>

-----------------------------------------------------------------------------
(* The rerun.                                                              *)

RerunOffered == place = "report" /\ paid

HandleRerun(r) ==
  /\ RerunOffered /\ rerunLoading = None
  /\ rerun[r].pc = "idle"
  /\ rerunLoading' = r
  /\ rerun' = [rerun EXCEPT ![r].pc = "sent"]
  /\ UNCHANGED <<place, visits, popover, card, artifactReq, task, briefs, paid,
                 config, lock, made>>

\* Variant: the SELECT is not FOR UPDATE.
ReadSource(r) ==
  /\ rerun[r].pc = "sent"
  /\ lock' = r
  /\ rerun' = [rerun EXCEPT ![r] = [pc |-> "locked", id |-> config]]
  /\ UNCHANGED <<page, card, artifactReq, task, briefs, paid, config, made>>

\* SELECT ... FOR UPDATE of the source, with the configuration it then has.
LockSource(r) ==
  /\ rerun[r].pc = "sent" /\ lock = None
  /\ lock' = r
  /\ rerun' = [rerun EXCEPT ![r] = [pc |-> "locked", id |-> config]]
  /\ UNCHANGED <<page, card, artifactReq, task, briefs, paid, config, made>>

\* The rerun there is, or a new one once its first question has come.
AnswerRerun(r) ==
  /\ rerun[r].pc = "locked"
  /\ rerun' = [rerun EXCEPT ![r] = [pc |-> "answered",
                                    id |-> IF @.id = None THEN r ELSE @.id]]
  /\ UNCHANGED <<page, card, artifactReq, task, briefs, paid, config, lock, made>>

\* The model fails: rolled back.
RerunFails(r) ==
  /\ rerun[r].pc = "locked" /\ rerun[r].id = None
  /\ rerun' = [rerun EXCEPT ![r].pc = "failed"]
  /\ lock' = None
  /\ UNCHANGED <<page, card, artifactReq, task, briefs, paid, config, made>>

CommitRerun(r) ==
  /\ rerun[r].pc = "answered"
  /\ rerun' = [rerun EXCEPT ![r].pc = "done"]
  /\ lock' = None
  /\ config' = rerun[r].id
  /\ made' = IF rerun[r].id = r THEN made \cup {r} ELSE made
  /\ UNCHANGED <<page, card, artifactReq, task, briefs, paid>>

ReceiveRerun(r) ==
  /\ rerunLoading = r /\ rerun[r].pc \in {"answered", "done"}
  /\ place' = rerun[r].id
  /\ Unmount
  /\ UNCHANGED visits

\* An error, or a response that is lost while the server goes on.
RerunLost(r) ==
  /\ rerunLoading = r
  /\ rerunLoading' = None
  /\ UNCHANGED <<place, visits, popover, card, artifactReq, server>>

Next ==
  \/ FetchReport \/ ReportFails \/ Leave \/ Return \/ ClosePopover
  \/ FetchArtifact \/ FetchArtifactFails \/ FetchAgain \/ OpenPaywall
  \/ AccessGranted
  \/ \E a \in Answers : HandlePopover(a)
  \/ \E t \in Tasks : FindBrief(t) \/ StoreBrief(t)
  \/ \E r \in Reruns :
       \/ HandleRerun(r) \/ LockSource(r) \/ AnswerRerun(r) \/ RerunFails(r)
       \/ CommitRerun(r) \/ ReceiveRerun(r) \/ RerunLost(r)

Spec == Init /\ [][Next]_vars

-----------------------------------------------------------------------------
(* Properties.                                                             *)

\* However often the rerun is asked for, from reloaded pages or again after a
\* lost response, one session comes of it, and whoever is sent to a rerun is
\* sent to that one (simulation.py:722-745, 765-775; report/page.tsx:314-336).
OneRerun ==
  /\ Cardinality(made) <= 1
  /\ made = (IF config = None THEN {} ELSE {config})
  /\ place \in Reruns =>
       \/ place = config
       \/ config = None /\ lock # None /\ rerun[lock] = [pc |-> "answered", id |-> place]

\* A card that waits for a brief which has been stored leaves its spinner
\* (PrepCard.tsx:292-308).
WaitingEnds == card = "loading" /\ briefs > 0 ~> card # "loading"
=============================================================================
