----------------------------- MODULE MCPractice -----------------------------
(* The pages of a rehearsal, side by side: choice of opponent and material,  *)
(* dialogue, report, guest rehearsal.                                        *)
EXTENDS Guest, TLC, Integers

CONSTANTS
  Documents, Drafts, Roles, Personas, Meetings, MaxPages,
  MaxStarts, PageRequests, MaxTurns, PageMaxTurns, MaxLoads, First, Tasks,
  Reruns, Answers, MaxVisits, u1, b1

SuggestedRole == [m \in Meetings |-> CHOOSE r \in Roles : TRUE]
Visitor == [b \in Bridges |-> IF b = b1 THEN u1 ELSE CHOOSE u \in Users : u # u1]

Symmetry ==
  Permutations(Requests) \cup Permutations(PageRequests)
    \cup Permutations(Reruns) \cup Permutations(Tasks)

VARIABLES
  focus,
  url, practiceView, stage, found, documents, personasKnown, selectedDoc,
  selectedRole, selectedUserPersonaId, selectedDomain, linkedMeetingId,
  sessionTotal, sessionPage, askedPage, canStartSimulation, upgradeOpen,
  isStarting, started,
  dialogueView, messages, dialogueAnswer, interim, recognition, isAnalyzing,
  isCompleting, history, loads, session, txn,
  place, visits, popover, rerunLoading, card, artifactReq, task, briefs,
  paid, config, lock, rerun, made

P == INSTANCE Practice WITH
  view <- practiceView
H == INSTANCE Rehearsal WITH
  Requests <- PageRequests, view <- dialogueView, answer <- dialogueAnswer
R == INSTANCE Report

practiceVars == <<url, practiceView, stage, found, documents, personasKnown,
                  selectedDoc, selectedRole, selectedUserPersonaId,
                  selectedDomain, linkedMeetingId, sessionTotal, sessionPage,
                  askedPage, canStartSimulation, upgradeOpen, isStarting,
                  started>>
dialogueVars == <<dialogueView, messages, dialogueAnswer, interim,
                  recognition, isAnalyzing, isCompleting, history, loads,
                  session, txn>>
reportVars == <<place, visits, popover, rerunLoading, card, artifactReq,
                task, briefs, paid, config, lock, rerun, made>>

ASSUME Assumptions ==
  /\ P!PracticeAssumption
  /\ H!RehearsalAssumption
  /\ R!ReportAssumption
  /\ GuestAssumption

\* A component that is not looked at has no state; the guest waits in an
\* initial one.
NoPractice ==
  /\ url = None /\ practiceView = None /\ stage = None
  /\ found = None /\ documents = None /\ personasKnown = None
  /\ selectedDoc = None /\ selectedRole = None /\ selectedUserPersonaId = None
  /\ selectedDomain = None /\ linkedMeetingId = None /\ sessionTotal = None
  /\ sessionPage = None /\ askedPage = None /\ canStartSimulation = None
  /\ upgradeOpen = None /\ isStarting = None /\ started = None
NoRehearsal ==
  /\ dialogueView = None /\ messages = None
  /\ dialogueAnswer = None /\ interim = None /\ recognition = None
  /\ isAnalyzing = None /\ isCompleting = None /\ history = None
  /\ loads = None /\ session = None /\ txn = None
NoReport ==
  /\ place = None /\ visits = None /\ popover = None
  /\ rerunLoading = None /\ card = None /\ artifactReq = None /\ task = None
  /\ briefs = None /\ paid = None /\ config = None /\ lock = None
  /\ rerun = None /\ made = None
NoGuest == Init /\ ready

\* Which component is looked at.
PracticeInit ==
  \/ /\ focus = "practice" /\ P!Init /\ NoRehearsal /\ NoReport /\ NoGuest
  \/ /\ focus = "dialogue" /\ H!Init /\ NoPractice /\ NoReport /\ NoGuest
  \/ /\ focus = "report" /\ R!Init /\ NoPractice /\ NoRehearsal /\ NoGuest
  \/ /\ focus = "guest" /\ Init /\ NoPractice /\ NoRehearsal /\ NoReport

PracticeNext ==
  \/ /\ focus = "practice" /\ P!Next
     /\ UNCHANGED <<focus, dialogueVars, reportVars, vars>>
  \/ /\ focus = "dialogue" /\ H!Next
     /\ UNCHANGED <<focus, practiceVars, reportVars, vars>>
  \/ /\ focus = "report" /\ R!Next
     /\ UNCHANGED <<focus, practiceVars, dialogueVars, vars>>
  \/ /\ focus = "guest" /\ Next
     /\ UNCHANGED <<focus, practiceVars, dialogueVars, reportVars>>

allVars == <<focus, practiceVars, dialogueVars, reportVars, vars>>

PracticeSpec == PracticeInit /\ [][PracticeNext]_allVars

\* Every variable of the component that is looked at has its type.
TypesOK ==
  /\ focus = "practice" => P!TypeOK
  /\ focus = "dialogue" => H!TypeOK
  /\ focus = "report" => R!TypeOK
  /\ focus = "guest" => TypeOK

\* One opponent at most is selected (Practice).
OneOpponent == focus = "practice" => P!OneOpponent

\* The dialogue shows no message twice, and none that is not stored (Rehearsal).
ShownIsRecorded == focus = "dialogue" => H!ShownIsRecorded

\* A report is rerun into one session at most (Report).
OneRerun == focus = "report" => R!OneRerun
=============================================================================
