------------------------------- MODULE MCLive -------------------------------
(* What must happen in the end: requests under row locks, stale sessions,    *)
(* the brief's card, an upload.                                              *)
EXTENDS TLC, Integers, Sequences, FiniteSets

CONSTANTS
  GRACE_PERIOD_DAYS, BILLING_PERIOD_DAYS, FreeSimulations,
  PersonalSimulations, Starts, Conversions, Views, Hooks, p1, p2, Payments,
  MaxDay, s1, s2, Sessions, MaxTurns, Sends, Expirer, Tasks, Reruns, Answers,
  MaxVisits, Docs, Kinds, None

Entitled == INSTANCE Plans
OnlyFree == {[plan |-> "free", status |-> "active", period_end |-> Entitled!NoEnd]}
NewAccount == {[present |-> FALSE, credits |-> 0, used |-> 0, period_start |-> 0]}
CreditAndPlan == [p \in Payments |-> IF p = p1 THEN "per_session" ELSE "personal"]
Started ==
  {[status |-> "active", asked |-> 1, answered |-> 0, evaluations |-> 0, briefs |-> 0]}
DraftAndDocument == [s \in Sessions |-> IF s = s1 THEN "draft" ELSE "document"]
Completes == {}
Abandons == {}

VARIABLES
  focus,
  now, sub, subWork, subLock, counter, entitlementsWork, entitlementsLock,
  payments, inserted, entitlementsPc, stage, seen, order, entitlementsPaid,
  debited, outcome,
  sessionsRow, old, sessionsLock, sessionsWork, sessionsPc, target, object,
  assigned, inserts,
  reportPlace, visits, popover, rerunLoading, card, artifactReq, reportTask,
  briefs, reportPaid, config, reportLock, rerun, made,
  uploadPlace, mode, file, text, attempt, flow, kind, uploadRow, objects,
  parsed, uploadTask, draft, analysed

E == INSTANCE Entitlements WITH
  InitialSubscriptions <- OnlyFree, InitialCounters <- NewAccount,
  PlanBought <- CreditAndPlan, work <- entitlementsWork,
  lock <- entitlementsLock, pc <- entitlementsPc, paid <- entitlementsPaid
S == INSTANCE Sessions WITH
  Source <- DraftAndDocument, InitialRows <- Started, row <- sessionsRow,
  lock <- sessionsLock, work <- sessionsWork, pc <- sessionsPc
R == INSTANCE Report WITH
  place <- reportPlace, task <- reportTask, paid <- reportPaid,
  lock <- reportLock
U == INSTANCE Upload WITH
  place <- uploadPlace, row <- uploadRow, task <- uploadTask

entitlementsVars == <<now, sub, subWork, subLock, counter, entitlementsWork,
                      entitlementsLock, payments, inserted, entitlementsPc,
                      stage, seen, order, entitlementsPaid, debited,
                      outcome>>
sessionsVars == <<sessionsRow, old, sessionsLock, sessionsWork, sessionsPc,
                  target, object, assigned, inserts>>
reportVars == <<reportPlace, visits, popover, rerunLoading, card,
                artifactReq, reportTask, briefs, reportPaid, config,
                reportLock, rerun, made>>
uploadVars == <<uploadPlace, mode, file, text, attempt, flow, kind,
                uploadRow, objects, parsed, uploadTask, draft, analysed>>

ASSUME Assumptions ==
  /\ R!ReportAssumption
  /\ U!UploadAssumption

\* Which component is looked at.
Init ==
  /\ focus \in {"entitlements", "sessions", "report", "upload"}
  /\ E!Init /\ S!Init /\ R!Init /\ U!Init
  /\ focus = "report" \/ ~reportPaid

Next ==
  \/ /\ focus = "entitlements" /\ E!Next
     /\ UNCHANGED <<focus, sessionsVars, reportVars, uploadVars>>
  \/ /\ focus = "sessions" /\ S!Next
     /\ UNCHANGED <<focus, entitlementsVars, reportVars, uploadVars>>
  \/ /\ focus = "report" /\ R!Next
     /\ UNCHANGED <<focus, entitlementsVars, sessionsVars, uploadVars>>
  \/ /\ focus = "upload" /\ U!Next
     /\ UNCHANGED <<focus, entitlementsVars, sessionsVars, reportVars>>

vars == <<focus, entitlementsVars, sessionsVars, reportVars, uploadVars>>

Spec == Init /\ [][Next]_vars

\* The fairness of each component, while it is the one looked at.  PostgreSQL
\* hands a released lock to a waiter and the AI client bounds every call: a
\* request that has begun goes on.  Sessions age, the tasks are started again,
\* get a row's lock in the end and are not killed in every run.  Timers of the page fire, queued tasks run.
Fairness ==
  /\ \A t \in E!Txns : WF_entitlementsVars(focus = "entitlements" /\ E!Proceed(t))
  /\ \A s \in Sessions :
       /\ WF_sessionsVars(focus = "sessions" /\ S!Age(s))
       /\ SF_sessionsVars(focus = "sessions" /\ S!FlushRow(s))
  /\ \A t \in S!Requests : WF_sessionsVars(focus = "sessions" /\ S!Proceed(t))
  /\ WF_sessionsVars(focus = "sessions" /\ S!ExpirerStep)
  /\ <>[][focus = "sessions" /\ S!Fail(Expirer) => S!SelectUnbound]_sessionsVars
  /\ WF_reportVars(focus = "report" /\ (R!FetchArtifact \/ R!FetchArtifactFails))
  /\ WF_reportVars(focus = "report" /\ R!FetchAgain)
  /\ \A t \in Tasks :
       /\ WF_reportVars(focus = "report" /\ R!FindBrief(t))
       /\ WF_reportVars(focus = "report" /\ R!StoreBrief(t))
  /\ \A d \in Docs :
       /\ WF_uploadVars(focus = "upload" /\ U!RequestEnds(d))
       /\ WF_uploadVars(focus = "upload" /\ U!FormReturns(d))
       /\ WF_uploadVars(focus = "upload" /\ U!Redirect(d))
       /\ WF_uploadVars(focus = "upload" /\ U!ParseDocumentTask(d))

FairSpec == Spec /\ Fairness

\* Row locks and unique keys leave no request waiting for ever (Entitlements).
RequestsEnd == E!RequestsEnd

\* A stale session ends, unless one that stops every run is there (Sessions).
StaleSessionsEnd == S!StaleSessionsEnd

\* The card stops waiting for a brief that is stored (Report).
WaitingEnds == R!WaitingEnds

\* No attempt to upload leaves the page in its waiting state (Upload).
ProcessingEnds == U!ProcessingEnds
=============================================================================
