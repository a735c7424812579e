------------------------------ MODULE Sessions ------------------------------
(***************************************************************************)
(* How a simulation session ends.  Its row, its messages, its evaluation   *)
(* and its Defense Brief are written by concurrent transactions:           *)
(*                                                                         *)
(*   Sends      POST /simulation/{id}/message                              *)
(*   Completes  POST /simulation/{id}/complete                             *)
(*   Abandons   POST /simulation/{id}/abandon, sent when the tab closes    *)
(*   Expirer    expire_abandoned_sessions_task, every 30 minutes           *)
(*                                                                         *)
(* Transactions are cut at their awaits, as in Entitlements.  A session    *)
(* loads its row first and, by further SELECTs, its messages and metrics.  *)
(* Inserts never wait; an UPDATE of the row takes its lock.  The prep-card *)
(* task of a request runs in a database session of its own, after the      *)
(* response and before the request's own commit.                           *)
(***************************************************************************)
EXTENDS Integers, FiniteSets

CONSTANTS
  Sessions,
  Source,       \* what each session is about
  InitialRows,  \* what POST /start, /from-guest or /rerun has committed
  MaxTurns,     \* persona_config.max_turns, 10 to 15 in the code
  Sends, Completes, Abandons,
  Expirer,
  None

Requests == Sends \cup Completes \cup Abandons
Txns == Requests \cup {Expirer}

Status == {"active", "completed", "cancelled"}

\* A session: its status and the numbers of its questions (assistant
\* messages), answers (user messages), stored evaluations and prep cards.
Row == [status: Status, asked: Nat, answered: Nat, evaluations: Nat,
        briefs: Nat]

\* The part of it that a transaction has loaded.
Object == [status: Status, asked: Nat, answered: Nat, evaluations: Nat]

Kind == {"question", "answer", "evaluation", "brief"}

ASSUME SessionsAssumption ==
  /\ MaxTurns \in Nat
  /\ Source \in [Sessions -> {"document", "draft", "scenario"}]
  /\ InitialRows \subseteq
       {r \in Row : /\ r.status = "active" /\ r.asked <= MaxTurns
                    /\ r.evaluations = 0 /\ r.briefs = 0}
  /\ IsFiniteSet(Sends)
  /\ Sends \cap Completes = {} /\ Sends \cap Abandons = {}
  /\ Completes \cap Abandons = {} /\ Expirer \notin Requests
  /\ None \notin Txns \cup Sessions \cup Object \cup Status \cup {"same"}

VARIABLES
  row,       \* the committed state of each session
  old,       \* the sessions created more than two hours ago
  lock,      \* the transaction that has updated the row of each session
  work,      \* the status it has written there
  pc,        \* where each transaction is
  target,    \* the session it is dealing with
  object,    \* what it has loaded of each session and has yet to deal with
  assigned,  \* the status it has assigned to each and not flushed
  inserts    \* what it has inserted

locals == <<target, object, assigned, inserts>>
vars == <<row, old, lock, work, pc, locals>>

Place == {"idle", "messages", "metrics", "detect", "ask", "leave", "reload",
          "evaluate", "flush", "brief", "write", "next", "source", "commit"}

\* "same" is an UPDATE of other columns: the status had that value already.
Assignment == Status \cup {"same", None}

TypeOK ==
  /\ row \in [Sessions -> Row]
  /\ old \subseteq Sessions
  /\ lock \in [Sessions -> Txns \cup {None}]
  /\ work \in [Sessions -> Status]
  /\ pc \in [Txns -> Place]
  /\ target \in [Txns -> Sessions \cup {None}]
  /\ object \in [Txns -> [Sessions -> Object \cup {None}]]
  /\ assigned \in [Txns -> [Sessions -> Assignment]]
  /\ inserts \in [Txns -> SUBSET (Sessions \X Kind)]
  /\ \A t \in Txns : pc[t] = "idle" => inserts[t] = {}
  /\ \A t \in Requests : pc[t] # "idle" => target[t] # None

Init ==
  /\ row \in [Sessions -> InitialRows]
  /\ old = {}
  /\ lock = [s \in Sessions |-> None]
  /\ work = [s \in Sessions |-> "active"]
  /\ pc = [t \in Txns |-> "idle"]
  /\ target = [t \in Txns |-> None]
  /\ object = [t \in Txns |-> [s \in Sessions |-> None]]
  /\ assigned = [t \in Txns |-> [s \in Sessions |-> None]]
  /\ inserts = [t \in Txns |-> {}]

-----------------------------------------------------------------------------
(* Transactions.                                                           *)

GoTo(t, place) == pc' = [pc EXCEPT ![t] = place]

Store(t, s, kinds) ==
  inserts' = [inserts EXCEPT ![t] = @ \cup ({s} \X kinds)]

Stored(t, s, kind) == IF <<s, kind>> \in inserts[t] THEN 1 ELSE 0

\* Variant: what was inserted stays in the session.
CloseKeepsInserts(t) ==
  /\ GoTo(t, "idle")
  /\ target' = [target EXCEPT ![t] = None]
  /\ object' = [object EXCEPT ![t] = [s \in Sessions |-> None]]
  /\ assigned' = [assigned EXCEPT ![t] = [s \in Sessions |-> None]]
  /\ lock' = [s \in Sessions |-> IF lock[s] = t THEN None ELSE lock[s]]
  /\ work' = [s \in Sessions |-> IF lock[s] = t THEN "active" ELSE work[s]]
  /\ UNCHANGED <<old, inserts>>

\* The session is closed and its locks go.
Close(t) ==
  /\ GoTo(t, "idle")
  /\ target' = [target EXCEPT ![t] = None]
  /\ object' = [object EXCEPT ![t] = [s \in Sessions |-> None]]
  /\ assigned' = [assigned EXCEPT ![t] = [s \in Sessions |-> None]]
  /\ inserts' = [inserts EXCEPT ![t] = {}]
  /\ lock' = [s \in Sessions |-> IF lock[s] = t THEN None ELSE lock[s]]
  /\ work' = [s \in Sessions |-> IF lock[s] = t THEN "active" ELSE work[s]]
  /\ UNCHANGED old

\* The UPDATE of one row, once no other transaction holds it.
Update(t, s) ==
  /\ assigned[t][s] # None
  /\ lock[s] = None
  /\ lock' = [lock EXCEPT ![s] = t]
  /\ work' = [work EXCEPT ![s] = IF assigned[t][s] = "same" THEN row[s].status
                                 ELSE assigned[t][s]]
  /\ assigned' = [assigned EXCEPT ![t][s] = None]
  /\ UNCHANGED <<row, old, target, object, inserts>>

Commit(t) ==
  /\ pc[t] = "commit"
  /\ \A s \in Sessions : assigned[t][s] = None
  /\ row' = [s \in Sessions |->
       [status      |-> IF lock[s] = t THEN work[s] ELSE row[s].status,
        asked       |-> row[s].asked + Stored(t, s, "question"),
        answered    |-> row[s].answered + Stored(t, s, "answer"),
        evaluations |-> row[s].evaluations + Stored(t, s, "evaluation"),
        briefs      |-> row[s].briefs + Stored(t, s, "brief")]]
  /\ Close(t)

Rollback(t) == UNCHANGED row /\ Close(t)

\* The AI service gives up or answers no JSON, the connection drops, the
\* process is killed.
Fail(t) == pc[t] # "idle" /\ Rollback(t)

-----------------------------------------------------------------------------
(* Requests.                                                               *)

\* _load_session, first SELECT.
Open(t, s) ==
  /\ pc[t] = "idle"
  /\ row[s].status = "active"
  /\ target' = [target EXCEPT ![t] = s]
  /\ GoTo(t, "messages")
  /\ UNCHANGED <<row, old, lock, work, object, assigned, inserts>>

\* A session that is not active: 409, or 204 for an abandon.
Refuse(t, s) ==
  /\ pc[t] = "idle"
  /\ row[s].status # "active"
  /\ UNCHANGED vars

\* Second SELECT: the messages that are there by now.
LoadMessages(t, place) ==
  LET s == target[t]
  IN  /\ pc[t] = "messages"
      /\ object' = [object EXCEPT ![t][s] =
           [status |-> "active", asked |-> row[s].asked,
            answered |-> row[s].answered, evaluations |-> 0]]
      /\ GoTo(t, place)
      /\ UNCHANGED <<row, old, lock, work, target, assigned, inserts>>

\* send_message.
LoadForSend(t) == LoadMessages(t, "detect")

\* The answer reads as written by an AI: it is not stored.
Detected(t) ==
  /\ pc[t] = "detect"
  /\ Rollback(t)

\* Variant: an off-by-one in the limit.
StoreAnswerLate(t) ==
  LET s == target[t]
  IN  /\ pc[t] = "detect"
      /\ Store(t, s, {"answer"})
      /\ GoTo(t, IF object[t][s].asked > MaxTurns THEN "evaluate" ELSE "ask")
      /\ UNCHANGED <<row, old, lock, work, target, object, assigned>>

\* The answer to question MaxTurns is the last one.
StoreAnswer(t) ==
  LET s == target[t]
  IN  /\ pc[t] = "detect"
      /\ Store(t, s, {"answer"})
      /\ GoTo(t, IF object[t][s].asked >= MaxTurns THEN "evaluate" ELSE "ask")
      /\ UNCHANGED <<row, old, lock, work, target, object, assigned>>

AskQuestion(t) ==
  /\ pc[t] = "ask"
  /\ Store(t, target[t], {"question"})
  /\ GoTo(t, "commit")
  /\ UNCHANGED <<row, old, lock, work, target, object, assigned>>

\* Variant: the check for answers is missing.
LoadUnanswered(t) == LoadMessages(t, "evaluate")

\* complete_session.
LoadToComplete(t) ==
  /\ pc[t] = "messages"
  /\ row[target[t]].answered > 0
  /\ LoadMessages(t, "evaluate")

\* 422.
RefuseComplete(t) ==
  /\ pc[t] = "messages"
  /\ row[target[t]].answered = 0
  /\ Rollback(t)

\* abandon_session: by the messages loaded, the session is completed and
\* then evaluated in the background, or cancelled.
LoadToAbandon(t) == LoadMessages(t, "leave")

\* The UPDATE and the explicit commit.
Leave(t) ==
  LET s == target[t]
      answered == object[t][s].answered > 0
  IN  /\ pc[t] = "leave"
      /\ lock[s] = None
      /\ row' = [row EXCEPT ![s].status =
                   IF answered THEN "completed" ELSE "cancelled"]
      /\ IF answered
         THEN GoTo(t, "reload") /\ UNCHANGED <<old, lock, work, locals>>
         ELSE Close(t)

\* _background_finalize_and_prep_card, in a session of its own.
Reload(t) ==
  LET s == target[t]
  IN  /\ pc[t] = "reload"
      /\ object' = [object EXCEPT ![t][s] =
           [status |-> row[s].status, asked |-> row[s].asked,
            answered |-> row[s].answered, evaluations |-> 0]]
      /\ GoTo(t, "evaluate")
      /\ UNCHANGED <<row, old, lock, work, target, assigned, inserts>>

\* Variant: the status is left to the caller.
EvaluateOnly(t) ==
  LET s == target[t]
  IN  /\ pc[t] = "evaluate"
      /\ \E kinds \in SUBSET {"evaluation"} : Store(t, s, kinds)
      /\ assigned' = [assigned EXCEPT ![t][s] = "same"]
      /\ GoTo(t, "flush")
      /\ UNCHANGED <<row, old, lock, work, target, object>>

\* _finalize_session: the AI service returns some metrics, or none.
Evaluate(t) ==
  LET s == target[t]
  IN  /\ pc[t] = "evaluate"
      /\ \E kinds \in SUBSET {"evaluation"} : Store(t, s, kinds)
      /\ assigned' = [assigned EXCEPT ![t][s] =
           IF object[t][s].status = "completed" THEN "same" ELSE "completed"]
      /\ GoTo(t, "flush")
      /\ UNCHANGED <<row, old, lock, work, target, object>>

Flush(t) ==
  /\ pc[t] = "flush"
  /\ Update(t, target[t])
  /\ GoTo(t, "brief")

\* _ensure_prep_card_artifact: no prep card, one, or more than the query for
\* at most one allows.
FindBrief(t) ==
  LET found == row[target[t]].briefs
  IN  /\ pc[t] = "brief"
      /\ \/ found = 0 /\ GoTo(t, "write") /\ UNCHANGED <<row, old, lock, work, locals>>
         \/ found = 1 /\ GoTo(t, "commit") /\ UNCHANGED <<row, old, lock, work, locals>>
         \/ found > 1 /\ Rollback(t)

\* The prep card is generated.  After an abandon it goes with the
\* evaluation; else the task commits it alone.
WriteBrief(t) ==
  LET s == target[t]
  IN  /\ pc[t] = "write"
      /\ IF t \in Abandons
         THEN Store(t, s, {"brief"}) /\ UNCHANGED row
         ELSE row' = [row EXCEPT ![s].briefs = @ + 1] /\ UNCHANGED inserts
      /\ GoTo(t, "commit")
      /\ UNCHANGED <<old, lock, work, target, object, assigned>>

-----------------------------------------------------------------------------
(* expire_abandoned_sessions_task.                                         *)

Age(s) ==
  /\ s \notin old
  /\ old' = old \cup {s}
  /\ UNCHANGED <<row, lock, work, pc, locals>>

Stale == {s \in old : row[s].status = "active"}

\* Sessions that the run has loaded and has still to deal with.
Todo == {s \in Sessions : object[Expirer][s] # None}

\* First SELECT; a run that finds nothing changes nothing.
SelectStale ==
  /\ pc[Expirer] = "idle"
  /\ Stale # {}
  /\ object' = [object EXCEPT ![Expirer] = [s \in Sessions |->
       IF s \in Stale
       THEN [status |-> "active", asked |-> 0, answered |-> 0, evaluations |-> 0]
       ELSE None]]
  /\ GoTo(Expirer, "messages")
  /\ UNCHANGED <<row, old, lock, work, target, assigned, inserts>>

SelectMessages ==
  /\ pc[Expirer] = "messages"
  /\ object' = [object EXCEPT ![Expirer] = [s \in Sessions |->
       IF s \in Todo
       THEN [object[Expirer][s] EXCEPT !.asked = row[s].asked,
                                       !.answered = row[s].answered]
       ELSE None]]
  /\ GoTo(Expirer, "metrics")
  /\ UNCHANGED <<row, old, lock, work, target, assigned, inserts>>

SelectMetrics ==
  /\ pc[Expirer] = "metrics"
  /\ object' = [object EXCEPT ![Expirer] = [s \in Sessions |->
       IF s \in Todo
       THEN [object[Expirer][s] EXCEPT !.evaluations = row[s].evaluations]
       ELSE None]]
  /\ GoTo(Expirer, "next")
  /\ UNCHANGED <<row, old, lock, work, target, assigned, inserts>>

\* The run has dealt with s.
Assign(s, status) ==
  /\ assigned' = [assigned EXCEPT ![Expirer][s] = status]
  /\ object' = [object EXCEPT ![Expirer][s] = None]

\* Variant: a session without answers is passed over.
ExpireEvaluated(s) ==
  /\ pc[Expirer] = "next"
  /\ object[Expirer][s] # None
  /\ object[Expirer][s].evaluations > 0
  /\ Assign(s, "completed")
  /\ UNCHANGED <<row, old, lock, work, pc, target, inserts>>

\* A session without answers is cancelled, one that has metrics already is
\* completed.
ExpireAtOnce(s) ==
  /\ pc[Expirer] = "next"
  /\ object[Expirer][s] # None
  /\ \/ object[Expirer][s].evaluations > 0 /\ Assign(s, "completed")
     \/ /\ object[Expirer][s].evaluations = 0
        /\ object[Expirer][s].answered = 0
        /\ Assign(s, "cancelled")
  /\ UNCHANGED <<row, old, lock, work, pc, target, inserts>>

ExpireAnswered(s) ==
  /\ pc[Expirer] = "next"
  /\ object[Expirer][s] # None
  /\ object[Expirer][s].evaluations = 0
  /\ object[Expirer][s].answered > 0
  /\ target' = [target EXCEPT ![Expirer] = s]
  /\ GoTo(Expirer, "source")
  /\ UNCHANGED <<row, old, lock, work, object, assigned, inserts>>

\* _get_source_text: the query for the document sends the UPDATEs first.
ReadSource ==
  /\ pc[Expirer] = "source"
  /\ \/ Source[target[Expirer]] = "scenario"
     \/ /\ Source[target[Expirer]] = "document"
        /\ \A s \in Sessions : assigned[Expirer][s] = None
  /\ GoTo(Expirer, "evaluate")
  /\ UNCHANGED <<row, old, lock, work, locals>>

\* The name _select is bound in the branch for documents only: for a draft
\* its use raises UnboundLocalError, and the run ends.
SelectUnbound ==
  /\ pc[Expirer] = "source"
  /\ Source[target[Expirer]] = "draft"
  /\ Rollback(Expirer)

\* evaluate_session returns metrics or none, or it gives up.
EvaluateStale ==
  LET s == target[Expirer]
  IN  /\ pc[Expirer] = "evaluate"
      /\ \/ /\ \E kinds \in SUBSET {"evaluation"} : Store(Expirer, s, kinds)
            /\ Assign(s, "completed")
         \/ UNCHANGED inserts /\ Assign(s, "cancelled")
      /\ target' = [target EXCEPT ![Expirer] = None]
      /\ GoTo(Expirer, "next")
      /\ UNCHANGED <<row, old, lock, work>>

\* The UPDATEs of a query or of the commit, row by row.
FlushRow(s) ==
  /\ \/ pc[Expirer] = "source" /\ Source[target[Expirer]] = "document"
     \/ pc[Expirer] = "commit"
  /\ Update(Expirer, s)
  /\ UNCHANGED pc

FinishLoop ==
  /\ pc[Expirer] = "next"
  /\ Todo = {}
  /\ GoTo(Expirer, "commit")
  /\ UNCHANGED <<row, old, lock, work, locals>>

-----------------------------------------------------------------------------
SendStep(t) == LoadForSend(t) \/ Detected(t) \/ StoreAnswer(t) \/ AskQuestion(t)

CompleteStep(t) == LoadToComplete(t) \/ RefuseComplete(t)

AbandonStep(t) == LoadToAbandon(t) \/ Leave(t) \/ Reload(t)

FinalizeStep(t) == Evaluate(t) \/ Flush(t) \/ FindBrief(t) \/ WriteBrief(t)

\* What a request that has begun does next, except failing.
Proceed(t) ==
  \/ t \in Sends /\ SendStep(t)
  \/ t \in Completes /\ CompleteStep(t)
  \/ t \in Abandons /\ AbandonStep(t)
  \/ FinalizeStep(t)
  \/ Commit(t)

ExpirerStep ==
  \/ SelectStale \/ SelectMessages \/ SelectMetrics
  \/ \E s \in Sessions : ExpireAtOnce(s) \/ ExpireAnswered(s) \/ FlushRow(s)
  \/ ReadSource \/ SelectUnbound \/ EvaluateStale \/ FinishLoop
  \/ Commit(Expirer)

Next ==
  \/ \E s \in Sessions : Age(s)
  \/ \E t \in Requests : Proceed(t) \/ \E s \in Sessions : Open(t, s) \/ Refuse(t, s)
  \/ ExpirerStep
  \/ \E t \in Txns : Fail(t)

Spec == Init /\ [][Next]_vars

\* Time passes; a request that has begun goes on, since the AI client bounds
\* its calls; PostgreSQL hands a lock on to who waits for it; the task is run
\* again and again, and from some time on it is not killed.
FairSpec ==
  /\ Spec
  /\ \A s \in Sessions : WF_vars(Age(s))
  /\ \A t \in Requests : WF_vars(Proceed(t))
  /\ WF_vars(ExpirerStep)
  /\ \A s \in Sessions : SF_vars(FlushRow(s))
  /\ <>[][Fail(Expirer) => SelectUnbound]_vars

-----------------------------------------------------------------------------
(* What holds.                                                             *)

\* Whoever completes a session, on whatever snapshot, and whatever it
\* overwrites: a completed session has an answer (complete_session,
\* simulation.py:975-979; abandon_session, 1128; worker.py:142).
CompletedHasAnswer ==
  \A s \in Sessions : row[s].status = "completed" => row[s].answered > 0

\* Metrics are never visible on an active session: worker.py:135, "shouldn't
\* happen, but be safe".
EvaluatedHasEnded ==
  \A s \in Sessions : row[s].evaluations > 0 => row[s].status # "active"

\* Concurrent sends that have read the same number of questions overshoot
\* the session's limit by at most one question each but the first
\* (send_message, simulation.py:889-892).
TurnsBounded ==
  \A s \in Sessions :
    row[s].asked <= MaxTurns \/ row[s].asked < MaxTurns + Cardinality(Sends)

\* A stale session whose evaluation needs its draft.
Stuck(s) ==
  s \in Stale /\ Source[s] = "draft" /\ row[s].answered > 0

\* A session that its user has left ends, although runs of the task may be
\* killed, unless a session that stops every run is there (worker.py:121-178).
StaleSessionsEnd ==
  \A s \in Sessions :
    s \in Stale ~> row[s].status # "active" \/ \E d \in Sessions : Stuck(d)

-----------------------------------------------------------------------------
(* What the code's comments say and does not hold.                         *)

\* worker.py:91-92: "Sessions with at least one user answer -> evaluate +
\* mark completed; sessions with zero user answers -> mark cancelled".
EveryStaleSessionEnds ==
  \A s \in Sessions : s \in Stale ~> row[s].status # "active"
=============================================================================
