------------------------------ MODULE Rehearsal ------------------------------
(* The page of a running simulation and its dictation, against the session *)
(* at the server.  A request the page no longer waits for goes on at the   *)
(* server, and answers are sent before their transaction commits.  The     *)
(* steps within a transaction are in Sessions.                             *)
EXTENDS Naturals, Sequences, FiniteSets

CONSTANTS
  Requests,      \* messages, completions and abandons of the page
  MaxTurns,      \* persona_config.max_turns of the session
  PageMaxTurns,  \* MAX_TURNS of the page
  MaxLoads,      \* bound: page loads
  First,         \* the question POST /simulation/start has stored
  None

RehearsalAssumption ==
  /\ MaxTurns \in Nat \ {0} /\ PageMaxTurns \in Nat \ {0}
  /\ MaxLoads \in Nat \ {0}
  /\ None \notin Requests /\ First \notin Requests /\ First # None

VARIABLES
  view,          \* loading, the dialogue, the end, or another page
  messages,      \* what the page shows, but for the answer being sent
  answer,        \* the box has text
  interim,       \* dictated words not yet final
  recognition,   \* the browser's recognizer
  isAnalyzing, isCompleting,   \* the requests the page waits for
  history,       \* the history read for the page being loaded, or None
  loads,
  session,       \* the committed session
  txn            \* the transactions of the requests

page == <<view, messages, answer, interim, recognition, isAnalyzing,
          isCompleting, history, loads>>
vars == <<page, session, txn>>

Question(by) == [role |-> "assistant", by |-> by]
Answer(by) == [role |-> "user", by |-> by]
Message == [role : {"assistant", "user"}, by : Requests \cup {First}]

Session == [status : {"active", "completed", "cancelled"}, log : Seq(Message)]
Txn == [kind : {"message", "complete", "abandon"},
        pc : {"idle", "load", "work", "sent", "done"},
        status : {"active", "completed", "cancelled"},   \* what it will write
        new : Seq(Message),
        outcome : {"none", "detected", "turn", "last", "completed", "error"}]

TypeOK ==
  /\ view \in {"loading", "chat", "finished", "elsewhere"}
  /\ messages \in Seq(Message)
  /\ answer \in BOOLEAN /\ interim \in BOOLEAN
  /\ recognition \in {"off", "starting", "on", "stopping"}
  /\ isAnalyzing \in Requests \cup {None} /\ isCompleting \in Requests \cup {None}
  /\ history \in Session \cup {None} /\ loads \in 1..MaxLoads
  /\ session \in Session
  /\ txn \in [Requests -> Txn]

Init ==
  /\ view = "loading" /\ messages = <<>> /\ answer = FALSE /\ interim = FALSE
  /\ recognition = "off" /\ isAnalyzing = None /\ isCompleting = None
  /\ history = None /\ loads = 1
  /\ session = [status |-> "active", log |-> <<Question(First)>>]
  /\ txn = [r \in Requests |-> [kind |-> "message", pc |-> "idle",
                                status |-> "active", new |-> <<>>,
                                outcome |-> "none"]]

Of(log, role) == {i \in DOMAIN log : log[i].role = role}

-----------------------------------------------------------------------------
(* Loading the page.                                                       *)

ReadHistory ==
  /\ view = "loading" /\ history = None
  /\ history' = session
  /\ UNCHANGED <<view, messages, answer, interim, recognition, isAnalyzing,
                 isCompleting, loads, session, txn>>

\* A session that has ended belongs to its report or to the list.
LoadHistory ==
  /\ view = "loading" /\ history # None
  /\ IF history.status = "active"
     THEN view' = "chat" /\ messages' = history.log
     ELSE view' = "elsewhere" /\ UNCHANGED messages
  /\ history' = None
  /\ UNCHANGED <<answer, interim, recognition, isAnalyzing, isCompleting, loads,
                 session, txn>>

LoadFails ==
  /\ view = "loading"
  /\ view' = "elsewhere" /\ history' = None
  /\ UNCHANGED <<messages, answer, interim, recognition, isAnalyzing,
                 isCompleting, loads, session, txn>>

\* A page that goes takes its state with it: the recognizer is aborted, and
\* nobody waits for its requests.
Discard(to) ==
  /\ view' = to
  /\ messages' = <<>> /\ answer' = FALSE /\ interim' = FALSE
  /\ recognition' = "off" /\ isAnalyzing' = None /\ isCompleting' = None
  /\ history' = None

\* A link inside the application does not unload the document.
Leave ==
  /\ view # "elsewhere"
  /\ Discard("elsewhere")
  /\ UNCHANGED <<loads, session, txn>>

Open ==
  /\ view = "elsewhere" /\ loads < MaxLoads
  /\ Discard("loading")
  /\ loads' = loads + 1
  /\ UNCHANGED <<session, txn>>

-----------------------------------------------------------------------------
(* Dictation.                                                              *)

ChatPanel == view = "chat"

StartListening ==
  /\ ChatPanel /\ recognition = "off"
  /\ recognition' = "starting"
  /\ UNCHANGED <<view, messages, answer, interim, isAnalyzing, isCompleting,
                 history, loads, session, txn>>

OnStart ==
  /\ recognition = "starting"
  /\ recognition' = "on"
  /\ UNCHANGED <<view, messages, answer, interim, isAnalyzing, isCompleting,
                 history, loads, session, txn>>

StopListening == recognition' = IF recognition = "on" THEN "stopping" ELSE recognition

PressStop ==
  /\ ChatPanel /\ recognition = "on"
  /\ StopListening
  /\ UNCHANGED <<view, messages, answer, interim, isAnalyzing, isCompleting,
                 history, loads, session, txn>>

\* Final words go into the box, whatever is under way: a recognizer that is
\* stopped still delivers what it has heard.
OnResult ==
  /\ recognition \in {"on", "stopping"} /\ ChatPanel
  /\ \/ answer' = TRUE /\ interim' = FALSE
     \/ interim' = TRUE /\ UNCHANGED answer
  /\ UNCHANGED <<view, messages, recognition, isAnalyzing, isCompleting, history,
                 loads, session, txn>>

\* onerror and onend.
OnEnd ==
  /\ recognition # "off"
  /\ recognition' = "off"
  /\ UNCHANGED <<view, messages, answer, interim, isAnalyzing, isCompleting,
                 history, loads, session, txn>>

-----------------------------------------------------------------------------
(* The dialogue.                                                           *)

Issue(r, kind) ==
  /\ txn[r].pc = "idle"
  /\ txn' = [txn EXCEPT ![r].kind = kind, ![r].pc = "load"]

AnswerEnabled == ChatPanel /\ isAnalyzing = None
SubmitEnabled == AnswerEnabled /\ answer
\* Ending the session is not offered while an answer is analysed; an answer
\* may be sent while the session is being completed.
CompleteEnabled == AnswerEnabled /\ isCompleting = None

\* The page's own count of turns.
TurnCount == Cardinality(Of(messages, "assistant"))
IsLastQuestion == ChatPanel /\ TurnCount >= PageMaxTurns

TypeAnswer ==
  /\ AnswerEnabled
  /\ answer' = ~answer
  /\ UNCHANGED <<view, messages, interim, recognition, isAnalyzing, isCompleting,
                 history, loads, session, txn>>

SubmitAnswer(r) ==
  /\ Issue(r, "message")
  /\ isAnalyzing' = r
  /\ answer' = FALSE
  /\ UNCHANGED <<view, messages, isCompleting, history, loads, session>>

HandleSubmit(r) ==
  /\ SubmitEnabled
  /\ SubmitAnswer(r)
  /\ StopListening
  /\ interim' = FALSE

\* The 90 seconds are over: the box, or a text that says so, is sent.
SubmitOnTimeout(r) ==
  /\ AnswerEnabled
  /\ SubmitAnswer(r)
  /\ UNCHANGED <<interim, recognition>>

Answered(r, outcomes) ==
  /\ isAnalyzing = r /\ txn[r].pc \in {"sent", "done"}
  /\ txn[r].outcome \in outcomes
  /\ isAnalyzing' = None
  /\ UNCHANGED <<interim, recognition, isCompleting, history, loads, session, txn>>

\* The answer and the next question take the place of what was shown.
ReceiveTurn(r) ==
  /\ Answered(r, {"turn", "last"})
  /\ messages' = messages \o txn[r].new
  /\ view' = IF txn[r].outcome = "last" THEN "finished" ELSE view
  /\ UNCHANGED answer

\* An answer that the model takes for generated returns to the box, unless the
\* timer had sent it.
ReceiveDetected(r) ==
  /\ Answered(r, {"detected"})
  /\ answer' \in BOOLEAN
  /\ UNCHANGED <<view, messages>>

\* Variant: the answer that failed stays in the dialogue.
FailedAnswerStays(r) ==
  /\ isAnalyzing = r
  /\ isAnalyzing' = None
  /\ messages' = Append(messages, Answer(r))
  /\ UNCHANGED <<view, answer, interim, recognition, isCompleting, history,
                 loads, session, txn>>

\* An error, or a lost response: the answer is taken back in the same way.
MessageFails(r) ==
  /\ isAnalyzing = r
  /\ isAnalyzing' = None
  /\ answer' \in BOOLEAN
  /\ UNCHANGED <<view, messages, interim, recognition, isCompleting, history,
                 loads, session, txn>>

HandleComplete(r) ==
  /\ CompleteEnabled /\ Of(messages, "user") # {}
  /\ Issue(r, "complete")
  /\ isCompleting' = r
  /\ UNCHANGED <<view, messages, answer, interim, recognition, isAnalyzing,
                 history, loads, session>>

ReceiveCompleted(r) ==
  /\ isCompleting = r /\ txn[r].pc \in {"sent", "done"}
  /\ txn[r].outcome = "completed"
  /\ view' = IF ChatPanel THEN "finished" ELSE view
  /\ isCompleting' = None
  /\ UNCHANGED <<messages, answer, interim, recognition, isAnalyzing, history,
                 loads, session, txn>>

CompleteFails(r) ==
  /\ isCompleting = r
  /\ isCompleting' = None
  /\ UNCHANGED <<view, messages, answer, interim, recognition, isAnalyzing,
                 history, loads, session, txn>>

\* A reload, or the tab is closed and opened again: unless the page shows the
\* end, an abandon goes out.
BeforeUnload(r) ==
  /\ view \in {"loading", "chat"} /\ loads < MaxLoads
  /\ Issue(r, "abandon")
  /\ Discard("loading")
  /\ loads' = loads + 1
  /\ UNCHANGED session

-----------------------------------------------------------------------------
(* The server.                                                             *)

Move(r, new) ==
  /\ txn' = [txn EXCEPT ![r] = new]
  /\ UNCHANGED page

Refused(r) == [txn[r] EXCEPT !.pc = "done", !.outcome = "error"]

\* What a request does with the session it has loaded.  At the turn limit the
\* answer completes the session.
Planned(r) ==
  LET answered == Of(session.log, "user") # {}
      asked == Cardinality(Of(session.log, "assistant"))
  IN CASE session.status # "active" -> {Refused(r)}
       [] txn[r].kind = "message" ->
            {[txn[r] EXCEPT !.pc = "sent", !.outcome = "detected"],
             IF asked >= MaxTurns
             THEN [txn[r] EXCEPT !.pc = "work", !.status = "completed",
                                 !.new = <<Answer(r)>>, !.outcome = "last"]
             ELSE [txn[r] EXCEPT !.pc = "work",
                                 !.new = <<Answer(r), Question(r)>>,
                                 !.outcome = "turn"]}
       [] txn[r].kind = "complete" ->
            {IF answered THEN [txn[r] EXCEPT !.pc = "work", !.status = "completed",
                                             !.outcome = "completed"]
             ELSE Refused(r)}
       [] OTHER ->
            {[txn[r] EXCEPT !.pc = "work", !.outcome = "completed",
                            !.status = IF answered THEN "completed" ELSE "cancelled"]}

LoadSession(r) ==
  /\ txn[r].pc = "load"
  /\ \E new \in Planned(r) : Move(r, new)
  /\ UNCHANGED session

\* The model fails: 502.  An abandon asks it nothing.
AiFails(r) ==
  /\ txn[r].pc = "work" /\ txn[r].kind # "abandon"
  /\ Move(r, Refused(r))
  /\ UNCHANGED session

\* The flush of a status waits for the row's lock.
Respond(r) ==
  /\ txn[r].pc = "work"
  /\ txn[r].status # "active" =>
       ~\E q \in Requests : txn[q].pc = "sent" /\ txn[q].status # "active"
  /\ Move(r, [txn[r] EXCEPT !.pc = "sent"])
  /\ UNCHANGED session

Commit(r) ==
  /\ txn[r].pc = "sent"
  /\ session' = [status |-> IF txn[r].status = "active" THEN session.status
                            ELSE txn[r].status,
                 log |-> session.log \o txn[r].new]
  /\ Move(r, [txn[r] EXCEPT !.pc = "done"])

Next ==
  \/ ReadHistory \/ LoadHistory \/ LoadFails \/ Leave \/ Open
  \/ StartListening \/ OnStart \/ PressStop \/ OnResult \/ OnEnd \/ TypeAnswer
  \/ \E r \in Requests :
       \/ HandleSubmit(r) \/ SubmitOnTimeout(r) \/ ReceiveTurn(r)
       \/ ReceiveDetected(r) \/ MessageFails(r)
       \/ HandleComplete(r) \/ ReceiveCompleted(r) \/ CompleteFails(r)
       \/ BeforeUnload(r)
       \/ LoadSession(r) \/ AiFails(r) \/ Respond(r) \/ Commit(r)

Spec == Init /\ [][Next]_vars

-----------------------------------------------------------------------------
(* Properties.                                                             *)

\* Whatever was retried, lost or sent again, the page shows a message at most
\* once and none that the server has not stored or is about to commit
\* (simulation/[id]/page.tsx:163-182, 209).
ShownIsRecorded ==
  /\ \A i, j \in DOMAIN messages : messages[i] = messages[j] => i = j
  /\ \A i \in DOMAIN messages :
       \/ \E j \in DOMAIN session.log : session.log[j] = messages[i]
       \/ \E r \in Requests : txn[r].pc = "sent" /\ messages[i] \in {txn[r].new[j] : j \in DOMAIN txn[r].new}
=============================================================================
