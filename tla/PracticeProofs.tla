--------------------------- MODULE PracticeProofs ---------------------------
(* Theorems about the pages of a rehearsal: the choice of an opponent       *)
(* (Practice), the dialogue (Rehearsal), the report and its rerun (Report).  *)
EXTENDS MCPractice, GuestProofs, FiniteSetTheorems

-----------------------------------------------------------------------------
(* Practice.                                                               *)

\* Before the first answer has come nothing can have been chosen.
P_Inv ==
  /\ P!TypeOK
  /\ stage = "all" => /\ practiceView = "loading" /\ selectedRole = None
                       /\ askedPage = 0 /\ isStarting = None
  /\ P!OneOpponent

LEMMA P_Init == ASSUME P!PracticeAssumption, P!Init PROVE P_Inv
<1>1. /\ sessionTotal \in 0..MaxPages /\ sessionPage \in 1..(MaxPages + 1)
      /\ askedPage \in 0..MaxPages
  BY DEF P!PracticeAssumption, P!Init
<1>2. /\ canStartSimulation \in BOOLEAN /\ upgradeOpen \in BOOLEAN
      /\ personasKnown \in BOOLEAN
  BY DEF P!Init
<1> QED
  BY <1>1, <1>2 DEF P!Init, P_Inv, P!TypeOK, P!OneOpponent

\* What a filled form is sent as.
LEMMA P_PayloadType == ASSUME P!TypeOK PROVE P!PayloadOf \in P!Payload
BY DEF P!TypeOK, P!PayloadOf, P!Payload

LEMMA P_Step == ASSUME P!PracticeAssumption, P_Inv, [P!Next]_(P!vars) PROVE P_Inv'
<1> USE DEF P_Inv, P!OneOpponent
<1>1. CASE P!FetchAll
  BY <1>1 DEF P!FetchAll, P!TypeOK, P!PracticeAssumption, P!HistoryOrSetup, P!Materials
<1>2. CASE P!FetchDraft
  BY <1>2 DEF P!FetchDraft, P!TypeOK, P!list, P!Here
<1>3. CASE P!FetchMeeting
  <2>1. documents' \subseteq P!Materials
    BY <1>3 DEF P!FetchMeeting, P!TypeOK
  <2>2. /\ selectedRole' \in Roles \cup {None}
        /\ selectedUserPersonaId' \in Personas \cup {None}
        /\ linkedMeetingId' \in Meetings \cup {None}
        /\ selectedRole' = None \/ selectedUserPersonaId' = None
    BY <1>3 DEF P!FetchMeeting, P!TypeOK, P!PracticeAssumption
  <2> QED
    BY <1>3, <2>1, <2>2 DEF P!FetchMeeting, P!TypeOK, P!list
<1>4. ASSUME NEW p \in 1..MaxPages, P!FetchSessionPage(p) PROVE P_Inv'
  BY <1>4 DEF P!FetchSessionPage, P!TypeOK, P!loaded, P!form, P!HistoryPanel
<1>5. CASE P!ReceiveSessionPage
  <2>1. /\ sessionTotal' \in 0..MaxPages /\ sessionPage' \in 1..(MaxPages + 1)
        /\ askedPage' \in 0..MaxPages
        /\ practiceView' \in {"history", "setup"}
    BY <1>5 DEF P!ReceiveSessionPage, P!TypeOK, P!PracticeAssumption, P!HistoryOrSetup
  <2>2. askedPage # 0 /\ UNCHANGED <<url, stage, found, documents, personasKnown, selectedDoc,
                    selectedRole, selectedUserPersonaId, selectedDomain, linkedMeetingId,
                    canStartSimulation, upgradeOpen, isStarting, started>>
    BY <1>5 DEF P!ReceiveSessionPage, P!loaded, P!form
  <2>3. stage # "all"
    BY <2>2
  <2>4. P!TypeOK'
    BY <2>1, <2>2 DEF P!TypeOK
  <2> QED
    BY <2>2, <2>3, <2>4
<1>6. CASE P!PageFails
  BY <1>6 DEF P!PageFails, P!TypeOK, P!PracticeAssumption, P!loaded, P!form
<1>7. ASSUME NEW status \in DOMAIN P!CardOpens, P!HandleSessionClick(status) PROVE P_Inv'
  BY <1>7 DEF P!HandleSessionClick, P!CardOpens, P!TypeOK, P!loaded, P!form, P!list, P!HistoryPanel
<1>8. CASE P!NewSession \/ P!BackToHistory
  BY <1>8 DEF P!NewSession, P!BackToHistory, P!TypeOK, P!loaded, P!form, P!list, P!HistoryPanel
<1>9. CASE P!SwitchTab
  BY <1>9 DEF P!SwitchTab, P!Fill, P!SetupPanel, P!TypeOK, P!loaded, P!list
<1>10. ASSUME NEW r \in Roles, P!SelectRole(r) PROVE P_Inv'
  BY <1>10 DEF P!SelectRole, P!Fill, P!SetupPanel, P!TypeOK, P!loaded, P!list
<1>11. ASSUME NEW p \in Personas, P!SelectPersona(p) PROVE P_Inv'
  BY <1>11 DEF P!SelectPersona, P!Fill, P!SetupPanel, P!TypeOK, P!loaded, P!list
<1>12. ASSUME NEW domain \in {"listed", "blank", "custom"}, P!SelectDomain(domain) PROVE P_Inv'
  BY <1>12 DEF P!SelectDomain, P!Fill, P!SetupPanel, P!TypeOK, P!loaded, P!list
<1>13. ASSUME NEW d \in P!Materials, P!SelectDoc(d) PROVE P_Inv'
  BY <1>13 DEF P!SelectDoc, P!Fill, P!SetupPanel, P!TypeOK, P!loaded, P!list
<1>14. CASE P!HandleStart
  <2>1. isStarting' \in P!Payload \cup {None} /\ upgradeOpen' \in BOOLEAN
    BY <1>14, P_PayloadType DEF P!HandleStart, P!TypeOK
  <2>2. /\ practiceView = "setup"
        /\ UNCHANGED <<url, practiceView, stage, found, documents, personasKnown, selectedDoc,
                       selectedRole, selectedUserPersonaId, selectedDomain, linkedMeetingId,
                       sessionTotal, sessionPage, askedPage, canStartSimulation, started>>
    BY <1>14 DEF P!HandleStart, P!LaunchEnabled, P!SetupPanel, P!loaded, P!form, P!list
  <2>3. P!TypeOK'
    BY <2>1, <2>2 DEF P!TypeOK
  <2> QED
    BY <2>2, <2>3
<1>15. CASE P!ReceiveStart
  <2>1. started' \subseteq P!Payload
    BY <1>15 DEF P!ReceiveStart, P!TypeOK
  <2>2. /\ practiceView' = "session" /\ isStarting' = None
        /\ UNCHANGED <<url, stage, found, documents, personasKnown, selectedDoc, selectedRole,
                       selectedUserPersonaId, selectedDomain, linkedMeetingId, sessionTotal,
                       sessionPage, askedPage, canStartSimulation, upgradeOpen>>
        /\ isStarting # None
    BY <1>15 DEF P!ReceiveStart, P!loaded, P!form, P!list
  <2>3. stage # "all"
    BY <1>15, <2>2
  <2>4. P!TypeOK'
    BY <2>1, <2>2 DEF P!TypeOK
  <2> QED
    BY <2>2, <2>3, <2>4
<1>16. CASE P!StartFails
  BY <1>16 DEF P!StartFails, P!TypeOK, P!loaded, P!form, P!list
<1>17. CASE P!CloseUpgrade
  <2>1. UNCHANGED <<url, practiceView, stage, found, documents, personasKnown, selectedDoc,
                    selectedRole, selectedUserPersonaId, selectedDomain, linkedMeetingId,
                    sessionTotal, sessionPage, askedPage, canStartSimulation, isStarting, started>>
    BY <1>17 DEF P!CloseUpgrade, P!loaded, P!form, P!list
  <2>2. upgradeOpen' \in BOOLEAN
    BY <1>17 DEF P!CloseUpgrade
  <2>3. P!TypeOK'
    <3>1. url' = url /\ practiceView' = practiceView /\ stage' = stage /\ found' = found
          /\ documents' = documents /\ personasKnown' = personasKnown
      BY <2>1
    <3>2. selectedDoc' = selectedDoc /\ selectedRole' = selectedRole
          /\ selectedUserPersonaId' = selectedUserPersonaId
          /\ selectedDomain' = selectedDomain /\ linkedMeetingId' = linkedMeetingId
      BY <2>1
    <3>3. sessionTotal' = sessionTotal /\ sessionPage' = sessionPage /\ askedPage' = askedPage
          /\ canStartSimulation' = canStartSimulation /\ isStarting' = isStarting
          /\ started' = started
      BY <2>1
    <3> QED
      BY <3>1, <3>2, <3>3, <2>2, SMTT(60) DEF P!TypeOK
  <2> QED
    BY <2>1, <2>3
<1>18. CASE UNCHANGED P!vars
  BY <1>18 DEF P!vars, P!TypeOK, P!loaded, P!form, P!list
<1> QED
  BY <1>1, <1>2, <1>3, <1>4, <1>5, <1>6, <1>7, <1>8, <1>9, <1>10, <1>11, <1>12, <1>13,
     <1>14, <1>15, <1>16, <1>17, <1>18 DEF P!Next

-----------------------------------------------------------------------------
(* Rehearsal.                                                              *)

Items(s) == {s[i] : i \in DOMAIN s}
Once(s) == \A i, j \in DOMAIN s : s[i] = s[j] => i = j

LEMMA ConcatItems ==
  ASSUME NEW S, NEW s \in Seq(S), NEW t \in Seq(S)
  PROVE  Items(s \o t) = Items(s) \cup Items(t)
<1>1. \A x \in Items(s) : x \in Items(s \o t)
  BY DEF Items
<1>2. \A x \in Items(t) : x \in Items(s \o t)
  <2> SUFFICES ASSUME NEW j \in DOMAIN t PROVE t[j] \in Items(s \o t)
    BY DEF Items
  <2>1. Len(s) + j \in DOMAIN (s \o t) /\ (s \o t)[Len(s) + j] = t[j]
    OBVIOUS
  <2> QED
    BY <2>1 DEF Items
<1>3. \A x \in Items(s \o t) : x \in Items(s) \cup Items(t)
  <2> SUFFICES ASSUME NEW i \in DOMAIN (s \o t)
               PROVE  (s \o t)[i] \in Items(s) \cup Items(t)
    BY DEF Items
  <2>1. i \in 1..Len(s) \/ i - Len(s) \in 1..Len(t)
    OBVIOUS
  <2> QED
    BY <2>1 DEF Items
<1> QED
  BY <1>1, <1>2, <1>3

LEMMA ConcatOnce ==
  ASSUME NEW S, NEW s \in Seq(S), NEW t \in Seq(S), Once(s), Once(t),
         Items(s) \cap Items(t) = {}
  PROVE  Once(s \o t)
<1> SUFFICES ASSUME NEW i \in DOMAIN (s \o t), NEW j \in DOMAIN (s \o t),
                    (s \o t)[i] = (s \o t)[j]
             PROVE  i = j
  BY DEF Once
<1>1. /\ i \in 1..(Len(s) + Len(t)) /\ j \in 1..(Len(s) + Len(t))
      /\ Len(s) \in Nat /\ Len(t) \in Nat
  OBVIOUS
<1>2. \A k \in 1..Len(s) : (s \o t)[k] = s[k] /\ s[k] \in Items(s)
  BY DEF Items
<1>3. \A k \in (Len(s) + 1)..(Len(s) + Len(t)) :
        k - Len(s) \in DOMAIN t /\ (s \o t)[k] = t[k - Len(s)] /\ t[k - Len(s)] \in Items(t)
  BY DEF Items
<1>4. CASE i <= Len(s) /\ j <= Len(s)
  BY <1>1, <1>2, <1>4 DEF Once
<1>5. CASE i > Len(s) /\ j > Len(s)
  BY <1>1, <1>3, <1>5 DEF Once
<1>6. CASE i <= Len(s) /\ j > Len(s)
  BY <1>1, <1>2, <1>3, <1>6
<1>7. CASE i > Len(s) /\ j <= Len(s)
  BY <1>1, <1>2, <1>3, <1>7
<1> QED
  BY <1>1, <1>4, <1>5, <1>6, <1>7

\* What a request has still to write, what the page shows, and what the log
\* and the history read for a load hold.
H_Log ==
  /\ Once(session.log)
  /\ \A m \in Items(session.log) : m.by # First => txn[m.by].pc = "done"
H_New ==
  \A r \in PageRequests :
    /\ txn[r].new \in {<<>>, <<H!Answer(r)>>, <<H!Answer(r), H!Question(r)>>}
    /\ txn[r].pc = "done" /\ txn[r].outcome \in {"turn", "last"}
         => Items(txn[r].new) \subseteq Items(session.log)
H_Shown ==
  /\ Once(messages)
  /\ \A m \in Items(messages) :
       \/ m \in Items(session.log)
       \/ \E r \in PageRequests : txn[r].pc = "sent" /\ m \in Items(txn[r].new)
\* The answer the page waits for is not shown yet.
H_Waiting ==
  /\ dialogueView = "loading" => isAnalyzing = None
  /\ isAnalyzing # None =>
       /\ txn[isAnalyzing].pc # "idle"
       /\ \A m \in Items(messages) : m.by # isAnalyzing
H_History ==
  history # None => Once(history.log) /\ Items(history.log) \subseteq Items(session.log)

H_Inv == H!TypeOK /\ H_Log /\ H_New /\ H_Shown /\ H_Waiting /\ H_History

LEMMA H_Init == ASSUME H!RehearsalAssumption, H!Init PROVE H_Inv
<1>1. H!Question(First) \in H!Message
  BY DEF H!Question, H!Message
<1>2. session \in H!Session
  BY <1>1 DEF H!Init, H!Session
<1>3. txn \in [PageRequests -> H!Txn]
  BY DEF H!Init, H!Txn
<1>4. H!TypeOK
  <2>1. <<>> \in Seq(H!Message)
    OBVIOUS
  <2>2. loads \in 1..MaxLoads
    BY DEF H!Init, H!RehearsalAssumption
  <2>3. /\ dialogueView = "loading" /\ messages = <<>> /\ dialogueAnswer = FALSE /\ interim = FALSE
        /\ recognition = "off" /\ isAnalyzing = None /\ isCompleting = None /\ history = None
    BY DEF H!Init
  <2> QED
    BY <1>2, <1>3, <2>1, <2>2, <2>3 DEF H!TypeOK
<1>5. H_Log
  BY DEF H!Init, H_Log, Once, Items, H!Question
<1>6. H_New
  BY DEF H!Init, H_New
<1>7. H_Shown /\ H_Waiting /\ H_History
  BY DEF H!Init, H_Shown, H_Waiting, H_History, Once, Items
<1> QED
  BY <1>4, <1>5, <1>6, <1>7 DEF H_Inv

\* Transactions: what a step of one makes of it.
LEMMA H_TxnType ==
  ASSUME H!RehearsalAssumption, H!TypeOK, NEW r \in PageRequests, NEW new \in H!Txn,
         txn' = [txn EXCEPT ![r] = new]
  PROVE  txn' \in [PageRequests -> H!Txn]
BY DEF H!TypeOK

LEMMA H_Planned ==
  ASSUME H!RehearsalAssumption, H!TypeOK, NEW r \in PageRequests, NEW new \in H!Planned(r)
  PROVE  /\ new \in H!Txn
         /\ new.new \in {txn[r].new, <<H!Answer(r)>>, <<H!Answer(r), H!Question(r)>>}
         /\ new.pc # "idle"
         /\ new.pc = "done" => new.outcome = "error"
<1>1. txn[r] \in H!Txn
  BY DEF H!TypeOK
<1>2. <<H!Answer(r)>> \in Seq(H!Message) /\ <<H!Answer(r), H!Question(r)>> \in Seq(H!Message)
  BY DEF H!Answer, H!Question, H!Message
<1>3. H!Refused(r) = [txn[r] EXCEPT !.pc = "done", !.outcome = "error"]
  BY DEF H!Refused
<1> DEFINE Sent == [txn[r] EXCEPT !.pc = "sent", !.outcome = "detected"]
           Closing == [txn[r] EXCEPT !.pc = "work", !.status = "completed",
                                     !.new = <<H!Answer(r)>>, !.outcome = "last"]
           Turn == [txn[r] EXCEPT !.pc = "work", !.new = <<H!Answer(r), H!Question(r)>>,
                                  !.outcome = "turn"]
           Done(st) == [txn[r] EXCEPT !.pc = "work", !.outcome = "completed", !.status = st]
<1>4. \/ new \in {H!Refused(r), Sent, Closing, Turn}
      \/ new \in {Done("completed"), Done("cancelled")}
  <2>1. CASE session.status # "active"
    BY <2>1 DEF H!Planned
  <2>2. CASE session.status = "active" /\ txn[r].kind = "message"
    BY <2>2 DEF H!Planned
  <2>3. CASE session.status = "active" /\ txn[r].kind = "complete"
    BY <2>3 DEF H!Planned
  <2>4. CASE session.status = "active" /\ txn[r].kind = "abandon"
    BY <2>4 DEF H!Planned
  <2>5. txn[r].kind \in {"message", "complete", "abandon"}
    BY <1>1 DEF H!Txn
  <2> QED
    BY <2>1, <2>2, <2>3, <2>4, <2>5
<1>5. CASE new = H!Refused(r)
  BY <1>1, <1>3, <1>5 DEF H!Txn
<1>6. CASE new \in {Sent, Closing, Turn}
  BY <1>1, <1>2, <1>6 DEF H!Txn
<1>7. CASE new \in {Done("completed"), Done("cancelled")}
  BY <1>1, <1>7 DEF H!Txn
<1> QED
  BY <1>4, <1>5, <1>6, <1>7

LEMMA H_Type ==
  ASSUME H!RehearsalAssumption, H!TypeOK, [H!Next]_(H!vars) PROVE H!TypeOK'
<1> USE DEF H!TypeOK, H!ChatPanel
<1>0. <<>> \in Seq(H!Message)
  OBVIOUS
<1>1. ASSUME NEW r \in PageRequests, NEW k \in {"message", "complete", "abandon"}, H!Issue(r, k)
      PROVE  txn' \in [PageRequests -> H!Txn]
  BY <1>1 DEF H!Issue, H!Txn
<1>2. CASE H!ReadHistory \/ H!LoadFails
  BY <1>2 DEF H!ReadHistory, H!LoadFails
<1>3. CASE H!LoadHistory
  BY <1>3 DEF H!LoadHistory, H!Session
<1>4. CASE H!Leave
  BY <1>0, <1>4 DEF H!Leave, H!Discard
<1>5. CASE H!Open
  <2>1. loads' \in 1..MaxLoads
    BY <1>5 DEF H!Open, H!RehearsalAssumption
  <2>2. UNCHANGED <<session, txn>>
    BY <1>5 DEF H!Open
  <2>3. /\ dialogueView' = "loading" /\ messages' = <<>> /\ dialogueAnswer' = FALSE
        /\ interim' = FALSE /\ recognition' = "off" /\ isAnalyzing' = None
        /\ isCompleting' = None /\ history' = None
    BY <1>5 DEF H!Open, H!Discard
  <2> QED
    BY <1>0, <2>1, <2>2, <2>3
<1>6. CASE H!StartListening \/ H!OnStart \/ H!PressStop \/ H!OnResult \/ H!OnEnd \/ H!TypeAnswer
  BY <1>6 DEF H!StartListening, H!OnStart, H!PressStop, H!StopListening, H!OnResult, H!OnEnd,
              H!TypeAnswer
<1>7. ASSUME NEW r \in PageRequests, H!HandleSubmit(r) \/ H!SubmitOnTimeout(r) PROVE H!TypeOK'
  BY <1>1, <1>7 DEF H!HandleSubmit, H!SubmitOnTimeout, H!SubmitAnswer, H!StopListening
<1>8. ASSUME NEW r \in PageRequests, H!ReceiveTurn(r) PROVE H!TypeOK'
  <2>1. txn[r].new \in Seq(H!Message)
    BY DEF H!Txn
  <2>2. messages' \in Seq(H!Message)
    BY <1>8, <2>1 DEF H!ReceiveTurn
  <2> QED
    BY <1>8, <2>2 DEF H!ReceiveTurn, H!Answered
<1>9. ASSUME NEW r \in PageRequests, H!ReceiveDetected(r) \/ H!MessageFails(r) PROVE H!TypeOK'
  BY <1>9 DEF H!ReceiveDetected, H!MessageFails, H!Answered
<1>10. ASSUME NEW r \in PageRequests, H!HandleComplete(r) PROVE H!TypeOK'
  BY <1>1, <1>10 DEF H!HandleComplete
<1>11. ASSUME NEW r \in PageRequests, H!ReceiveCompleted(r) \/ H!CompleteFails(r) PROVE H!TypeOK'
  BY <1>11 DEF H!ReceiveCompleted, H!CompleteFails
<1>12. ASSUME NEW r \in PageRequests, H!BeforeUnload(r) PROVE H!TypeOK'
  <2>1. loads' \in 1..MaxLoads
    BY <1>12 DEF H!BeforeUnload, H!RehearsalAssumption
  <2>2. txn' \in [PageRequests -> H!Txn] /\ session' = session
    BY <1>1, <1>12 DEF H!BeforeUnload
  <2>3. /\ dialogueView' = "loading" /\ messages' = <<>> /\ dialogueAnswer' = FALSE
        /\ interim' = FALSE /\ recognition' = "off" /\ isAnalyzing' = None
        /\ isCompleting' = None /\ history' = None
    BY <1>12 DEF H!BeforeUnload, H!Discard
  <2> QED
    BY <1>0, <2>1, <2>2, <2>3
<1>13. ASSUME NEW r \in PageRequests, H!LoadSession(r) PROVE H!TypeOK'
  <2>1. txn' \in [PageRequests -> H!Txn]
    BY <1>13, H_Planned, H_TxnType DEF H!LoadSession, H!Move
  <2> QED
    BY <1>13, <2>1 DEF H!LoadSession, H!Move, H!page
<1>14. ASSUME NEW r \in PageRequests, H!AiFails(r) \/ H!Respond(r) PROVE H!TypeOK'
  <2>1. txn' \in [PageRequests -> H!Txn]
    <3>1. \E new \in {[txn[r] EXCEPT !.pc = "done", !.outcome = "error"],
                     [txn[r] EXCEPT !.pc = "sent"]} : txn' = [txn EXCEPT ![r] = new]
      BY <1>14 DEF H!AiFails, H!Respond, H!Refused, H!Move
    <3>2. \A new \in {[txn[r] EXCEPT !.pc = "done", !.outcome = "error"],
                     [txn[r] EXCEPT !.pc = "sent"]} : new \in H!Txn
      BY DEF H!Txn
    <3> QED
      BY <3>1, <3>2, H_TxnType
  <2> QED
    BY <1>14, <2>1 DEF H!AiFails, H!Respond, H!Move, H!page
<1>15. ASSUME NEW r \in PageRequests, H!Commit(r) PROVE H!TypeOK'
  <2>1. txn' \in [PageRequests -> H!Txn]
    BY <1>15 DEF H!Commit, H!Move, H!Txn
  <2>2. session' \in H!Session
    BY <1>15 DEF H!Commit, H!Txn, H!Session
  <2> QED
    BY <1>15, <2>1, <2>2 DEF H!Commit, H!Move, H!page
<1>16. CASE UNCHANGED H!vars
  BY <1>16 DEF H!vars, H!page
<1> QED
  BY <1>2, <1>3, <1>4, <1>5, <1>6, <1>7, <1>8, <1>9, <1>10, <1>11, <1>12, <1>13, <1>14, <1>15,
     <1>16 DEF H!Next

LEMMA H_LogType ==
  ASSUME H!TypeOK
  PROVE  /\ session.log \in Seq(H!Message)
         /\ \A m \in Items(session.log) : m.by # First => m.by \in PageRequests
<1>1. session \in H!Session
  BY DEF H!TypeOK
<1>2. session.log \in Seq(H!Message)
  BY <1>1 DEF H!Session
<1>3. \A m \in Items(session.log) : m \in H!Message
  BY <1>2 DEF Items
<1> QED
  BY <1>2, <1>3 DEF H!Message

\* A request that has not gone out has no message, shown or stored.
LEMMA H_IdleIsNotShown ==
  ASSUME H!RehearsalAssumption, H_Inv, NEW r \in PageRequests, txn[r].pc = "idle"
  PROVE  \A m \in Items(messages) : m.by # r
<1> SUFFICES ASSUME NEW m \in Items(messages), m.by = r PROVE FALSE
  OBVIOUS
<1>1. CASE m \in Items(session.log)
  BY <1>1 DEF H_Inv, H_Log, H!RehearsalAssumption
<1>2. ASSUME NEW q \in PageRequests, txn[q].pc = "sent", m \in Items(txn[q].new) PROVE FALSE
  <2>1. m \in {H!Answer(q), H!Question(q)}
    BY <1>2 DEF H_Inv, H_New, Items
  <2> QED
    BY <1>2, <2>1 DEF H!Answer, H!Question
<1> QED
  BY <1>1, <1>2 DEF H_Inv, H_Shown

\* What the page does by itself, sending included: it shows the same or
\* nothing, and waits for the same answer, for none, or for one just sent.
LEMMA H_Client ==
  ASSUME H!RehearsalAssumption, H_Inv, H!TypeOK', session' = session,
         \/ txn' = txn
         \/ \E r \in PageRequests, k \in {"message", "complete", "abandon"} : H!Issue(r, k),
         messages' \in {messages, <<>>}, history' \in {history, None},
         \/ isAnalyzing' \in {isAnalyzing, None}
         \/ isAnalyzing' \in PageRequests /\ H!Issue(isAnalyzing', "message"),
         dialogueView' = "loading" => isAnalyzing' = None
  PROVE  H_Inv'
<1>1. \A q \in PageRequests :
        /\ txn'[q].new = txn[q].new /\ txn'[q].outcome = txn[q].outcome
        /\ txn'[q].pc # txn[q].pc => txn[q].pc = "idle" /\ txn'[q].pc = "load"
        /\ txn'[q].pc = "idle" => txn[q].pc = "idle"
  <2>1. txn \in [PageRequests -> H!Txn]
    BY DEF H_Inv, H!TypeOK
  <2>2. CASE txn' = txn
    BY <2>2
  <2>3. ASSUME NEW r \in PageRequests, NEW k \in {"message", "complete", "abandon"}, H!Issue(r, k),
               NEW q \in PageRequests
        PROVE  /\ txn'[q].new = txn[q].new /\ txn'[q].outcome = txn[q].outcome
               /\ txn'[q].pc # txn[q].pc => txn[q].pc = "idle" /\ txn'[q].pc = "load"
               /\ txn'[q].pc = "idle" => txn[q].pc = "idle"
    <3>1. q # r => txn'[q] = txn[q]
      BY <2>1, <2>3 DEF H!Issue
    <3>2. /\ txn'[r].new = txn[r].new /\ txn'[r].outcome = txn[r].outcome
          /\ txn[r].pc = "idle" /\ txn'[r].pc = "load"
      BY <2>1, <2>3 DEF H!Issue, H!Txn
    <3> QED
      BY <3>1, <3>2
  <2> QED
    BY <2>2, <2>3
<1>2. H_Log'
  <2> SUFFICES ASSUME NEW m \in Items(session.log), m.by # First PROVE txn'[m.by].pc = "done"
    BY DEF H_Inv, H_Log
  <2>1. txn[m.by].pc = "done"
    BY DEF H_Inv, H_Log
  <2>2. m.by \in PageRequests
    BY H_LogType DEF H_Inv
  <2> QED
    BY <1>1, <2>1, <2>2
<1>3. H_New'
  BY <1>1 DEF H_Inv, H_New, H!Answer, H!Question
<1>4. H_Shown'
  <2>1. CASE messages' = <<>>
    BY <2>1 DEF H_Shown, Once, Items
  <2>2. CASE messages' = messages
    BY <1>1, <2>2 DEF H_Inv, H_Shown
  <2> QED
    BY <2>1, <2>2
<1>5. H_Waiting'
  <2> SUFFICES ASSUME isAnalyzing' # None
               PROVE  /\ txn'[isAnalyzing'].pc # "idle"
                      /\ \A m \in Items(messages') : m.by # isAnalyzing'
    BY DEF H_Waiting
  <2>1. Items(messages') \subseteq Items(messages)
    BY DEF Items
  <2>2. CASE isAnalyzing' = isAnalyzing
    <3>1. isAnalyzing \in PageRequests
      BY <2>2 DEF H_Inv, H!TypeOK
    <3> QED
      BY <1>1, <2>1, <2>2, <3>1 DEF H_Inv, H_Waiting
  <2>3. CASE isAnalyzing' \in PageRequests /\ H!Issue(isAnalyzing', "message")
    <3>1. txn[isAnalyzing'].pc = "idle" /\ txn'[isAnalyzing'].pc = "load"
      BY <2>3 DEF H!Issue, H_Inv, H!TypeOK, H!Txn
    <3> QED
      BY <2>1, <2>3, <3>1, H_IdleIsNotShown
  <2> QED
    BY <2>2, <2>3
<1>6. H_History'
  BY DEF H_Inv, H_History
<1> QED
  BY <1>2, <1>3, <1>4, <1>5, <1>6 DEF H_Inv

\* A transaction moves without a commit: it is not taken back once it is sent.
LEMMA H_Server ==
  ASSUME H!RehearsalAssumption, H_Inv, H!TypeOK', NEW r \in PageRequests, NEW new \in H!Txn,
         H!Move(r, new), session' = session, txn[r].pc \in {"load", "work"},
         new.pc # "idle", new.pc = "done" => new.outcome = "error",
         new.new \in {txn[r].new, <<H!Answer(r)>>, <<H!Answer(r), H!Question(r)>>}
  PROVE  H_Inv'
<1>1. /\ txn'[r] = new
      /\ \A q \in PageRequests : q # r => txn'[q] = txn[q]
  BY DEF H_Inv, H!TypeOK, H!Move
<1>2. /\ messages' = messages /\ isAnalyzing' = isAnalyzing /\ history' = history
      /\ dialogueView' = dialogueView
  BY DEF H!Move, H!page
<1>3. H_Log'
  BY <1>1, H_LogType DEF H_Inv, H_Log
<1>4. H_New'
  BY <1>1 DEF H_Inv, H_New, H!Answer, H!Question
<1>5. H_Shown'
  BY <1>1, <1>2 DEF H_Inv, H_Shown
<1>6. H_Waiting'
  BY <1>1, <1>2 DEF H_Inv, H_Waiting, H!TypeOK
<1>7. H_History'
  BY <1>2 DEF H_Inv, H_History
<1> QED
  BY <1>3, <1>4, <1>5, <1>6, <1>7 DEF H_Inv

LEMMA H_CommitStep ==
  ASSUME H!RehearsalAssumption, H_Inv, H!TypeOK', NEW r \in PageRequests, H!Commit(r) PROVE H_Inv'
<1>1. /\ txn[r].pc = "sent" /\ txn'[r].pc = "done" /\ txn'[r].new = txn[r].new
      /\ txn[r].new \in Seq(H!Message)
      /\ \A q \in PageRequests : q # r => txn'[q] = txn[q]
  BY DEF H_Inv, H!TypeOK, H!Txn, H!Commit, H!Move
<1>2. /\ messages' = messages /\ isAnalyzing' = isAnalyzing /\ history' = history
      /\ dialogueView' = dialogueView
  BY DEF H!Commit, H!Move, H!page
<1>3. session'.log = session.log \o txn[r].new
  BY DEF H!Commit
<1>4. Items(session'.log) = Items(session.log) \cup Items(txn[r].new)
  BY <1>1, <1>3, H_LogType, ConcatItems DEF H_Inv
<1>5. /\ Once(txn[r].new)
      /\ \A m \in Items(txn[r].new) : m.by = r
  BY DEF H_Inv, H_New, Once, Items, H!Answer, H!Question
<1>6. Items(session.log) \cap Items(txn[r].new) = {}
  BY <1>1, <1>5 DEF H_Inv, H_Log, H!RehearsalAssumption
<1>7. H_Log'
  <2>1. Once(session'.log)
    BY <1>1, <1>3, <1>5, <1>6, H_LogType, ConcatOnce DEF H_Inv, H_Log
  <2>2. ASSUME NEW m \in Items(session'.log), m.by # First PROVE txn'[m.by].pc = "done"
    BY <1>1, <1>4, <1>5, <2>2, H_LogType DEF H_Inv, H_Log
  <2> QED
    BY <2>1, <2>2 DEF H_Log
<1>8. H_New'
  BY <1>1, <1>4 DEF H_Inv, H_New, H!Answer, H!Question
<1>9. H_Shown'
  BY <1>1, <1>2, <1>4 DEF H_Inv, H_Shown
<1>10. H_Waiting'
  BY <1>1, <1>2 DEF H_Inv, H_Waiting, H!TypeOK
<1>11. H_History'
  BY <1>2, <1>4 DEF H_Inv, H_History
<1> QED
  BY <1>7, <1>8, <1>9, <1>10, <1>11 DEF H_Inv

LEMMA H_ReceiveStep ==
  ASSUME H!RehearsalAssumption, H_Inv, H!TypeOK', NEW r \in PageRequests, H!ReceiveTurn(r)
  PROVE  H_Inv'
<1>1. /\ isAnalyzing = r /\ isAnalyzing' = None /\ r # None
      /\ messages' = messages \o txn[r].new
      /\ txn[r].pc \in {"sent", "done"} /\ txn[r].outcome \in {"turn", "last"}
      /\ history' = history /\ session' = session /\ txn' = txn
  BY DEF H!ReceiveTurn, H!Answered, H!RehearsalAssumption
<1>2. txn[r].new \in Seq(H!Message) /\ messages \in Seq(H!Message)
  BY DEF H_Inv, H!TypeOK, H!Txn
<1>3. Items(messages') = Items(messages) \cup Items(txn[r].new)
  BY <1>1, <1>2, ConcatItems
<1>4. /\ Once(txn[r].new)
      /\ \A m \in Items(txn[r].new) : m.by = r
  BY DEF H_Inv, H_New, Once, Items, H!Answer, H!Question
<1>5. Items(messages) \cap Items(txn[r].new) = {}
  BY <1>1, <1>4 DEF H_Inv, H_Waiting
<1>6. Once(messages')
  BY <1>1, <1>2, <1>4, <1>5, ConcatOnce DEF H_Inv, H_Shown
<1>7. H_Shown'
  BY <1>1, <1>3, <1>6 DEF H_Inv, H_Shown, H_New
<1> QED
  BY <1>1, <1>7 DEF H_Inv, H_Log, H_New, H_Waiting, H_History

LEMMA H_Step == ASSUME H!RehearsalAssumption, H_Inv, [H!Next]_(H!vars) PROVE H_Inv'
<1>0. H!TypeOK'
  BY H_Type DEF H_Inv
<1> USE DEF H!ChatPanel
<1>1. CASE H!ReadHistory
  BY <1>0, <1>1 DEF H!ReadHistory, H_Inv, H_Log, H_New, H_Shown, H_Waiting, H_History
<1>2. CASE H!LoadHistory
  <2>1. CASE history.status = "active"
    BY <1>0, <1>2, <2>1 DEF H!LoadHistory, H_Inv, H_Log, H_New, H_Shown, H_Waiting, H_History
  <2>2. CASE history.status # "active"
    BY <1>0, <1>2, <2>2, H_Client DEF H!LoadHistory
  <2> QED
    BY <2>1, <2>2
<1>3. CASE H!LoadFails \/ H!Leave \/ H!Open
  BY <1>0, <1>3, H_Client DEF H!LoadFails, H!Leave, H!Open, H!Discard
<1>4. CASE H!StartListening \/ H!OnStart \/ H!PressStop \/ H!OnResult \/ H!OnEnd \/ H!TypeAnswer
  <2>1. UNCHANGED <<dialogueView, messages, isAnalyzing, history, session, txn>>
    BY <1>4 DEF H!StartListening, H!OnStart, H!PressStop, H!OnResult, H!OnEnd, H!TypeAnswer
  <2> QED
    BY <1>0, <2>1, H_Client DEF H_Inv, H_Waiting
<1>5. ASSUME NEW r \in PageRequests, H!HandleSubmit(r) \/ H!SubmitOnTimeout(r) PROVE H_Inv'
  <2>1. /\ H!Issue(r, "message") /\ isAnalyzing' = r /\ dialogueView = "chat"
        /\ UNCHANGED <<dialogueView, messages, history, session>>
    BY <1>5 DEF H!HandleSubmit, H!SubmitOnTimeout, H!SubmitAnswer, H!SubmitEnabled, H!AnswerEnabled
  <2> QED
    BY <1>0, <2>1, H_Client
<1>6. ASSUME NEW r \in PageRequests, H!ReceiveTurn(r) PROVE H_Inv'
  BY <1>0, <1>6, H_ReceiveStep
<1>7. ASSUME NEW r \in PageRequests, H!ReceiveDetected(r) \/ H!MessageFails(r) PROVE H_Inv'
  BY <1>0, <1>7, H_Client DEF H!ReceiveDetected, H!MessageFails, H!Answered
<1>8. ASSUME NEW r \in PageRequests, H!HandleComplete(r) PROVE H_Inv'
  <2>1. /\ H!Issue(r, "complete")
        /\ UNCHANGED <<dialogueView, messages, isAnalyzing, history, session>>
    BY <1>8 DEF H!HandleComplete
  <2> QED
    BY <1>0, <2>1, H_Client DEF H_Inv, H_Waiting
<1>9. ASSUME NEW r \in PageRequests, H!ReceiveCompleted(r) \/ H!CompleteFails(r) PROVE H_Inv'
  <2>1. /\ UNCHANGED <<messages, isAnalyzing, history, session, txn>>
        /\ dialogueView' = "loading" => dialogueView = "loading"
    BY <1>9 DEF H!ReceiveCompleted, H!CompleteFails
  <2> QED
    BY <1>0, <2>1, H_Client DEF H_Inv, H_Waiting
<1>10. ASSUME NEW r \in PageRequests, H!BeforeUnload(r) PROVE H_Inv'
  <2>1. /\ H!Issue(r, "abandon") /\ session' = session
        /\ messages' = <<>> /\ isAnalyzing' = None /\ history' = None
    BY <1>10 DEF H!BeforeUnload, H!Discard
  <2> QED
    BY <1>0, <2>1, H_Client
<1>11. ASSUME NEW r \in PageRequests, H!LoadSession(r) PROVE H_Inv'
  <2>1. PICK new \in H!Planned(r) : H!Move(r, new)
    BY <1>11 DEF H!LoadSession
  <2> QED
    BY <1>0, <1>11, <2>1, H_Planned, H_Server DEF H!LoadSession, H_Inv
<1>12. ASSUME NEW r \in PageRequests, H!AiFails(r) PROVE H_Inv'
  <2>1. txn[r] \in H!Txn
    BY DEF H_Inv, H!TypeOK
  <2>2. /\ H!Refused(r) \in H!Txn /\ H!Refused(r).pc = "done"
        /\ H!Refused(r).outcome = "error" /\ H!Refused(r).new = txn[r].new
    BY <2>1 DEF H!Refused, H!Txn
  <2> QED
    BY <1>0, <1>12, <2>2, H_Server DEF H!AiFails
<1>13. ASSUME NEW r \in PageRequests, H!Respond(r) PROVE H_Inv'
  <2>1. txn[r] \in H!Txn
    BY DEF H_Inv, H!TypeOK
  <2> DEFINE new == [txn[r] EXCEPT !.pc = "sent"]
  <2>2. new \in H!Txn /\ new.pc = "sent" /\ new.new = txn[r].new
    BY <2>1 DEF H!Txn
  <2>3. H!Move(r, new) /\ txn[r].pc = "work" /\ session' = session
    BY <1>13 DEF H!Respond
  <2> HIDE DEF new
  <2> QED
    BY <1>0, <2>2, <2>3, H_Server
<1>14. ASSUME NEW r \in PageRequests, H!Commit(r) PROVE H_Inv'
  BY <1>0, <1>14, H_CommitStep
<1>15. CASE UNCHANGED H!vars
  BY <1>0, <1>15, H_Client DEF H!vars, H!page, H_Inv, H_Waiting
<1> QED
  BY <1>1, <1>2, <1>3, <1>4, <1>5, <1>6, <1>7, <1>8, <1>9, <1>10, <1>11, <1>12, <1>13, <1>14,
     <1>15 DEF H!Next

LEMMA H_ShownIsRecorded == ASSUME H_Inv PROVE H!ShownIsRecorded
BY DEF H_Inv, H_Shown, H!ShownIsRecorded, Once, Items

-----------------------------------------------------------------------------
(* Report.                                                                 *)

R_Place == {"idle", "sent", "locked", "answered", "done", "failed"}

\* As much of the types as the argument needs.
R_Types ==
  /\ config \in Reruns \cup {None} /\ lock \in Reruns \cup {None}
  /\ rerun \in [Reruns -> [pc : R_Place, id : Reruns \cup {None}]]
  /\ made \subseteq Reruns

\* The row's lock is held from the SELECT to the commit, and what is read under
\* it stays what the row has.
R_LockInv ==
  /\ \A r \in Reruns : rerun[r].pc \in {"locked", "answered"} => lock = r
  /\ \A r \in Reruns : rerun[r].pc = "locked" => rerun[r].id = config
  /\ \A r \in Reruns :
       rerun[r].pc = "answered" => rerun[r].id = IF config = None THEN r ELSE config
  /\ \A r \in Reruns : rerun[r].pc = "done" => config # None /\ rerun[r].id = config

\* The one session that is made is the one the row names.
R_MadeInv == made = (IF config = None THEN {} ELSE {config})

\* Who is in a rerun is in the one that is committed, or about to be.
R_PlaceInv ==
  place \in Reruns =>
    \/ place = config
    \/ config = None /\ lock # None /\ rerun[lock] = [pc |-> "answered", id |-> place]

R_RerunInv == R_Types /\ R_LockInv /\ R_MadeInv /\ R_PlaceInv

LEMMA R_RerunInit == ASSUME R!ReportAssumption, R!Init PROVE R_RerunInv
<1>1. place \notin Reruns
  BY DEF R!ReportAssumption, R!Places, R!Init
<1>2. R_Types
  BY DEF R!Init, R_Types, R_Place
<1> QED
  BY <1>1, <1>2 DEF R!Init, R_RerunInv, R_LockInv, R_MadeInv, R_PlaceInv

\* What concerns neither the rerun's row nor its requests leaves the invariant,
\* as long as it does not open a rerun.
LEMMA R_Aside ==
  ASSUME R_RerunInv, UNCHANGED <<config, lock, rerun, made>>,
         place' = place \/ place' \notin Reruns
  PROVE  R_RerunInv'
BY DEF R_RerunInv, R_Types, R_LockInv, R_MadeInv, R_PlaceInv

LEMMA R_RerunStep ==
  ASSUME R!ReportAssumption, R_RerunInv, [R!Next]_(R!vars)
  PROVE  R_RerunInv'
<1> USE DEF R_Place
<1>0. /\ None \notin Reruns
      /\ \A p \in R!Places : p \notin Reruns
  BY DEF R!ReportAssumption
<1>1. ASSUME NEW r \in Reruns, R!HandleRerun(r) PROVE R_RerunInv'
  BY <1>1 DEF R!HandleRerun, R_RerunInv, R_Types, R_LockInv, R_MadeInv, R_PlaceInv
<1>2. ASSUME NEW r \in Reruns, R!LockSource(r) PROVE R_RerunInv'
  <2>1. /\ rerun \in [Reruns -> [pc : R_Place, id : Reruns \cup {None}]]
        /\ config \in Reruns \cup {None} /\ lock \in Reruns \cup {None}
    BY DEF R_RerunInv, R_Types
  <2>2. \A q \in Reruns : q # r => rerun'[q] = rerun[q]
    BY <1>2, <2>1 DEF R!LockSource
  <2>3. /\ rerun'[r] = [pc |-> "locked", id |-> config]
        /\ lock = None /\ lock' = r /\ config' = config
    BY <1>2, <2>1 DEF R!LockSource
  <2>4. R_Types'
    BY <1>2, <2>1, <2>3 DEF R!LockSource, R_RerunInv, R_Types
  <2>5. R_LockInv'
    BY <1>0, <1>2, <2>1, <2>2, <2>3 DEF R_RerunInv, R_LockInv
  <2>6. R_MadeInv'
    BY <1>0, <1>2, <2>1, <2>3 DEF R!LockSource, R_RerunInv, R_LockInv, R_MadeInv
  <2>7. R_PlaceInv'
    BY <1>0, <1>2, <2>1, <2>2, <2>3 DEF R!LockSource, R!page, R_RerunInv, R_LockInv, R_PlaceInv
  <2> QED
    BY <2>4, <2>5, <2>6, <2>7 DEF R_RerunInv
<1>3. ASSUME NEW r \in Reruns, R!AnswerRerun(r) PROVE R_RerunInv'
  <2>1. /\ rerun \in [Reruns -> [pc : R_Place, id : Reruns \cup {None}]]
        /\ config \in Reruns \cup {None} /\ lock \in Reruns \cup {None}
    BY DEF R_RerunInv, R_Types
  <2>2. \A q \in Reruns : q # r => rerun'[q] = rerun[q]
    BY <1>3, <2>1 DEF R!AnswerRerun
  <2>3. /\ rerun[r].pc = "locked" /\ lock = r /\ lock' = lock /\ config' = config
        /\ rerun[r].id = config
        /\ rerun'[r] = [pc |-> "answered", id |-> IF config = None THEN r ELSE config]
    BY <1>3, <2>1 DEF R!AnswerRerun, R_RerunInv, R_LockInv
  <2>4. R_Types'
    BY <1>3, <2>1, <2>3 DEF R!AnswerRerun, R_RerunInv, R_Types
  <2>5. R_LockInv'
    BY <1>0, <1>3, <2>1, <2>2, <2>3 DEF R_RerunInv, R_LockInv
  <2>6. R_MadeInv'
    BY <1>0, <1>3, <2>1, <2>3 DEF R!AnswerRerun, R_RerunInv, R_LockInv, R_MadeInv
  <2>7. R_PlaceInv'
    BY <1>0, <1>3, <2>1, <2>2, <2>3 DEF R!AnswerRerun, R!page, R_RerunInv, R_LockInv, R_PlaceInv
  <2> QED
    BY <2>4, <2>5, <2>6, <2>7 DEF R_RerunInv
<1>4. ASSUME NEW r \in Reruns, R!RerunFails(r) PROVE R_RerunInv'
  <2>1. /\ rerun \in [Reruns -> [pc : R_Place, id : Reruns \cup {None}]]
        /\ config \in Reruns \cup {None} /\ lock \in Reruns \cup {None}
    BY DEF R_RerunInv, R_Types
  <2>2. \A q \in Reruns : q # r => rerun'[q] = rerun[q]
    BY <1>4, <2>1 DEF R!RerunFails
  <2>3. /\ rerun[r].pc = "locked" /\ rerun'[r].pc = "failed" /\ rerun'[r].id = rerun[r].id
        /\ rerun'[r] \in [pc : R_Place, id : Reruns \cup {None}]
        /\ lock = r /\ lock' = None /\ config' = config
    BY <1>4, <2>1 DEF R!RerunFails, R_RerunInv, R_LockInv
  <2>4. R_Types'
    BY <1>4, <2>1, <2>3 DEF R!RerunFails, R_RerunInv, R_Types
  <2>5. R_LockInv'
    BY <1>0, <1>4, <2>1, <2>2, <2>3 DEF R_RerunInv, R_LockInv
  <2>6. R_MadeInv'
    BY <1>0, <1>4, <2>1, <2>3 DEF R!RerunFails, R_RerunInv, R_LockInv, R_MadeInv
  <2>7. R_PlaceInv'
    BY <1>0, <1>4, <2>1, <2>2, <2>3 DEF R!RerunFails, R!page, R_RerunInv, R_LockInv, R_PlaceInv
  <2> QED
    BY <2>4, <2>5, <2>6, <2>7 DEF R_RerunInv
<1>5. ASSUME NEW r \in Reruns, R!CommitRerun(r) PROVE R_RerunInv'
  <2>1. /\ rerun \in [Reruns -> [pc : R_Place, id : Reruns \cup {None}]]
        /\ config \in Reruns \cup {None} /\ lock \in Reruns \cup {None}
    BY DEF R_RerunInv, R_Types
  <2>2. \A q \in Reruns : q # r => rerun'[q] = rerun[q]
    BY <1>5, <2>1 DEF R!CommitRerun
  <2>3. /\ rerun[r].pc = "answered" /\ rerun'[r].pc = "done" /\ rerun'[r].id = rerun[r].id
        /\ rerun'[r] \in [pc : R_Place, id : Reruns \cup {None}]
        /\ rerun[r].id = IF config = None THEN r ELSE config
        /\ lock = r /\ lock' = None /\ config' = rerun[r].id
    BY <1>5, <2>1 DEF R!CommitRerun, R_RerunInv, R_LockInv
  <2>4. R_Types'
    BY <1>5, <2>1, <2>3 DEF R!CommitRerun, R_RerunInv, R_Types
  <2>5. R_LockInv'
    BY <1>0, <1>5, <2>1, <2>2, <2>3 DEF R_RerunInv, R_LockInv
  <2>6. R_MadeInv'
    <3>1. made' = IF rerun[r].id = r THEN made \cup {r} ELSE made
      BY <1>5 DEF R!CommitRerun
    <3>2. made = IF config = None THEN {} ELSE {config}
      BY DEF R_RerunInv, R_MadeInv
    <3> QED
      BY <1>0, <2>3, <3>1, <3>2 DEF R_MadeInv
  <2>7. R_PlaceInv'
    BY <1>0, <1>5, <2>1, <2>2, <2>3 DEF R!CommitRerun, R!page, R_RerunInv, R_LockInv, R_PlaceInv
  <2> QED
    BY <2>4, <2>5, <2>6, <2>7 DEF R_RerunInv
<1>6. ASSUME NEW r \in Reruns, R!ReceiveRerun(r) PROVE R_RerunInv'
  BY <1>0, <1>6 DEF R!ReceiveRerun, R!Unmount, R!server, R_RerunInv, R_Types, R_LockInv, R_MadeInv, R_PlaceInv
<1>7. ASSUME NEW r \in Reruns, R!RerunLost(r) PROVE R_RerunInv'
  BY <1>7, R_Aside DEF R!RerunLost, R!server
<1>8. CASE R!FetchReport \/ R!ReportFails \/ R!Leave \/ R!Return \/ R!OpenPaywall
  BY <1>0, <1>8, R_Aside DEF R!FetchReport, R!ReportFails, R!Leave, R!Return, R!OpenPaywall, R!Unmount, R!server, R!Places
<1>9. CASE R!ClosePopover \/ (\E a \in Answers : R!HandlePopover(a))
  BY <1>9, R_Aside DEF R!ClosePopover, R!HandlePopover, R!server
<1>10. CASE R!FetchArtifact \/ R!FetchArtifactFails \/ R!FetchAgain \/ R!AccessGranted
  BY <1>10, R_Aside DEF R!FetchArtifact, R!FetchArtifactFails, R!FetchAgain, R!AccessGranted, R!page, R!server
<1>11. CASE \E t \in Tasks : R!FindBrief(t) \/ R!StoreBrief(t)
  BY <1>11, R_Aside DEF R!FindBrief, R!StoreBrief, R!page
<1>12. CASE UNCHANGED R!vars
  BY <1>12, R_Aside DEF R!vars, R!page, R!server
<1> QED
  BY <1>1, <1>2, <1>3, <1>4, <1>5, <1>6, <1>7, <1>8, <1>9, <1>10, <1>11, <1>12 DEF R!Next

LEMMA R_Finite == \A S : R!IsFiniteSet(S) <=> IsFiniteSet(S)
BY DEF R!IsFiniteSet, IsFiniteSet

LEMMA R_Cardinality == \A S : R!Cardinality(S) = Cardinality(S)
BY DEF R!Cardinality, Cardinality

LEMMA R_OneRerun == ASSUME R_RerunInv PROVE R!OneRerun
<1>1. CASE config = None
  BY <1>1, FS_EmptySet, R_Cardinality DEF R_RerunInv, R_MadeInv, R_PlaceInv, R!OneRerun
<1>2. CASE config # None
  BY <1>2, FS_Singleton, R_Cardinality DEF R_RerunInv, R_MadeInv, R_PlaceInv, R!OneRerun
<1> QED
  BY <1>1, <1>2

\* There are as many briefs as tasks that are done, at most.
R_Done(tasks) == {t \in Tasks : tasks[t] = "done"}
R_BriefInv ==
  /\ task \in [Tasks -> {"waiting", "found none", "done"}]
  /\ briefs \in Nat /\ briefs <= Cardinality(R_Done(task))

R_Inv == R!TypeOK /\ R_RerunInv /\ R_BriefInv

LEMMA R_DoneBounded ==
  ASSUME R!ReportAssumption, NEW tasks
  PROVE  /\ IsFiniteSet(R_Done(tasks))
         /\ Cardinality(R_Done(tasks)) \in Nat /\ R!Cardinality(Tasks) \in Nat
         /\ Cardinality(R_Done(tasks)) <= R!Cardinality(Tasks)
<1>1. IsFiniteSet(Tasks)
  BY R_Finite DEF R!ReportAssumption
<1>2. R_Done(tasks) \in SUBSET Tasks
  BY DEF R_Done
<1>3. IsFiniteSet(R_Done(tasks)) /\ Cardinality(R_Done(tasks)) <= Cardinality(Tasks)
  BY <1>1, <1>2, FS_Subset
<1>4. Cardinality(R_Done(tasks)) \in Nat /\ Cardinality(Tasks) \in Nat
  BY <1>1, <1>3, FS_CardinalityType
<1> QED
  BY <1>3, <1>4, R_Cardinality

LEMMA R_Init == ASSUME R!ReportAssumption, R!Init PROVE R_Inv
<1>1. R_BriefInv
  <2>1. 0 <= Cardinality(R_Done(task))
    BY R_DoneBounded
  <2> QED
    BY <2>1 DEF R!Init, R_BriefInv
<1>2. briefs \in 0..R!Cardinality(Tasks)
  <2>1. briefs = 0 /\ R!Cardinality(Tasks) \in Nat
    BY R_DoneBounded DEF R!Init
  <2> QED
    BY <2>1
<1>3. visits \in 1..MaxVisits
  BY DEF R!Init, R!ReportAssumption
<1>4. R!TypeOK
  BY <1>1, <1>2, <1>3 DEF R!Init, R!TypeOK, R_BriefInv, R!Places
<1> QED
  BY <1>1, <1>4, R_RerunInit DEF R_Inv

LEMMA R_Grows ==
  ASSUME NEW S, NEW T, NEW n \in Nat, IsFiniteSet(T), S \subseteq T, n <= Cardinality(S)
  PROVE  /\ n <= Cardinality(T)
         /\ T \ S # {} => \A m \in {n, n + 1} : m \in Nat /\ m <= Cardinality(T)
<1>1. /\ IsFiniteSet(S) /\ Cardinality(S) <= Cardinality(T)
      /\ Cardinality(S) = Cardinality(T) => S = T
  BY FS_Subset
<1>2. Cardinality(S) \in Nat /\ Cardinality(T) \in Nat
  BY <1>1, FS_CardinalityType
<1> QED
  BY <1>1, <1>2

LEMMA R_BriefStep == ASSUME R!ReportAssumption, R_BriefInv, [R!Next]_(R!vars) PROVE R_BriefInv'
<1>1. CASE UNCHANGED <<task, briefs>>
  BY <1>1 DEF R_BriefInv
<1>2. ASSUME NEW t \in Tasks, R!FindBrief(t) \/ R!StoreBrief(t) PROVE R_BriefInv'
  <2>0. task \in [Tasks -> {"waiting", "found none", "done"}] /\ briefs \in Nat
    BY DEF R_BriefInv
  <2>1. \A tasks : IsFiniteSet(R_Done(tasks)) /\ Cardinality(R_Done(tasks)) \in Nat
    BY R_DoneBounded
  <2>2. CASE R!FindBrief(t)
    <3>1. /\ task' \in [Tasks -> {"waiting", "found none", "done"}]
          /\ R_Done(task) \subseteq R_Done(task')
      BY <2>0, <2>2 DEF R!FindBrief, R_Done
    <3>2. briefs <= Cardinality(R_Done(task'))
      BY <2>0, <2>1, <3>1, R_Grows DEF R_BriefInv
    <3>3. briefs' = briefs
      BY <2>2 DEF R!FindBrief
    <3> QED
      BY <2>0, <3>1, <3>2, <3>3 DEF R_BriefInv
  <2>3. CASE R!StoreBrief(t)
    <3>1. /\ task[t] = "found none" /\ task' = [task EXCEPT ![t] = "done"]
          /\ briefs' \in {briefs, briefs + 1}
      BY <2>3 DEF R!StoreBrief
    <3>2. /\ task' \in [Tasks -> {"waiting", "found none", "done"}]
          /\ R_Done(task) \subseteq R_Done(task') /\ t \in R_Done(task') \ R_Done(task)
      BY <2>0, <3>1 DEF R_Done
    <3>3. \A n \in {briefs, briefs + 1} : n \in Nat /\ n <= Cardinality(R_Done(task'))
      BY <2>0, <2>1, <3>2, R_Grows DEF R_BriefInv
    <3>4. briefs' \in Nat /\ briefs' <= Cardinality(R_Done(task'))
      BY <3>1, <3>3
    <3> QED
      BY <3>2, <3>4 DEF R_BriefInv
  <2> QED
    BY <1>2, <2>2, <2>3
<1>3. ASSUME R!Next PROVE \/ UNCHANGED <<task, briefs>>
                         \/ \E t \in Tasks : R!FindBrief(t) \/ R!StoreBrief(t)
  <2> USE DEF R!page, R!server
  <2>1. CASE R!FetchReport \/ R!ReportFails \/ R!Leave \/ R!Return \/ R!OpenPaywall
    BY <2>1 DEF R!FetchReport, R!ReportFails, R!Leave, R!Return, R!OpenPaywall, R!Unmount
  <2>2. CASE R!ClosePopover \/ (\E a \in Answers : R!HandlePopover(a))
    BY <2>2 DEF R!ClosePopover, R!HandlePopover
  <2>3. CASE R!FetchArtifact \/ R!FetchArtifactFails \/ R!FetchAgain \/ R!AccessGranted
    BY <2>3 DEF R!FetchArtifact, R!FetchArtifactFails, R!FetchAgain, R!AccessGranted
  <2>4. ASSUME NEW r \in Reruns,
               \/ R!HandleRerun(r) \/ R!LockSource(r) \/ R!AnswerRerun(r) \/ R!RerunFails(r)
               \/ R!CommitRerun(r) \/ R!ReceiveRerun(r) \/ R!RerunLost(r)
        PROVE  UNCHANGED <<task, briefs>>
    BY <2>4 DEF R!HandleRerun, R!LockSource, R!AnswerRerun, R!RerunFails, R!CommitRerun,
       R!ReceiveRerun, R!RerunLost, R!Unmount
  <2> QED
    BY <1>3, <2>1, <2>2, <2>3, <2>4 DEF R!Next
<1> QED
  BY <1>1, <1>2, <1>3 DEF R!vars, R!server

\* The variables of the page and of the card.
R_PageTypes ==
  /\ place \in R!Places \cup Reruns /\ visits \in 1..MaxVisits
  /\ popover \in Answers \cup {None} /\ rerunLoading \in Reruns \cup {None}
  /\ card \in {"off", "loading", "brief", "teaser", "error"}
  /\ artifactReq \in {"none", "sent", "later"} /\ paid \in BOOLEAN

LEMMA R_PageStep ==
  ASSUME R!ReportAssumption, R_PageTypes, R_RerunInv, [R!Next]_(R!vars)
  PROVE  R_PageTypes'
<1> USE DEF R_PageTypes, R!page, R!server
<1>1. CASE R!FetchReport
  BY <1>1 DEF R!FetchReport, R!Places
<1>2. CASE R!ReportFails \/ R!Leave \/ R!OpenPaywall
  BY <1>2 DEF R!ReportFails, R!Leave, R!OpenPaywall, R!Unmount, R!Places
<1>3. CASE R!Return
  <2>1. visits' \in 1..MaxVisits
    BY <1>3 DEF R!Return, R!ReportAssumption
  <2> QED
    BY <1>3, <2>1 DEF R!Return, R!Unmount, R!Places
<1>4. CASE R!ClosePopover \/ (\E a \in Answers : R!HandlePopover(a))
  BY <1>4 DEF R!ClosePopover, R!HandlePopover
<1>5. CASE R!FetchArtifact \/ R!FetchArtifactFails \/ R!FetchAgain \/ R!AccessGranted
  BY <1>5 DEF R!FetchArtifact, R!FetchArtifactFails, R!FetchAgain, R!AccessGranted
<1>6. CASE \E t \in Tasks : R!FindBrief(t) \/ R!StoreBrief(t)
  BY <1>6 DEF R!FindBrief, R!StoreBrief
<1>7. ASSUME NEW r \in Reruns, R!HandleRerun(r) \/ R!RerunLost(r) PROVE R_PageTypes'
  BY <1>7 DEF R!HandleRerun, R!RerunLost
<1>8. ASSUME NEW r \in Reruns,
             R!LockSource(r) \/ R!AnswerRerun(r) \/ R!RerunFails(r) \/ R!CommitRerun(r)
      PROVE  R_PageTypes'
  BY <1>8 DEF R!LockSource, R!AnswerRerun, R!RerunFails, R!CommitRerun
<1>9. ASSUME NEW r \in Reruns, R!ReceiveRerun(r) PROVE R_PageTypes'
  <2>1. rerun[r].id \in Reruns
    BY <1>9 DEF R!ReceiveRerun, R_RerunInv, R_Types, R_LockInv
  <2> QED
    BY <1>9, <2>1 DEF R!ReceiveRerun, R!Unmount
<1>10. CASE UNCHANGED R!vars
  BY <1>10 DEF R!vars
<1> QED
  BY <1>1, <1>2, <1>3, <1>4, <1>5, <1>6, <1>7, <1>8, <1>9, <1>10 DEF R!Next

LEMMA R_Step == ASSUME R!ReportAssumption, R_Inv, [R!Next]_(R!vars) PROVE R_Inv'
<1>1. R_RerunInv' /\ R_BriefInv'
  BY R_RerunStep, R_BriefStep DEF R_Inv
<1>2. R_PageTypes'
  BY R_PageStep DEF R_Inv, R!TypeOK, R_PageTypes
<1>3. briefs' \in 0..R!Cardinality(Tasks)
  <2>1. briefs' \in Nat /\ briefs' <= Cardinality(R_Done(task'))
    BY <1>1 DEF R_BriefInv
  <2>2. /\ Cardinality(R_Done(task')) <= R!Cardinality(Tasks)
        /\ Cardinality(R_Done(task')) \in Nat /\ R!Cardinality(Tasks) \in Nat
    BY R_DoneBounded
  <2> QED
    BY <2>1, <2>2
<1>4. /\ task' \in [Tasks -> {"waiting", "found none", "done"}]
      /\ config' \in Reruns \cup {None} /\ lock' \in Reruns \cup {None}
      /\ rerun' \in [Reruns -> [pc : {"idle", "sent", "locked", "answered", "done", "failed"},
                               id : Reruns \cup {None}]]
      /\ made' \subseteq Reruns
  BY <1>1 DEF R_RerunInv, R_Types, R_Place, R_BriefInv
<1> QED
  BY <1>1, <1>2, <1>3, <1>4 DEF R_Inv, R!TypeOK, R_PageTypes

-----------------------------------------------------------------------------
(* The pages together: the one that is looked at keeps its invariant.      *)

PracticeInv ==
  /\ focus \in {"practice", "dialogue", "report", "guest"}
  /\ focus = "practice" => P_Inv
  /\ focus = "dialogue" => H_Inv
  /\ focus = "report" => R_Inv
  /\ focus = "guest" => IInv

LEMMA PracticeInitHolds == ASSUME PracticeInit PROVE PracticeInv
BY Assumptions, P_Init, H_Init, R_Init, InitHolds DEF PracticeInit, PracticeInv

LEMMA PracticeStep == ASSUME PracticeInv, [PracticeNext]_allVars PROVE PracticeInv'
<1> USE Assumptions DEF PracticeInv
<1>1. CASE focus = "practice" /\ P!Next /\ focus' = focus
  BY <1>1, P_Step
<1>2. CASE focus = "dialogue" /\ H!Next /\ focus' = focus
  BY <1>2, H_Step
<1>3. CASE focus = "report" /\ R!Next /\ focus' = focus
  BY <1>3, R_Step
<1>4. CASE focus = "guest" /\ Next /\ focus' = focus
  BY <1>4, IInvStep
<1>5. CASE UNCHANGED allVars
  <2>1. UNCHANGED P!vars /\ UNCHANGED H!vars /\ UNCHANGED R!vars /\ UNCHANGED vars /\ focus' = focus
    BY <1>5 DEF allVars, practiceVars, dialogueVars, reportVars, P!vars, P!loaded, P!form, P!list,
       H!vars, H!page, R!vars, R!page, R!server
  <2> QED
    BY <2>1, P_Step, H_Step, R_Step, IInvStep
<1> QED
  BY <1>1, <1>2, <1>3, <1>4, <1>5 DEF PracticeNext

LEMMA PracticeInductive == PracticeSpec => []PracticeInv
<1>1. PracticeInit => PracticeInv
  BY PracticeInitHolds
<1>2. PracticeInv /\ [PracticeNext]_allVars => PracticeInv'
  BY PracticeStep
<1> QED
  BY <1>1, <1>2, PTL DEF PracticeSpec

\* The variables of the page that is looked at keep their types: Practice,
\* Rehearsal, Report and Guest.
THEOREM PracticeTypes == PracticeSpec => []TypesOK
<1>1. PracticeInv => TypesOK
  BY DEF PracticeInv, TypesOK, P_Inv, H_Inv, R_Inv, IInv
<1> QED
  BY <1>1, PracticeInductive, PTL

\* Whatever the URL, a late answer and the user have chosen, a built-in role and
\* an own opponent are never chosen together (simulation/page.tsx:323-328,
\* 374-376, 917-931).
THEOREM ChosenOnce == PracticeSpec => []OneOpponent
<1>1. PracticeInv => OneOpponent
  BY DEF PracticeInv, OneOpponent, P_Inv
<1> QED
  BY <1>1, PracticeInductive, PTL

\* Whatever was retried, lost or answered before its commit, the dialogue shows
\* a message once, and none that is not stored or about to be
\* (simulation/[id]/page.tsx:163-182, 209).
THEOREM ShownRecorded == PracticeSpec => []ShownIsRecorded
<1>1. PracticeInv => ShownIsRecorded
  BY H_ShownIsRecorded DEF PracticeInv, ShownIsRecorded
<1> QED
  BY <1>1, PracticeInductive, PTL

\* However often the rerun is asked for, one session comes of it, and whoever
\* is sent to a rerun is sent to that one (simulation.py:722-775).
THEOREM RerunOnce == PracticeSpec => []OneRerun
<1>1. PracticeInv => OneRerun
  BY R_OneRerun DEF PracticeInv, OneRerun, R_Inv
<1> QED
  BY <1>1, PracticeInductive, PTL
=============================================================================
