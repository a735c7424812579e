---------------------------- MODULE GuestProofs ----------------------------
(* Types of Guest, and that the conversion of guest sessions by rows, locks *)
(* and pages implements Conversion, for any number of requests, visits,      *)
(* accounts and turns.                                                       *)
EXTENDS Guest, TLAPS

\* A request that works on a row has one, a message's row is the page's, and a
\* question is asked for below the limit only.
TxInv ==
  \A r \in Requests :
    /\ tx[r].pc \in {"load", "ask", "write", "respond", "sent"} => tx[r].on \in Requests
    /\ tx[r].pc = "load" \/ tx[r].outcome = "limit" => guestSessionId # None
    /\ tx[r].pc = "ask" /\ tx[r].on # r => tx[r].turn < GUEST_MAX_TURNS

\* Behind the paywall the page has a guest session and awaits nothing.
PaywallInv == PaywallPanel => guestSessionId # None /\ pending = None

\* A visit works on the page's session, and what it has read under the lock
\* is what the row holds.
BridgeInv ==
  \A b \in Bridges :
    /\ bridge[b].pc \in {"post", "locked"} => PaywallPanel
    /\ bridge[b].pc = "locked" =>
         /\ held[guestSessionId] = b
         /\ bridge[b].seen = row[guestSessionId].migrated

\* The row tells whose simulation the guest session is.
OwnerInv ==
  \A g \in Requests :
    sessions[g] = IF row[g].migrated = None THEN <<>> ELSE <<row[g].migrated>>

IInv == TypeOK /\ TxInv /\ PaywallInv /\ BridgeInv /\ OwnerInv
-----------------------------------------------------------------------------
(* Types and requests.                                                     *)

LEMMA InitHolds == ASSUME GuestAssumption, Init PROVE IInv
<1>1. Absent \in GuestSession /\ Absent.migrated = None
  BY DEF GuestAssumption, GuestSession, Absent, Log
<1>2. [pc |-> "idle", on |-> None, turn |-> 0, log |-> <<>>, outcome |-> "none"] \in Transaction
  BY DEF GuestAssumption, Transaction, Place, Outcome, Log
<1>3. [pc |-> "idle", seen |-> None, page |-> "idle"] \in Visit
  BY DEF Visit
<1>4. TypeOK
  <2>1. /\ shown \in Seq({Question, Answer}) /\ credits \in [Users -> 0..MaxCredits]
        /\ sessions \in [Requests -> Seq(Users)]
    BY DEF Init, GuestAssumption
  <2>2. /\ row \in [Requests -> GuestSession] /\ tx \in [Requests -> Transaction]
        /\ bridge \in [Bridges -> Visit]
    BY <1>1, <1>2, <1>3 DEF Init
  <2> QED
    BY <2>1, <2>2 DEF Init, TypeOK
<1>5. TxInv /\ PaywallInv /\ BridgeInv /\ OwnerInv
  BY <1>1 DEF Init, TxInv, PaywallInv, PaywallPanel, BridgeInv, OwnerInv
<1> QED
  BY <1>4, <1>5 DEF IInv

FormNext == EditMaterial \/ TypeAnswer \/ TimeOut

\* A request sent.
PageNext(r) == HandleStart(r) \/ HandleSendAnswer(r) \/ SendOnTimeout(r)

\* The end of a request as the page sees it.
ResponseNext(r) ==
  ReceiveStart(r) \/ ReceiveQuestion(r) \/ ReceivePaywall(r) \/ RequestFails(r)

ServerNext(r) ==
  \/ LoadGuestSession(r) \/ AiFails(r) \/ StoreFirstQuestion(r)
  \/ AskQuestion(r) \/ Flush(r) \/ Respond(r) \/ Commit(r) \/ ExpireRow(r)

BridgeNext(b) ==
  \/ OpenBridge(b) \/ LockGuest(b) \/ AnswerUnconverted(b) \/ Convert(b) \/ Land(b)

LEMMA IssueTypes ==
  ASSUME TypeOK, NEW r \in Requests, NEW p \in Place, NEW g \in Requests, Issue(r, p, g)
  PROVE  /\ tx' \in [Requests -> Transaction] /\ tx'[r].pc = p /\ tx'[r].on = g
         /\ tx'[r].outcome = tx[r].outcome
         /\ \A t \in Requests \ {r} : tx'[t] = tx[t]
         /\ pending' = r /\ loading' = TRUE
BY DEF TypeOK, Issue, Transaction

LEMMA FormTypes == ASSUME TypeOK, TxInv, FormNext PROVE TypeOK' /\ TxInv'
<1>1. CASE EditMaterial
  BY <1>1 DEF EditMaterial, TypeOK, TxInv, server, conversion
<1>2. CASE TypeAnswer
  BY <1>2 DEF TypeAnswer, TypeOK, TxInv, server, conversion
<1>3. CASE TimeOut
  BY <1>3 DEF TimeOut, TypeOK, TxInv, server, conversion
<1> QED
  BY <1>1, <1>2, <1>3 DEF FormNext

LEMMA PageTypes ==
  ASSUME GuestAssumption, TypeOK, TxInv, NEW r \in Requests, PageNext(r)
  PROVE  TypeOK' /\ TxInv'
<1>1. CASE HandleStart(r)
  <2>1. /\ Issue(r, "ask", r) /\ "ask" \in Place
        /\ UNCHANGED <<step, ready, answer, expired, shown, guestSessionId, timeouts,
                       row, held, conversion>>
    BY <1>1 DEF HandleStart, Place
  <2>2. TypeOK'
    BY <2>1, IssueTypes DEF TypeOK, conversion
  <2>3. /\ tx'[r].pc = "ask" /\ tx'[r].on = r /\ tx'[r].outcome = tx[r].outcome
        /\ \A t \in Requests \ {r} : tx'[t] = tx[t]
    BY <2>1, IssueTypes
  <2>4. TxInv'
    BY <2>1, <2>3 DEF TxInv
  <2> QED
    BY <2>2, <2>4
<1>2. ASSUME Submit(r)
      PROVE  /\ shown' \in Seq({Question, Answer}) /\ tx' \in [Requests -> Transaction]
             /\ loading' = TRUE /\ pending' = r /\ TxInv'
             /\ UNCHANGED <<step, ready, expired, guestSessionId, row, held, conversion>>
  <2>1. /\ Issue(r, "load", guestSessionId) /\ "load" \in Place
        /\ guestSessionId # None /\ guestSessionId \in Requests
        /\ UNCHANGED <<step, ready, expired, guestSessionId, row, held, conversion>>
    BY <1>2 DEF Submit, Place, TypeOK
  <2>2. shown' \in Seq({Question, Answer})
    BY <1>2 DEF Submit, TypeOK
  <2>3. /\ tx'[r].pc = "load" /\ tx'[r].on = guestSessionId
        /\ tx'[r].outcome = tx[r].outcome
        /\ \A t \in Requests \ {r} : tx'[t] = tx[t]
    BY <2>1, IssueTypes
  <2>4. TxInv'
    BY <2>1, <2>3 DEF TxInv
  <2> QED
    BY <2>1, <2>2, <2>4, IssueTypes
<1>3. CASE HandleSendAnswer(r)
  BY <1>2, <1>3 DEF HandleSendAnswer, TypeOK, conversion
<1>4. CASE SendOnTimeout(r)
  BY <1>2, <1>4 DEF SendOnTimeout, TypeOK, conversion
<1> QED
  BY <1>1, <1>3, <1>4 DEF PageNext

LEMMA ResponseTypes ==
  ASSUME GuestAssumption, TypeOK, TxInv, NEW r \in Requests, ResponseNext(r)
  PROVE  TypeOK' /\ TxInv'
<1>1. CASE ReceiveStart(r)
  <2>1. shown' \in Seq({Question, Answer}) /\ guestSessionId' # None
    BY <1>1 DEF ReceiveStart, GuestAssumption
  <2> QED
    BY <1>1, <2>1 DEF ReceiveStart, Settled, TypeOK, TxInv, server, conversion
<1>2. CASE ReceiveQuestion(r)
  <2>1. shown' \in Seq({Question, Answer})
    BY <1>2 DEF ReceiveQuestion, TypeOK
  <2> QED
    BY <1>2, <2>1 DEF ReceiveQuestion, Settled, TypeOK, TxInv, server, conversion
<1>3. CASE ReceivePaywall(r)
  BY <1>3 DEF ReceivePaywall, Settled, TypeOK, TxInv, server
<1>4. CASE RequestFails(r)
  <2>1. Withdrawn \in Seq({Question, Answer})
    BY DEF Withdrawn, TypeOK
  <2> QED
    BY <1>4, <2>1 DEF RequestFails, Settled, TypeOK, TxInv, server, conversion
<1> QED
  BY <1>1, <1>2, <1>3, <1>4 DEF ResponseNext

\* A step of a transaction that leaves it in order.
LEMMA StepTypes ==
  ASSUME TypeOK, TxInv, NEW r \in Requests, NEW t \in Transaction, ServerStep(r, t),
         t.pc \in {"load", "ask", "write", "respond", "sent"} => t.on \in Requests,
         t.pc = "load" \/ t.outcome = "limit" => guestSessionId # None,
         t.pc = "ask" /\ t.on # r => t.turn < GUEST_MAX_TURNS,
         row' \in [Requests -> GuestSession],
         held' \in [Requests -> Requests \cup Bridges \cup {None}]
  PROVE  TypeOK' /\ TxInv'
<1>1. TypeOK'
  BY DEF TypeOK, ServerStep, page, conversion
<1>2. TxInv'
  BY DEF TypeOK, TxInv, ServerStep, page
<1> QED
  BY <1>1, <1>2

LEMMA ServerTypes ==
  ASSUME GuestAssumption, TypeOK, TxInv, NEW r \in Requests, ServerNext(r)
  PROVE  TypeOK' /\ TxInv'
<1> DEFINE t == tx'[r]
<1>1. /\ tx[r] \in Transaction /\ 1 \in 0..GUEST_MAX_TURNS
      /\ row \in [Requests -> GuestSession]
      /\ held \in [Requests -> Requests \cup Bridges \cup {None}]
  BY DEF TypeOK, GuestAssumption
<1>2. CASE LoadGuestSession(r)
  <2>1. tx[r].on \in Requests /\ row[tx[r].on] \in GuestSession /\ guestSessionId # None
    BY <1>1, <1>2 DEF LoadGuestSession, TxInv
  <2> DEFINE g == row[tx[r].on]
             read == [tx[r] EXCEPT !.turn = g.turn, !.log = g.log]
  <2>2. CASE ~g.exists \/ ~g.live
    <3> DEFINE u == [tx[r] EXCEPT !.pc = "done", !.outcome = "error"]
    <3>1. u \in Transaction /\ u.pc = "done" /\ u.outcome = "error"
      BY <1>1 DEF Transaction, Place, Outcome
    <3>2. ServerStep(r, u) /\ UNCHANGED <<row, held>>
      BY <1>2, <2>2 DEF LoadGuestSession
    <3> QED
      BY <1>1, <3>1, <3>2, StepTypes
  <2>3. CASE g.exists /\ g.live /\ g.turn >= GUEST_MAX_TURNS
    <3> DEFINE u == [read EXCEPT !.pc = "write", !.outcome = "limit"]
    <3>1. u \in Transaction /\ u.pc = "write" /\ u.on = tx[r].on
      BY <1>1, <2>1 DEF Transaction, Place, Outcome, GuestSession
    <3>2. ServerStep(r, u) /\ UNCHANGED <<row, held>>
      BY <1>2, <2>3 DEF LoadGuestSession
    <3> QED
      BY <1>1, <2>1, <3>1, <3>2, StepTypes
  <2>4. CASE g.exists /\ g.live /\ ~(g.turn >= GUEST_MAX_TURNS)
    <3> DEFINE u == [read EXCEPT !.pc = "ask"]
    <3>1. u \in Transaction /\ u.pc = "ask" /\ u.on = tx[r].on /\ u.turn = g.turn
      BY <1>1, <2>1 DEF Transaction, Place, GuestSession
    <3>2. ServerStep(r, u) /\ UNCHANGED <<row, held>>
      BY <1>2, <2>4 DEF LoadGuestSession
    <3>3. u.turn < GUEST_MAX_TURNS
      BY <2>1, <2>4, <3>1 DEF GuestSession, GuestAssumption
    <3> QED
      BY <1>1, <2>1, <3>1, <3>2, <3>3, StepTypes
  <2> QED
    BY <2>2, <2>3, <2>4
<1>3. CASE AiFails(r)
  <2> DEFINE u == [tx[r] EXCEPT !.pc = "done", !.outcome = "error"]
  <2>1. u \in Transaction /\ u.pc = "done" /\ u.outcome = "error"
    BY <1>1 DEF Transaction, Place, Outcome
  <2>2. ServerStep(r, u) /\ UNCHANGED <<row, held>>
    BY <1>3 DEF AiFails
  <2> QED
    BY <1>1, <2>1, <2>2, StepTypes
<1>4. CASE StoreFirstQuestion(r)
  <2> DEFINE u == [tx[r] EXCEPT !.pc = "respond", !.outcome = "started",
                                !.turn = 1, !.log = <<Question>>]
  <2>1. <<Question>> \in Log
    BY DEF Log
  <2>2. u \in Transaction /\ u.pc = "respond" /\ u.outcome = "started" /\ u.on = tx[r].on
    BY <1>1, <2>1 DEF Transaction, Place, Outcome
  <2>3. ServerStep(r, u) /\ UNCHANGED <<row, held>> /\ tx[r].on = r
    BY <1>4 DEF StoreFirstQuestion
  <2> QED
    BY <1>1, <2>2, <2>3, StepTypes
<1>5. CASE AskQuestion(r)
  <2> DEFINE u == [tx[r] EXCEPT !.pc = "write", !.outcome = "question", !.turn = @ + 1,
                                !.log = @ \o <<Answer, Question>>]
  <2>1. tx[r].log \o <<Answer, Question>> \in Log
    BY <1>1 DEF Transaction, Log
  <2>2. tx[r].turn + 1 \in 0..GUEST_MAX_TURNS /\ tx[r].on \in Requests
    BY <1>1, <1>5 DEF AskQuestion, TxInv, Transaction, GuestAssumption
  <2>3. u \in Transaction /\ u.pc = "write" /\ u.outcome = "question" /\ u.on = tx[r].on
    BY <1>1, <2>1, <2>2 DEF Transaction, Place, Outcome
  <2>4. ServerStep(r, u) /\ UNCHANGED <<row, held>>
    BY <1>5 DEF AskQuestion
  <2> QED
    BY <1>1, <2>2, <2>3, <2>4, StepTypes
<1>6. CASE Flush(r)
  <2>1. FinalLog(tx[r].log) \in Log
    BY <1>1 DEF FinalLog, Transaction, Log
  <2> DEFINE log == IF tx[r].outcome = "limit" THEN FinalLog(tx[r].log) ELSE tx[r].log
             u == [tx[r] EXCEPT !.pc = "respond", !.log = log]
  <2>2. u \in Transaction /\ u.pc = "respond" /\ u.outcome = tx[r].outcome /\ u.on = tx[r].on
    BY <1>1, <2>1 DEF Transaction, Place
  <2>3. ServerStep(r, u) /\ UNCHANGED row /\ tx[r].pc = "write"
    BY <1>6 DEF Flush
  <2>4. held' = held \/ held' = [held EXCEPT ![tx[r].on] = r]
    BY <1>6 DEF Flush
  <2>5. held' \in [Requests -> Requests \cup Bridges \cup {None}]
    BY <1>1, <2>4
  <2> QED
    BY <1>1, <2>2, <2>3, <2>5, StepTypes DEF TxInv
<1>7. CASE Respond(r)
  <2> DEFINE u == [tx[r] EXCEPT !.pc = "sent"]
  <2>1. u \in Transaction /\ u.pc = "sent" /\ u.outcome = tx[r].outcome /\ u.on = tx[r].on
    BY <1>1 DEF Transaction, Place
  <2>2. ServerStep(r, u) /\ UNCHANGED <<row, held>> /\ tx[r].pc = "respond"
    BY <1>7 DEF Respond
  <2> QED
    BY <1>1, <2>1, <2>2, StepTypes DEF TxInv
<1>8. CASE Commit(r)
  <2>1. tx[r].on \in Requests /\ row[tx[r].on] \in GuestSession
    BY <1>1, <1>8 DEF Commit, TxInv
  <2>2. Written(r) \in GuestSession
    BY <1>1, <2>1 DEF Written, Transaction, GuestSession
  <2> DEFINE u == [tx[r] EXCEPT !.pc = "done"]
  <2>3. u \in Transaction /\ u.pc = "done" /\ u.outcome = tx[r].outcome
    BY <1>1 DEF Transaction, Place
  <2>4. ServerStep(r, u)
    BY <1>8 DEF Commit
  <2>5. row' \in [Requests -> GuestSession]
    BY <1>1, <1>8, <2>2 DEF Commit
  <2>6. held' \in [Requests -> Requests \cup Bridges \cup {None}]
    BY <1>1, <1>8 DEF Commit
  <2> QED
    BY <2>3, <2>4, <2>5, <2>6, StepTypes DEF TxInv
<1>9. CASE ExpireRow(r)
  <2>1. row' \in [Requests -> GuestSession]
    BY <1>1, <1>9 DEF ExpireRow, GuestSession
  <2> QED
    BY <1>9, <2>1 DEF ExpireRow, TypeOK, TxInv, page, conversion
<1> QED
  BY <1>2, <1>3, <1>4, <1>5, <1>6, <1>7, <1>8, <1>9 DEF ServerNext

LEMMA BridgeTypes ==
  ASSUME GuestAssumption, TypeOK, TxInv, PaywallInv, BridgeInv,
         NEW b \in Bridges, BridgeNext(b)
  PROVE  TypeOK' /\ TxInv'
<1> USE DEF page, server
<1>1. bridge[b] \in Visit /\ UserOf[b] \in Users
  BY DEF TypeOK, GuestAssumption
<1>2. ASSUME bridge[b].pc \in {"post", "locked"}
      PROVE  guestSessionId \in Requests /\ row[guestSessionId] \in GuestSession
  BY <1>2 DEF BridgeInv, PaywallInv, TypeOK
<1>3. CASE OpenBridge(b)
  <2>1. bridge' \in [Bridges -> Visit]
    BY <1>1, <1>3 DEF OpenBridge, TypeOK, Visit
  <2> QED
    BY <1>3, <2>1 DEF OpenBridge, TypeOK, TxInv
<1>4. CASE LockGuest(b)
  <2>1. row[guestSessionId].migrated \in Users \cup {None}
    BY <1>2, <1>4 DEF LockGuest, GuestSession
  <2>2. bridge' \in [Bridges -> Visit]
    BY <1>1, <1>4, <2>1 DEF LockGuest, TypeOK, Visit
  <2> QED
    BY <1>4, <2>2 DEF LockGuest, TypeOK, TxInv
<1>5. ASSUME NEW e \in {"session", "refused", "unpaid"}, Unlock(b, e)
      PROVE  /\ bridge' \in [Bridges -> Visit]
             /\ held' \in [Requests -> Requests \cup Bridges \cup {None}]
  BY <1>1, <1>5 DEF Unlock, TypeOK, Visit
<1>6. CASE AnswerUnconverted(b)
  <2>1. PICK e \in {"session", "refused", "unpaid"} : Unlock(b, e)
    BY <1>6 DEF AnswerUnconverted
  <2> QED
    BY <1>5, <1>6, <2>1 DEF AnswerUnconverted, Unlock, TypeOK, TxInv
<1>7. CASE Convert(b)
  <2>1. guestSessionId \in Requests /\ Unlock(b, "session")
    BY <1>2, <1>7 DEF Convert
  <2>2. row' \in [Requests -> GuestSession]
    BY <1>1, <1>7, <2>1 DEF Convert, TypeOK, GuestSession
  <2>3. credits' \in [Users -> 0..MaxCredits]
    BY <1>1, <1>7 DEF Convert, TypeOK, GuestAssumption
  <2>4. sessions' \in [Requests -> Seq(Users)]
    <3>1. Append(sessions[guestSessionId], UserOf[b]) \in Seq(Users)
      BY <1>1, <2>1 DEF TypeOK
    <3> QED
      BY <1>7, <2>1, <3>1 DEF Convert, TypeOK
  <2> QED
    BY <1>5, <2>1, <2>2, <2>3, <2>4 DEF Unlock, TypeOK, TxInv
<1>8. CASE Land(b)
  <2>1. bridge' \in [Bridges -> Visit]
    <3>1. PICK to \in {"session", "billing", "error", "gone"} :
            bridge' = [bridge EXCEPT ![b].page = to]
      BY <1>8 DEF Land
    <3>2. [bridge[b] EXCEPT !.page = to] \in Visit
      BY <1>1 DEF Visit
    <3> QED
      BY <3>1, <3>2 DEF TypeOK
  <2>2. storage' \in Requests \cup {None}
    BY <1>8 DEF Land, TypeOK
  <2> QED
    BY <1>8, <2>1, <2>2 DEF Land, TypeOK, TxInv
<1> QED
  BY <1>3, <1>4, <1>6, <1>7, <1>8 DEF BridgeNext
-----------------------------------------------------------------------------
(* The paywall and the visits of the bridge page.                          *)

LEMMA FormKeepsBridge ==
  ASSUME PaywallInv, BridgeInv, OwnerInv, FormNext
  PROVE  PaywallInv' /\ BridgeInv' /\ OwnerInv'
BY DEF FormNext, EditMaterial, TypeAnswer, TimeOut, PaywallInv, PaywallPanel, BridgeInv,
       OwnerInv, server, conversion

\* The page stays behind the paywall, with the same session.
LEMMA PageKeepsBridge ==
  ASSUME GuestAssumption, TypeOK, TxInv, PaywallInv, BridgeInv, OwnerInv,
         NEW r \in Requests, PageNext(r) \/ ResponseNext(r)
  PROVE  PaywallInv' /\ BridgeInv' /\ OwnerInv'
<1>1. UNCHANGED <<row, held, bridge, sessions>>
  BY DEF PageNext, ResponseNext, HandleStart, HandleSendAnswer, SendOnTimeout, Submit,
         ReceiveStart, ReceiveQuestion, ReceivePaywall, RequestFails, server, conversion
<1>2. PaywallInv' /\ (PaywallPanel => PaywallPanel' /\ guestSessionId' = guestSessionId)
  <2>1. CASE PageNext(r)
    BY <2>1
    DEF PageNext, HandleStart, HandleSendAnswer, SendOnTimeout, Submit,
        PaywallInv, PaywallPanel, ChatPanel, InputPanel, StartEnabled, SendEnabled, AnswerEnabled
  <2>2. CASE ReceiveStart(r) \/ ReceiveQuestion(r)
    BY <2>2 DEF ReceiveStart, ReceiveQuestion, Settled, PaywallInv, PaywallPanel,
                TypeOK, GuestAssumption
  <2>3. CASE ReceivePaywall(r)
    BY <2>3 DEF ReceivePaywall, Settled, PaywallInv, PaywallPanel, TxInv
  <2>4. CASE RequestFails(r)
    BY <2>4 DEF RequestFails, Settled, PaywallInv, PaywallPanel
  <2> QED
    BY <2>1, <2>2, <2>3, <2>4 DEF ResponseNext
<1>3. BridgeInv'
  BY <1>1, <1>2 DEF BridgeInv, PaywallInv
<1>4. OwnerInv'
  BY <1>1 DEF OwnerInv
<1> QED
  BY <1>2, <1>3, <1>4

\* A commit writes neither who has converted the row nor the lock of a visit.
LEMMA ServerKeepsBridge ==
  ASSUME GuestAssumption, TypeOK, TxInv, PaywallInv, BridgeInv, OwnerInv,
         NEW r \in Requests, ServerNext(r)
  PROVE  PaywallInv' /\ BridgeInv' /\ OwnerInv'
<1>1. UNCHANGED <<page, bridge, sessions>>
  BY DEF ServerNext, LoadGuestSession, AiFails, StoreFirstQuestion, AskQuestion, Flush,
         Respond, Commit, ExpireRow, ServerStep, conversion
<1>2. \A g \in Requests : row'[g].migrated = row[g].migrated
  <2>1. CASE row' = row
    BY <2>1
  <2>2. CASE Commit(r)
    <3>1. tx[r].on \in Requests /\ row[tx[r].on] \in GuestSession
      BY <2>2 DEF Commit, TxInv, TypeOK
    <3>2. Written(r).migrated = row[tx[r].on].migrated
      BY <3>1 DEF Written, GuestSession
    <3> QED
      BY <2>2, <3>1, <3>2 DEF Commit, TypeOK
  <2>3. CASE ExpireRow(r)
    BY <2>3 DEF ExpireRow, TypeOK, GuestSession
  <2> QED
    BY <2>1, <2>2, <2>3
    DEF ServerNext, LoadGuestSession, AiFails, StoreFirstQuestion, AskQuestion, Flush, Respond
<1>3. \A b \in Bridges, g \in Requests : held[g] = b => held'[g] = b
  <2>1. CASE held' = held
    BY <2>1
  <2>2. CASE Flush(r)
    BY <2>2 DEF Flush, GuestAssumption, TypeOK
  <2>3. CASE Commit(r)
    BY <2>3 DEF Commit, GuestAssumption
  <2> QED
    BY <2>1, <2>2, <2>3
    DEF ServerNext, LoadGuestSession, AiFails, StoreFirstQuestion, AskQuestion, Respond, ExpireRow
<1>4. PaywallInv'
  BY <1>1 DEF page, PaywallInv, PaywallPanel
<1>5. BridgeInv'
  BY <1>1, <1>2, <1>3 DEF page, BridgeInv, PaywallInv, PaywallPanel, TypeOK
<1>6. OwnerInv'
  BY <1>1, <1>2 DEF OwnerInv
<1> QED
  BY <1>4, <1>5, <1>6

\* Two visits do not hold the row at the same time.
LEMMA BridgeKeepsBridge ==
  ASSUME GuestAssumption, TypeOK, PaywallInv, BridgeInv, OwnerInv,
         NEW b \in Bridges, BridgeNext(b)
  PROVE  PaywallInv' /\ BridgeInv' /\ OwnerInv'
<1>1. UNCHANGED page
  BY DEF BridgeNext, OpenBridge, LockGuest, AnswerUnconverted, Convert, Unlock, Land
<1>2. PaywallInv'
  BY <1>1 DEF page, PaywallInv, PaywallPanel
<1>3. bridge[b] \in Visit /\ UserOf[b] \in Users /\ UserOf[b] # None /\ b # None
  BY DEF TypeOK, GuestAssumption
<1>4. CASE OpenBridge(b)
  <2>1. /\ PaywallPanel /\ bridge'[b].pc \in {"none", "post"}
        /\ \A c \in Bridges \ {b} : bridge'[c] = bridge[c]
    BY <1>3, <1>4 DEF OpenBridge, TypeOK, Visit
  <2>2. UNCHANGED <<step, guestSessionId, row, held, sessions>>
    BY <1>1, <1>4 DEF OpenBridge, page, server
  <2>3. BridgeInv'
    BY <2>1, <2>2 DEF BridgeInv, PaywallPanel
  <2>4. OwnerInv'
    BY <2>2 DEF OwnerInv
  <2> QED
    BY <1>2, <2>3, <2>4
<1>5. CASE LockGuest(b)
  <2>1. guestSessionId \in Requests /\ held[guestSessionId] = None
    BY <1>5 DEF LockGuest, BridgeInv, PaywallInv, TypeOK
  <2>2. /\ bridge'[b].seen = row[guestSessionId].migrated
        /\ \A c \in Bridges \ {b} : bridge'[c] = bridge[c]
        /\ held'[guestSessionId] = b /\ UNCHANGED <<row, sessions>>
    BY <1>3, <1>5, <2>1 DEF LockGuest, TypeOK, Visit
  <2>3. \A c \in Bridges : bridge[c].pc # "locked"
    BY <2>1 DEF BridgeInv, GuestAssumption
  <2>4. PaywallPanel
    BY <1>5 DEF LockGuest, BridgeInv
  <2> QED
    BY <1>1, <1>2, <2>2, <2>3, <2>4 DEF BridgeInv, OwnerInv, PaywallPanel, page
<1>6. ASSUME bridge[b].pc = "locked",
             NEW e \in {"session", "refused", "unpaid"}, Unlock(b, e)
      PROVE  BridgeInv'
  <2>1. /\ bridge'[b].pc = e
        /\ \A c \in Bridges \ {b} : bridge'[c] = bridge[c]
    BY <1>3, <1>6 DEF Unlock, TypeOK, Visit
  <2>2. \A c \in Bridges \ {b} : bridge[c].pc # "locked"
    BY <1>6 DEF BridgeInv
  <2> QED
    BY <1>1, <2>1, <2>2 DEF BridgeInv, PaywallPanel, page
<1>7. CASE AnswerUnconverted(b)
  <2>1. PICK e \in {"session", "refused", "unpaid"} : Unlock(b, e)
    BY <1>7 DEF AnswerUnconverted
  <2>2. bridge[b].pc = "locked" /\ UNCHANGED <<row, sessions>>
    BY <1>7 DEF AnswerUnconverted
  <2> QED
    BY <1>2, <1>6, <2>1, <2>2 DEF OwnerInv
<1>8. CASE Convert(b)
  <2>1. /\ bridge[b].pc = "locked" /\ Unlock(b, "session") /\ bridge[b].seen = None
        /\ sessions' = [sessions EXCEPT ![guestSessionId] = Append(@, UserOf[b])]
        /\ row' = [row EXCEPT ![guestSessionId].migrated = UserOf[b]]
    BY <1>8 DEF Convert, Convertible
  <2>2. guestSessionId \in Requests /\ row[guestSessionId].migrated = None
    BY <2>1 DEF BridgeInv, PaywallInv, TypeOK
  <2>3. sessions[guestSessionId] = <<>>
    BY <2>2 DEF OwnerInv
  <2>4. /\ sessions'[guestSessionId] = <<UserOf[b]>>
        /\ row'[guestSessionId].migrated = UserOf[b]
        /\ \A g \in Requests \ {guestSessionId} :
             sessions'[g] = sessions[g] /\ row'[g] = row[g]
    BY <2>1, <2>2, <2>3 DEF TypeOK, GuestSession
  <2>5. OwnerInv'
    BY <1>3, <2>4 DEF OwnerInv
  <2> QED
    BY <1>2, <1>6, <2>1, <2>5
<1>9. CASE Land(b)
  <2>1. \A c \in Bridges : bridge'[c].pc = bridge[c].pc /\ bridge'[c].seen = bridge[c].seen
    <3>1. PICK to : bridge' = [bridge EXCEPT ![b].page = to]
      BY <1>9 DEF Land
    <3> QED
      BY <1>3, <3>1 DEF TypeOK, Visit
  <2> QED
    BY <1>1, <1>2, <1>9, <2>1 DEF Land, BridgeInv, OwnerInv, PaywallPanel, page, server
<1> QED
  BY <1>4, <1>5, <1>7, <1>8, <1>9 DEF BridgeNext
-----------------------------------------------------------------------------
(* The theorems.                                                           *)

LEMMA PaidKeeps ==
  ASSUME GuestAssumption, IInv, NEW u \in Users, AccessPaid(u)
  PROVE  IInv'
<1>1. credits' \in [Users -> 0..MaxCredits]
  BY DEF AccessPaid, IInv, TypeOK, GuestAssumption
<1> QED
  BY <1>1 DEF AccessPaid, IInv, TypeOK, TxInv, PaywallInv, PaywallPanel, BridgeInv,
              OwnerInv, page, server

LEMMA StutterKeeps == ASSUME IInv, UNCHANGED vars PROVE IInv'
BY DEF vars, page, server, conversion, IInv, TypeOK, TxInv, PaywallInv, PaywallPanel,
       BridgeInv, OwnerInv

\* The disjuncts of Next by who takes them.
LEMMA NextCases ==
  ASSUME Next
  PROVE  \/ FormNext
         \/ \E r \in Requests : PageNext(r) \/ ResponseNext(r) \/ ServerNext(r)
         \/ \E b \in Bridges : BridgeNext(b)
         \/ \E u \in Users : AccessPaid(u)
BY DEF Next, FormNext, PageNext, ResponseNext, ServerNext, BridgeNext

LEMMA IInvStep == ASSUME GuestAssumption, IInv, [Next]_vars PROVE IInv'
<1>1. CASE UNCHANGED vars
  BY <1>1, StutterKeeps
<1>2. ASSUME NEW r \in Requests, PageNext(r) \/ ResponseNext(r) \/ ServerNext(r)
      PROVE  IInv'
  BY <1>2, PageTypes, ResponseTypes, ServerTypes, PageKeepsBridge, ServerKeepsBridge DEF IInv
<1>3. ASSUME NEW b \in Bridges, BridgeNext(b) PROVE IInv'
  BY <1>3, BridgeTypes, BridgeKeepsBridge DEF IInv
<1>4. ASSUME NEW u \in Users, AccessPaid(u) PROVE IInv'
  BY <1>4, PaidKeeps
<1>5. CASE FormNext
  BY <1>5, FormTypes, FormKeepsBridge DEF IInv
<1> QED
  BY <1>1, <1>2, <1>3, <1>4, <1>5, NextCases

LEMMA Inductive == ASSUME GuestAssumption PROVE Spec => []IInv
<1>1. Init => IInv
  BY InitHolds
<1>2. IInv /\ [Next]_vars => IInv'
  BY IInvStep
<1> QED
  BY <1>1, <1>2, PTL DEF Spec

\* Every variable of Guest keeps its type: no request takes a guest session
\* over its limit of turns, in whichever order slow requests write the row.
THEOREM TypeCorrect == ASSUME GuestAssumption PROVE Spec => []TypeOK
<1>1. IInv => TypeOK
  BY DEF IInv
<1> QED
  BY <1>1, Inductive, PTL

-----------------------------------------------------------------------------
(* The refinement.                                                         *)

LEMMA OwnerInit == ASSUME Init PROVE Promise!Init
BY DEF Init, Owner, Promise!Init

LEMMA OwnerKept ==
  ASSUME UNCHANGED sessions PROVE Owner' = Owner
BY DEF Owner

\* Every step of Guest is a step of Conversion or leaves its variables alone.
LEMMA OwnerStep ==
  ASSUME GuestAssumption, IInv, [Next]_vars
  PROVE  [Promise!Next]_<<Owner, credits>>
<1>1. CASE UNCHANGED <<sessions, credits>>
  BY <1>1, OwnerKept
<1>2. ASSUME NEW u \in Users, AccessPaid(u) PROVE Promise!Next
  <2>1. Promise!AccessPaid(u)
    BY <1>2, OwnerKept DEF AccessPaid, Promise!AccessPaid
  <2> QED
    BY <2>1 DEF Promise!Next
<1>3. ASSUME NEW b \in Bridges, Convert(b) PROVE Promise!Next
  <2> DEFINE g == guestSessionId
             u == UserOf[b]
  <2>1. g \in Requests /\ u \in Users
    BY <1>3 DEF IInv, Convert, BridgeInv, PaywallInv, TypeOK, GuestAssumption
  <2>2. sessions[g] = <<>>
    BY <1>3, <2>1 DEF IInv, Convert, Convertible, BridgeInv, OwnerInv
  <2>3. Owner[g] = None
    BY <2>1, <2>2 DEF Owner
  <2>4. sessions' = [sessions EXCEPT ![g] = <<u>>]
    BY <1>3, <2>2 DEF Convert
  <2>5. Owner' = [Owner EXCEPT ![g] = u]
    <3>1. sessions'[g] = <<u>> /\ \A h \in Requests \ {g} : sessions'[h] = sessions[h]
      BY <2>1, <2>4 DEF IInv, TypeOK
    <3>2. Last(<<u>>) = u /\ <<u>> # <<>>
      BY DEF Last
    <3> QED
      BY <2>1, <3>1, <3>2 DEF Owner
  <2>6. Promise!Convert(g, u)
    BY <1>3, <2>3, <2>5 DEF Convert, Promise!Convert
  <2> QED
    BY <2>1, <2>6 DEF Promise!Next
<1>4. \/ UNCHANGED <<sessions, credits>>
      \/ \E u \in Users : AccessPaid(u)
      \/ \E b \in Bridges : Convert(b)
  <2>1. CASE UNCHANGED vars
    BY <2>1 DEF vars, conversion
  <2>2. CASE Next
    BY <2>2
    DEF Next, EditMaterial, TypeAnswer, TimeOut, HandleStart, HandleSendAnswer,
        SendOnTimeout, Submit, ReceiveStart, ReceiveQuestion, ReceivePaywall,
        RequestFails, LoadGuestSession, AiFails, StoreFirstQuestion, AskQuestion,
        Flush, Respond, Commit, ExpireRow, ServerStep, OpenBridge, LockGuest,
        AnswerUnconverted, Unlock, Land, conversion
  <2> QED
    BY <2>1, <2>2
<1> QED
  BY <1>1, <1>2, <1>3, <1>4

\* Reloaded bridge pages, lost responses and second accounts get no second
\* simulation out of a guest session, and each is paid for by its account
\* (simulation.py:1159-1243): Guest implements Conversion.
THEOREM Implements == ASSUME GuestAssumption PROVE Spec => ImplementsConversion
<1>1. Init => Promise!Init
  BY OwnerInit
<1>2. IInv /\ [Next]_vars => [Promise!Next]_<<Owner, credits>>
  BY OwnerStep
<1> QED
  BY <1>1, <1>2, Inductive, PTL DEF Spec, ImplementsConversion, Promise!Spec
=============================================================================
