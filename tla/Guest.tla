------------------------------- MODULE Guest -------------------------------
(* The guest rehearsal: the page of a visitor without an account, the      *)
(* server's guest_sessions rows, and the bridge page that turns a guest    *)
(* session into a paid simulation.  A request the page has given up on     *)
(* goes on at the server; every request commits after its response.        *)
EXTENDS Naturals, Sequences, FiniteSets

CONSTANTS
  GUEST_MAX_TURNS,
  Requests,      \* HTTP requests of the guest page; a start names its row
  Bridges,       \* visits of the bridge page
  Users,
  UserOf,        \* who is signed in at each visit
  MaxCredits,    \* bound: conversions an account can pay for at a time
  MaxTimeouts,   \* bound: submissions the timer makes
  None

GuestAssumption ==
  /\ GUEST_MAX_TURNS \in Nat \ {0}
  /\ MaxCredits \in Nat /\ MaxTimeouts \in Nat
  /\ Requests \cap Bridges = {} /\ None \notin Requests \cup Bridges \cup Users
  /\ UserOf \in [Bridges -> Users]

VARIABLES
  \* the page
  step, ready, answer, loading, expired, shown, guestSessionId,
  pending,       \* the request whose response the page awaits
  timeouts,      \* submissions of the timer since it last ran out
  \* the server
  row,           \* committed guest_sessions, by the request that made them
  held,          \* who has locked each row
  tx,            \* guest-start and guest-message transactions
  \* the conversion
  storage,       \* peaktalk_guest_session_id in localStorage
  bridge, credits, sessions

page == <<step, ready, answer, loading, expired, shown, guestSessionId,
          pending, timeouts>>
server == <<row, held, tx>>
conversion == <<storage, bridge, credits, sessions>>
vars == <<page, server, conversion>>

Question == "assistant"
Answer == "user"
Log == Seq({Question, Answer})

\* guest_sessions: turn_count and the JSON list of messages.
GuestSession == [exists : BOOLEAN, live : BOOLEAN, turn : 0..GUEST_MAX_TURNS,
                 log : Log, migrated : Users \cup {None}]
Absent == [exists |-> FALSE, live |-> TRUE, turn |-> 0, log |-> <<>>,
           migrated |-> None]

Place == {"idle", "load", "ask", "write", "respond", "sent", "done"}
Outcome == {"none", "started", "question", "limit", "error"}
Transaction == [pc : Place, on : Requests \cup {None}, turn : 0..GUEST_MAX_TURNS,
                log : Log, outcome : Outcome]

\* A visit of the bridge page: its request, the migrated_session_id it has
\* read under the lock, and where the page is.
Visit == [pc : {"idle", "none", "post", "locked", "session", "refused", "unpaid"},
          seen : Users \cup {None},
          page : {"idle", "waiting", "dashboard", "session", "billing", "error", "gone"}]

TypeOK ==
  /\ step \in {"input", "chat", "paywall"}
  /\ ready \in BOOLEAN /\ answer \in BOOLEAN
  /\ loading \in BOOLEAN /\ expired \in BOOLEAN
  /\ shown \in Seq({Question, Answer})
  /\ guestSessionId \in Requests \cup {None}
  /\ pending \in Requests \cup {None}
  /\ timeouts \in Nat
  /\ row \in [Requests -> GuestSession]
  /\ held \in [Requests -> Requests \cup Bridges \cup {None}]
  /\ tx \in [Requests -> Transaction]
  /\ storage \in Requests \cup {None}
  /\ bridge \in [Bridges -> Visit]
  /\ credits \in [Users -> 0..MaxCredits]
  /\ sessions \in [Requests -> Seq(Users)]

\* A visitor who comes from a scenario finds its material filled in.
Init ==
  /\ step = "input" /\ ready \in BOOLEAN /\ answer = FALSE /\ loading = FALSE
  /\ expired = FALSE /\ shown = <<>> /\ guestSessionId = None
  /\ pending = None /\ timeouts = 0
  /\ row = [r \in Requests |-> Absent]
  /\ held = [r \in Requests |-> None]
  /\ tx = [r \in Requests |-> [pc |-> "idle", on |-> None, turn |-> 0,
                               log |-> <<>>, outcome |-> "none"]]
  /\ storage = None
  /\ bridge = [b \in Bridges |-> [pc |-> "idle", seen |-> None, page |-> "idle"]]
  /\ credits = [u \in Users |-> 0]
  /\ sessions = [r \in Requests |-> <<>>]

Last(s) == s[Len(s)]

-----------------------------------------------------------------------------
(* What the page offers in each step.                                      *)

\* The material is edited, pasted or came with a scenario; start is enabled
\* with 20 characters and no request under way.
InputPanel == step = "input"
StartEnabled == InputPanel /\ ready /\ ~loading

\* The answer's box is disabled during a request, the button without text.
\* When the timer has run out its effect goes before any event of the user.
ChatPanel == step = "chat"
AnswerEnabled == ChatPanel /\ ~loading /\ ~expired
SendEnabled == AnswerEnabled /\ answer

\* Nothing but the links to billing, registration and login.
PaywallPanel == step = "paywall"

EditMaterial ==
  /\ InputPanel
  /\ ready' = ~ready
  /\ UNCHANGED <<step, answer, loading, expired, shown, guestSessionId, pending,
                 timeouts, server, conversion>>

TypeAnswer ==
  /\ AnswerEnabled
  /\ answer' = ~answer
  /\ UNCHANGED <<step, ready, loading, expired, shown, guestSessionId, pending,
                 timeouts, server, conversion>>

-----------------------------------------------------------------------------
(* The page's requests.                                                    *)

Issue(r, place, on) ==
  /\ tx[r].pc = "idle"
  /\ tx' = [tx EXCEPT ![r].pc = place, ![r].on = on]
  /\ pending' = r
  /\ loading' = TRUE

HandleStart(r) ==
  /\ StartEnabled
  /\ Issue(r, "ask", r)
  /\ UNCHANGED <<step, ready, answer, expired, shown, guestSessionId, timeouts,
                 row, held, conversion>>

\* The answer is shown at once.
Submit(r) ==
  /\ guestSessionId # None /\ ~loading
  /\ Issue(r, "load", guestSessionId)
  /\ shown' = Append(shown, Answer)
  /\ UNCHANGED <<step, ready, expired, guestSessionId, row, held, conversion>>

HandleSendAnswer(r) ==
  /\ SendEnabled
  /\ Submit(r)
  /\ answer' = FALSE
  /\ UNCHANGED timeouts

\* The effect on the timer sends what is in the box or a fallback text, and
\* leaves the box as it is.
SendOnTimeout(r) ==
  /\ ChatPanel /\ expired /\ timeouts < MaxTimeouts
  /\ Submit(r)
  /\ timeouts' = timeouts + 1
  /\ UNCHANGED answer

\* The 90 seconds run out; they stand still during a request.
TimeOut ==
  /\ ChatPanel /\ ~loading /\ ~expired
  /\ expired' = TRUE /\ timeouts' = 0
  /\ UNCHANGED <<step, ready, answer, loading, shown, guestSessionId, pending,
                 server, conversion>>

Settled == pending' = None /\ loading' = FALSE

ReceiveStart(r) ==
  /\ pending = r /\ tx[r].pc \in {"sent", "done"} /\ tx[r].outcome = "started"
  /\ Settled
  /\ guestSessionId' = r
  /\ shown' = <<Question>>
  /\ expired' = FALSE
  /\ step' = "chat"
  /\ UNCHANGED <<ready, answer, timeouts, server, conversion>>

ReceiveQuestion(r) ==
  /\ pending = r /\ tx[r].pc \in {"sent", "done"} /\ tx[r].outcome = "question"
  /\ Settled
  /\ shown' = Append(shown, Question)
  /\ expired' = FALSE
  /\ UNCHANGED <<step, ready, answer, guestSessionId, timeouts, server, conversion>>

\* The limit: the session's id is kept for the bridge page.
ReceivePaywall(r) ==
  /\ pending = r /\ tx[r].pc \in {"sent", "done"} /\ tx[r].outcome = "limit"
  /\ Settled
  /\ storage' = guestSessionId
  /\ step' = "paywall"
  /\ UNCHANGED <<ready, answer, expired, shown, guestSessionId, timeouts, server,
                 bridge, credits, sessions>>

\* What the page takes back when a request fails: the answer shown.
Withdrawn == IF ChatPanel THEN SubSeq(shown, 1, Len(shown) - 1) ELSE shown

\* An error response, or a response that is lost while the server goes on.
\* The text of the answer returns to the box it was typed in; after a timeout
\* the box still has it, so that only fallback texts leave the box empty.
RequestFails(r) ==
  /\ pending = r
  /\ Settled
  /\ shown' = Withdrawn
  /\ answer' = IF ChatPanel /\ ~expired THEN TRUE ELSE answer
  /\ UNCHANGED <<step, ready, expired, guestSessionId, timeouts, server,
                 conversion>>

-----------------------------------------------------------------------------
(* guest-start and guest-message.                                          *)

ServerStep(r, new) ==
  /\ tx' = [tx EXCEPT ![r] = new]
  /\ UNCHANGED <<page, conversion>>

\* Variant: the limit of turns is not checked.
LoadGuestSessionUnlimited(r) ==
  /\ tx[r].pc = "load"
  /\ LET g == row[tx[r].on]
     IN ServerStep(r, IF ~g.exists \/ ~g.live
                      THEN [tx[r] EXCEPT !.pc = "done", !.outcome = "error"]
                      ELSE [tx[r] EXCEPT !.turn = g.turn, !.log = g.log, !.pc = "ask"])
  /\ UNCHANGED <<row, held>>

\* _load_guest_session, 404 and 410; then one of the two branches.
LoadGuestSession(r) ==
  /\ tx[r].pc = "load"
  /\ LET g == row[tx[r].on]
         read == [tx[r] EXCEPT !.turn = g.turn, !.log = g.log]
     IN ServerStep(r, IF ~g.exists \/ ~g.live
                      THEN [tx[r] EXCEPT !.pc = "done", !.outcome = "error"]
                      ELSE IF g.turn >= GUEST_MAX_TURNS
                      THEN [read EXCEPT !.pc = "write", !.outcome = "limit"]
                      ELSE [read EXCEPT !.pc = "ask"])
  /\ UNCHANGED <<row, held>>

\* generate_question raises: rolled back, 502.
AiFails(r) ==
  /\ tx[r].pc = "ask"
  /\ ServerStep(r, [tx[r] EXCEPT !.pc = "done", !.outcome = "error"])
  /\ UNCHANGED <<row, held>>

\* The first question is stored with the row that guest-start inserts.
StoreFirstQuestion(r) ==
  /\ tx[r].pc = "ask" /\ tx[r].on = r
  /\ ServerStep(r, [tx[r] EXCEPT !.pc = "respond", !.outcome = "started",
                                 !.turn = 1, !.log = <<Question>>])
  /\ UNCHANGED <<row, held>>

AskQuestion(r) ==
  /\ tx[r].pc = "ask" /\ tx[r].on # r
  /\ ServerStep(r, [tx[r] EXCEPT !.pc = "write", !.outcome = "question",
                                 !.turn = @ + 1,
                                 !.log = @ \o <<Answer, Question>>])
  /\ UNCHANGED <<row, held>>

\* The answer to the last question is appended once.
FinalLog(log) == IF Last(log) = Answer THEN log ELSE Append(log, Answer)

\* The flush waits for the row's lock.  At the limit it is sent only if the
\* answer is new.
Flush(r) ==
  /\ tx[r].pc = "write"
  /\ LET final == tx[r].outcome = "limit"
         log == IF final THEN FinalLog(tx[r].log) ELSE tx[r].log
     IN /\ IF final /\ log = tx[r].log
           THEN UNCHANGED held
           ELSE held[tx[r].on] = None /\ held' = [held EXCEPT ![tx[r].on] = r]
        /\ ServerStep(r, [tx[r] EXCEPT !.pc = "respond", !.log = log])
  /\ UNCHANGED row

Respond(r) ==
  /\ tx[r].pc = "respond"
  /\ ServerStep(r, [tx[r] EXCEPT !.pc = "sent"])
  /\ UNCHANGED <<row, held>>

\* What the UPDATE leaves: a request at the limit writes the messages only.
Written(r) ==
  LET g == row[tx[r].on]
  IN CASE tx[r].outcome = "started"  -> [g EXCEPT !.exists = TRUE, !.turn = 1,
                                                  !.log = tx[r].log]
       [] tx[r].outcome = "question" -> [g EXCEPT !.turn = tx[r].turn,
                                                  !.log = tx[r].log]
       [] OTHER -> IF held[tx[r].on] = r THEN [g EXCEPT !.log = tx[r].log] ELSE g

\* get_db commits after the response has been sent.
Commit(r) ==
  /\ tx[r].pc = "sent"
  /\ row' = [row EXCEPT ![tx[r].on] = Written(r)]
  /\ held' = [g \in Requests |-> IF held[g] = r THEN None ELSE held[g]]
  /\ ServerStep(r, [tx[r] EXCEPT !.pc = "done"])

\* A day passes.
ExpireRow(g) ==
  /\ row[g].exists /\ row[g].live /\ held[g] = None
  /\ row' = [row EXCEPT ![g].live = FALSE]
  /\ UNCHANGED <<page, held, tx, conversion>>

-----------------------------------------------------------------------------
(* The bridge page and POST /simulation/from-guest.                        *)

\* A webhook brings the account what a conversion costs.
AccessPaid(u) ==
  /\ PaywallPanel /\ credits[u] < MaxCredits
  /\ credits' = [credits EXCEPT ![u] = @ + 1]
  /\ UNCHANGED <<page, server, storage, bridge, sessions>>

OpenBridge(b) ==
  /\ PaywallPanel /\ bridge[b].pc = "idle"
  /\ bridge' = [bridge EXCEPT
                  ![b].pc = IF storage = None THEN "none" ELSE "post",
                  ![b].page = IF storage = None THEN "dashboard" ELSE "waiting"]
  /\ UNCHANGED <<page, server, storage, credits, sessions>>

\* Variant: the SELECT is not FOR UPDATE.
ReadGuest(b) ==
  /\ bridge[b].pc = "post"
  /\ bridge' = [bridge EXCEPT ![b].pc = "locked",
                              ![b].seen = row[guestSessionId].migrated]
  /\ UNCHANGED <<page, server, storage, credits, sessions>>

\* SELECT ... FOR UPDATE of the guest session.
LockGuest(b) ==
  /\ bridge[b].pc = "post" /\ held[guestSessionId] = None
  /\ held' = [held EXCEPT ![guestSessionId] = b]
  /\ bridge' = [bridge EXCEPT ![b].pc = "locked",
                              ![b].seen = row[guestSessionId].migrated]
  /\ UNCHANGED <<page, row, tx, storage, credits, sessions>>

Unlock(b, result) ==
  /\ held' = [held EXCEPT ![guestSessionId] = None]
  /\ bridge' = [bridge EXCEPT ![b].pc = result]
  /\ UNCHANGED <<page, tx, storage>>

Convertible(b) == bridge[b].seen = None /\ row[guestSessionId].live

\* Already migrated: its simulation for its owner, 409 for another account.
\* Expired: 410.  No paid access: 402.
AnswerUnconverted(b) ==
  /\ bridge[b].pc = "locked"
  /\ \/ bridge[b].seen = UserOf[b] /\ Unlock(b, "session")
     \/ bridge[b].seen \notin {None, UserOf[b]} /\ Unlock(b, "refused")
     \/ /\ bridge[b].seen = None /\ ~row[guestSessionId].live
        /\ Unlock(b, "refused")
     \/ Convertible(b) /\ credits[UserOf[b]] = 0 /\ Unlock(b, "unpaid")
  /\ UNCHANGED <<row, credits, sessions>>

\* The access is spent, the simulation made, the row marked, in one commit.
Convert(b) ==
  /\ bridge[b].pc = "locked" /\ Convertible(b) /\ credits[UserOf[b]] > 0
  /\ Unlock(b, "session")
  /\ credits' = [credits EXCEPT ![UserOf[b]] = @ - 1]
  /\ sessions' = [sessions EXCEPT ![guestSessionId] = Append(@, UserOf[b])]
  /\ row' = [row EXCEPT ![guestSessionId].migrated = UserOf[b]]

\* The page goes where the response sends it.  Every end but 402, a lost
\* response included, drops the stored id; a page that was left meanwhile drops
\* it on success only.
Land(b) ==
  /\ bridge[b].page = "waiting"
  /\ \E to \in {"session", "billing", "error", "gone"} :
       /\ to = "session" => bridge[b].pc = "session"
       /\ to = "billing" => bridge[b].pc = "unpaid"
       /\ bridge' = [bridge EXCEPT ![b].page = to]
       /\ storage' = IF to = "billing" \/ (to = "gone" /\ bridge[b].pc # "session")
                     THEN storage ELSE None
  /\ UNCHANGED <<page, server, credits, sessions>>

-----------------------------------------------------------------------------
Next ==
  \/ EditMaterial \/ TypeAnswer \/ TimeOut
  \/ \E r \in Requests :
       \/ HandleStart(r) \/ HandleSendAnswer(r) \/ SendOnTimeout(r)
       \/ ReceiveStart(r) \/ ReceiveQuestion(r) \/ ReceivePaywall(r)
       \/ RequestFails(r)
       \/ LoadGuestSession(r) \/ AiFails(r) \/ StoreFirstQuestion(r)
       \/ AskQuestion(r) \/ Flush(r) \/ Respond(r) \/ Commit(r) \/ ExpireRow(r)
  \/ \E b \in Bridges :
       \/ OpenBridge(b) \/ LockGuest(b) \/ AnswerUnconverted(b)
       \/ Convert(b) \/ Land(b)
  \/ \E u \in Users : AccessPaid(u)

Spec == Init /\ [][Next]_vars
-----------------------------------------------------------------------------
(* Properties.                                                             *)

\* What the accounts have got out of the guest sessions, as Conversion has it.
Owner == [g \in Requests |-> IF sessions[g] = <<>> THEN None ELSE Last(sessions[g])]

Promise == INSTANCE Conversion WITH Guests <- Requests, owner <- Owner

\* Reloaded bridge pages, responses that are lost and second accounts get no
\* second simulation out of a guest session, and every simulation is paid for
\* by the account that has it (simulation.py:1160-1190, 1199-1243).
ImplementsConversion == Promise!Spec
=============================================================================
