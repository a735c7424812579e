---------------------------- MODULE Entitlements ----------------------------
(***************************************************************************)
(* What a user may start, and what starting it costs: the usage_counters   *)
(* row of one account under the concurrent database transactions that read *)
(* and write it.                                                           *)
(*                                                                         *)
(*   Starts       POST /simulation/start and /start-from-scenario          *)
(*   Conversions  POST /simulation/from-guest, once it holds the guest row *)
(*   Views        GET /billing/status                                      *)
(*   Hooks        deliveries of YooKassa's payment.succeeded               *)
(*                                                                         *)
(* Each is one SQLAlchemy session, that is one READ COMMITTED transaction, *)
(* cut at its awaits.  A SELECT sees the committed row or the              *)
(* transaction's own version of it; the first UPDATE takes the row lock    *)
(* and keeps it until the commit or the rollback; a unique key inserted by *)
(* another open transaction makes the INSERT wait.  An ORM attribute       *)
(* assignment is written as the value computed from what was read, and     *)
(* only if it differs from it; update().values(col = col + 1) is computed  *)
(* by the database on the version it locks.                                *)
(***************************************************************************)
EXTENDS Plans, FiniteSets

CONSTANTS
  Starts, Conversions, Views, Hooks,
  Payments,              \* payments YooKassa has taken from the user
  PlanBought,            \* metadata.plan of each of them
  InitialSubscriptions,  \* subscription rows the account may begin with
  InitialCounters,       \* usage_counters rows it may begin with
  MaxDay,                \* bound on the clock
  None

Txns == Starts \cup Conversions \cup Views \cup Hooks

Subscription == [plan: PlanType, status: SubscriptionStatus,
                 period_end: Int]

\* A row that is not present stands for no row; simulations_used is used,
\* session_credits is credits.
Counter == [present: BOOLEAN, credits: Int, used: Int, period_start: Int]

PerSession == {p \in Payments : PlanBought[p] = "per_session"}

ASSUME EntitlementsAssumption ==
  /\ MaxDay \in Nat
  /\ None \notin Txns \cup Payments
  /\ Starts \cap (Conversions \cup Views \cup Hooks) = {}
  /\ Conversions \cap (Views \cup Hooks) = {}
  /\ Views \cap Hooks = {}
  /\ IsFiniteSet(Payments)
  /\ PlanBought \in [Payments -> {"per_session", "personal", "pro", "team"}]
  /\ InitialSubscriptions \subseteq Subscription
  /\ InitialCounters \subseteq
       {row \in Counter : row.credits = 0 /\ (row.present \/ row.used = 0)}

VARIABLES
  now,        \* today
  sub,        \* the committed subscriptions row
  subWork,    \* its uncommitted version, if subLock is not None
  subLock,    \* the transaction that has updated it
  counter,    \* the committed usage_counters row
  work,       \* its uncommitted version, if lock is not None
  lock,       \* the transaction that has updated or inserted it
  payments,   \* committed payments rows, by their unique payment id
  inserted,   \* the open transaction that has inserted each payment id
  pc,         \* where each transaction is
  stage,      \* how far it is in get_usage_counter at that place
  seen,       \* the UsageCounter object it holds
  order,      \* Hooks: the payment the delivery is about
  paid,       \* Starts: the session's persona_config.paid_access
  debited,    \* what consume_session_credit returned
  outcome     \* how the transaction ended

rows == <<sub, subWork, subLock, counter, work, lock, payments, inserted>>
locals == <<order, paid, debited>>
vars == <<now, rows, pc, stage, seen, locals, outcome>>

\* The places at which get_usage_counter is called.
Site == {"check", "access", "spend", "limits", "count", "view", "credit",
         "restart"}
Place == Site \cup {"idle", "ask", "dedupe", "insert", "activate", "commit",
                    "done"}
Stage == {"fetch", "create", "reset", "use"}
Outcome == {"none", "committed", "refused", "failed", "ignored"}

NoRow == [present |-> FALSE, credits |-> 0, used |-> 0, period_start |-> 0]

TypeOK ==
  /\ now \in Nat
  /\ sub \in Subscription /\ subWork \in Subscription
  /\ subLock \in Hooks \cup {None}
  /\ counter \in Counter /\ work \in Counter
  /\ lock \in Txns \cup {None}
  /\ payments \subseteq Payments
  /\ inserted \in [Payments -> Hooks \cup {None}]
  /\ pc \in [Txns -> Place]
  /\ stage \in [Txns -> Stage]
  /\ seen \in [Txns -> Counter]
  /\ order \in [Hooks -> Payments \cup {None}]
  /\ \A h \in Hooks : pc[h] # "idle" => order[h] # None
  /\ paid \in [Starts -> BOOLEAN]
  /\ debited \in [Txns -> BOOLEAN]
  /\ outcome \in [Txns -> Outcome]

Init ==
  /\ now = 0
  /\ sub \in InitialSubscriptions /\ subWork = sub /\ subLock = None
  /\ counter \in InitialCounters /\ work = counter /\ lock = None
  /\ payments = {} /\ inserted = [p \in Payments |-> None]
  /\ pc = [t \in Txns |-> "idle"]
  /\ stage = [t \in Txns |-> "fetch"]
  /\ seen = [t \in Txns |-> NoRow]
  /\ order = [h \in Hooks |-> None]
  /\ paid = [t \in Starts |-> FALSE]
  /\ debited = [t \in Txns |-> FALSE]
  /\ outcome = [t \in Txns |-> "none"]

-----------------------------------------------------------------------------
(* Transactions: what they see, what they write, how they end.             *)

Visible(t) == IF lock = t THEN work ELSE counter
VisibleSub(t) == IF subLock = t THEN subWork ELSE sub

\* An INSERT or UPDATE of the row by t, once no other transaction holds it.
Write(t, row) ==
  /\ lock \in {None, t}
  /\ lock' = t
  /\ work' = row
  /\ UNCHANGED <<sub, subWork, subLock, counter, payments, inserted>>

At(t, site) == pc[t] = site /\ stage[t] = "use"

\* t goes on to the next place; the UsageCounter object it held is released.
GoTo(t, place) ==
  /\ pc' = [pc EXCEPT ![t] = place]
  /\ stage' = [stage EXCEPT ![t] = "fetch"]
  /\ seen' = [seen EXCEPT ![t] = NoRow]

End(t, result) ==
  /\ GoTo(t, "done")
  /\ outcome' = [outcome EXCEPT ![t] = result]
  /\ UNCHANGED <<now, locals>>

\* get_db: what t has written becomes the database's state, its locks go.
Commit(t) ==
  /\ pc[t] = "commit"
  /\ counter' = Visible(t)
  /\ sub' = VisibleSub(t)
  /\ payments' = payments \cup {p \in Payments : inserted[p] = t}
  /\ lock' = IF lock = t THEN None ELSE lock
  /\ subLock' = IF subLock = t THEN None ELSE subLock
  /\ inserted' = [p \in Payments |-> IF inserted[p] = t THEN None ELSE inserted[p]]
  /\ UNCHANGED <<work, subWork>>
  /\ End(t, "committed")

\* Variant: the payments row is undone, the counter is not.
RollbackKeepsCounter(t, result) ==
  /\ counter' = Visible(t)
  /\ lock' = IF lock = t THEN None ELSE lock
  /\ subLock' = IF subLock = t THEN None ELSE subLock
  /\ inserted' = [p \in Payments |-> IF inserted[p] = t THEN None ELSE inserted[p]]
  /\ UNCHANGED <<sub, subWork, work, payments>>
  /\ End(t, result)

\* Variant: the session is not closed, its row lock stays.
RollbackKeepsLock(t, result) ==
  /\ UNCHANGED rows
  /\ End(t, result)

\* get_db: an exception undoes what t has written.
Rollback(t, result) ==
  /\ lock' = IF lock = t THEN None ELSE lock
  /\ subLock' = IF subLock = t THEN None ELSE subLock
  /\ inserted' = [p \in Payments |-> IF inserted[p] = t THEN None ELSE inserted[p]]
  /\ work' = IF lock = t THEN counter ELSE work
  /\ subWork' = IF subLock = t THEN sub ELSE subWork
  /\ UNCHANGED <<sub, counter, payments>>
  /\ End(t, result)

\* The AI service gives up, the connection drops, the process is killed.
Fail(t) ==
  /\ pc[t] \notin {"idle", "done"}
  /\ Rollback(t, "failed")

-----------------------------------------------------------------------------
(* get_usage_counter.                                                      *)

RolledOver(t, row) ==
  /\ EffectivePlan(VisibleSub(t), now) \in SubscriptionPlans
  /\ now > row.period_start + BILLING_PERIOD_DAYS

FetchCounter(t) ==
  /\ pc[t] \in Site /\ stage[t] = "fetch"
  /\ seen' = [seen EXCEPT ![t] = Visible(t)]
  /\ stage' = [stage EXCEPT ![t] =
                 CASE ~Visible(t).present          -> "create"
                   [] Visible(t).present /\ RolledOver(t, Visible(t)) -> "reset"
                   [] OTHER                        -> "use"]
  /\ UNCHANGED <<now, rows, pc, locals, outcome>>

CreateCounter(t) ==
  LET row == [present |-> TRUE, credits |-> 0, used |-> 0, period_start |-> now]
  IN  /\ pc[t] \in Site /\ stage[t] = "create"
      /\ ~counter.present
      /\ Write(t, row)
      /\ seen' = [seen EXCEPT ![t] = row]
      /\ stage' = [stage EXCEPT ![t] = "use"]
      /\ UNCHANGED <<now, pc, locals, outcome>>

\* user_id is unique: another transaction has created the row meanwhile.
CreateConflict(t) ==
  /\ pc[t] \in Site /\ stage[t] = "create"
  /\ lock \in {None, t}
  /\ counter.present
  /\ Rollback(t, "failed")

\* The new period: a column whose old value was 0 already is not written.
ResetPeriod(t) ==
  LET used == IF seen[t].used = 0 THEN Visible(t).used ELSE 0
  IN  /\ pc[t] \in Site /\ stage[t] = "reset"
      /\ Write(t, [Visible(t) EXCEPT !.used = used, !.period_start = now])
      /\ seen' = [seen EXCEPT ![t].used = 0, ![t].period_start = now]
      /\ stage' = [stage EXCEPT ![t] = "use"]
      /\ UNCHANGED <<now, pc, locals, outcome>>

-----------------------------------------------------------------------------
(* POST /simulation/start.                                                 *)

BeginStart(t) ==
  /\ pc[t] = "idle"
  /\ GoTo(t, "check")
  /\ UNCHANGED <<now, rows, locals, outcome>>

\* check_simulation_limit lets the request in.
Admitted(t) ==
  \/ seen[t].credits > 0
  \/ WithinLimit(VisibleSub(t), seen[t].used, now)

AdmitStart(t) ==
  /\ At(t, "check")
  /\ Admitted(t)
  /\ GoTo(t, "access")
  /\ UNCHANGED <<now, rows, locals, outcome>>

\* 402, raised out of the dependency.
RefuseStart(t) ==
  /\ At(t, "check")
  /\ ~Admitted(t)
  /\ Rollback(t, "refused")

\* _user_has_artifact_access, stored in the session's persona_config.
RecordAccess(t) ==
  /\ At(t, "access")
  /\ paid' = [paid EXCEPT ![t] = \/ seen[t].credits > 0
                                 \/ EffectivePlan(VisibleSub(t), now) # "free"]
  /\ GoTo(t, "ask")
  /\ UNCHANGED <<now, rows, order, debited, outcome>>

\* The AI service returns the first question.
AskQuestion(t) ==
  /\ pc[t] = "ask"
  /\ GoTo(t, "spend")
  /\ UNCHANGED <<now, rows, locals, outcome>>

-----------------------------------------------------------------------------
(* consume_session_credit and increment_simulation_counter.                *)

\* Variant: the UPDATE has no "session_credits > 0" in its WHERE clause.
DebitUnguarded(t) ==
  /\ At(t, "spend")
  /\ seen[t].credits > 0
  /\ Write(t, [Visible(t) EXCEPT !.credits = @ - 1])
  /\ debited' = [debited EXCEPT ![t] = TRUE]
  /\ GoTo(t, "count")
  /\ UNCHANGED <<now, order, paid, outcome>>

\* The UPDATE's WHERE clause holds of the version it locks.
Debit(t) ==
  /\ At(t, "spend")
  /\ seen[t].credits > 0
  /\ Visible(t).credits > 0
  /\ Write(t, [Visible(t) EXCEPT !.credits = @ - 1])
  /\ debited' = [debited EXCEPT ![t] = TRUE]
  /\ GoTo(t, "count")
  /\ UNCHANGED <<now, order, paid, outcome>>

\* No credit was read, or the UPDATE matches no row.  A start goes on all
\* the same, a conversion falls back on the subscription.
NoDebit(t) ==
  /\ At(t, "spend")
  /\ seen[t].credits <= 0 \/ Visible(t).credits <= 0
  /\ GoTo(t, IF t \in Starts THEN "count" ELSE "limits")
  /\ UNCHANGED <<now, rows, locals, outcome>>

\* Variant: counter.simulations_used += 1 on the object that was read.
CountUseFromRead(t) ==
  /\ At(t, "count")
  /\ Write(t, [Visible(t) EXCEPT !.used = seen[t].used + 1])
  /\ GoTo(t, "commit")
  /\ UNCHANGED <<now, locals, outcome>>

CountUse(t) ==
  /\ At(t, "count")
  /\ Write(t, [Visible(t) EXCEPT !.used = @ + 1])
  /\ GoTo(t, "commit")
  /\ UNCHANGED <<now, locals, outcome>>

-----------------------------------------------------------------------------
(* POST /simulation/from-guest, and GET /billing/status.                   *)

BeginConversion(t) ==
  /\ pc[t] = "idle"
  /\ GoTo(t, "spend")
  /\ UNCHANGED <<now, rows, locals, outcome>>

\* _resolve_guest_conversion_access finds a subscription to convert under.
CoveredBySubscription(t) ==
  /\ EffectivePlan(VisibleSub(t), now) \notin {"free", "per_session"}
  /\ IsSubscriptionActive(VisibleSub(t), now)
  /\ WithinLimit(VisibleSub(t), seen[t].used, now)

AdmitConversion(t) ==
  /\ At(t, "limits")
  /\ CoveredBySubscription(t)
  /\ GoTo(t, "count")
  /\ UNCHANGED <<now, rows, locals, outcome>>

RefuseConversion(t) ==
  /\ At(t, "limits")
  /\ ~CoveredBySubscription(t)
  /\ Rollback(t, "refused")

BeginView(t) ==
  /\ pc[t] = "idle"
  /\ GoTo(t, "view")
  /\ UNCHANGED <<now, rows, locals, outcome>>

EndView(t) ==
  /\ At(t, "view")
  /\ GoTo(t, "commit")
  /\ UNCHANGED <<now, rows, locals, outcome>>

-----------------------------------------------------------------------------
(* POST /webhooks/yookassa, payment.succeeded.                             *)

\* Variant: the payment's id is not taken from the event.
ReceiveAnonymous(h, p) ==
  /\ pc[h] = "idle"
  /\ GoTo(h, "dedupe")
  /\ UNCHANGED <<now, rows, locals, outcome>>

\* YooKassa delivers a payment, for the first time or again.
Receive(h, p) ==
  /\ pc[h] = "idle"
  /\ order' = [order EXCEPT ![h] = p]
  /\ GoTo(h, "dedupe")
  /\ UNCHANGED <<now, rows, paid, debited, outcome>>

\* The payments row is there already.
Ignore(h) ==
  /\ pc[h] = "dedupe"
  /\ order[h] \in payments
  /\ Rollback(h, "ignored")

Accept(h) ==
  /\ pc[h] = "dedupe"
  /\ order[h] \notin payments
  /\ GoTo(h, IF order[h] \in PerSession THEN "insert" ELSE "activate")
  /\ UNCHANGED <<now, rows, locals, outcome>>

\* Variant: payments.yookassa_payment_id is not unique.
KeyNeverTaken(h) == TRUE

\* Nobody else has this payment id, committed or not.
KeyFree(h) == order[h] \notin payments /\ inserted[order[h]] = None

\* The payments row is flushed before get_usage_counter's first SELECT.
InsertPayment(h) ==
  /\ pc[h] = "insert"
  /\ KeyFree(h)
  /\ inserted' = [inserted EXCEPT ![order[h]] = h]
  /\ GoTo(h, "credit")
  /\ UNCHANGED <<now, sub, subWork, subLock, counter, work, lock, payments,
                 locals, outcome>>

\* counter.session_credits += 1, computed from the object that was read.
AddCredit(h) ==
  /\ At(h, "credit")
  /\ Write(h, [Visible(h) EXCEPT !.credits = seen[h].credits + 1])
  /\ GoTo(h, "commit")
  /\ UNCHANGED <<now, locals, outcome>>

\* A subscription payment: the subscriptions row and the payments row go to
\* the database in one flush.
ActivatePlan(h) ==
  /\ pc[h] = "activate"
  /\ subLock = None
  /\ KeyFree(h)
  /\ subLock' = h
  /\ subWork' = [plan |-> PlanBought[order[h]], status |-> "active",
                 period_end |-> now + BILLING_PERIOD_DAYS]
  /\ inserted' = [inserted EXCEPT ![order[h]] = h]
  /\ GoTo(h, "restart")
  /\ UNCHANGED <<now, sub, counter, work, lock, payments, locals, outcome>>

\* The second INSERT of a payment id fails once the first has committed.
DuplicateKey(h) ==
  /\ pc[h] \in {"insert", "activate"}
  /\ order[h] \in payments
  /\ Rollback(h, "failed")

\* The counters of the new period.
RestartCounter(h) ==
  LET used == IF seen[h].used = 0 THEN Visible(h).used ELSE 0
  IN  /\ At(h, "restart")
      /\ Write(h, [Visible(h) EXCEPT !.used = used, !.period_start = now])
      /\ GoTo(h, "commit")
      /\ UNCHANGED <<now, locals, outcome>>

-----------------------------------------------------------------------------
Tick ==
  /\ now < MaxDay
  /\ now' = now + 1
  /\ UNCHANGED <<rows, pc, stage, seen, locals, outcome>>

GetUsageCounter(t) ==
  FetchCounter(t) \/ CreateCounter(t) \/ CreateConflict(t) \/ ResetPeriod(t)

StartStep(t) ==
  AdmitStart(t) \/ RefuseStart(t) \/ RecordAccess(t) \/ AskQuestion(t)

SpendStep(t) == Debit(t) \/ NoDebit(t) \/ CountUse(t)

ConversionStep(t) == AdmitConversion(t) \/ RefuseConversion(t)

HookStep(h) ==
  \/ Ignore(h) \/ Accept(h) \/ InsertPayment(h) \/ AddCredit(h)
  \/ ActivatePlan(h) \/ DuplicateKey(h) \/ RestartCounter(h)

\* What a transaction that has begun does next, except failing.
Proceed(t) ==
  \/ GetUsageCounter(t)
  \/ Commit(t)
  \/ t \in Starts /\ StartStep(t)
  \/ t \in Starts \cup Conversions /\ SpendStep(t)
  \/ t \in Conversions /\ ConversionStep(t)
  \/ t \in Views /\ EndView(t)
  \/ t \in Hooks /\ HookStep(t)

Begin(t) ==
  \/ t \in Starts /\ BeginStart(t)
  \/ t \in Conversions /\ BeginConversion(t)
  \/ t \in Views /\ BeginView(t)
  \/ t \in Hooks /\ \E p \in Payments : Receive(t, p)

\* Every request has been answered and the clock is at its bound.
Quiet ==
  /\ now = MaxDay
  /\ \A t \in Txns : pc[t] = "done"
  /\ UNCHANGED vars

Next ==
  \/ Tick
  \/ \E t \in Txns : Begin(t) \/ Proceed(t) \/ Fail(t)
  \/ Quiet

Spec == Init /\ [][Next]_vars

-----------------------------------------------------------------------------
(* What holds.                                                             *)

Ended(T, result) == {t \in T : outcome[t] = result}

\* No interleaving of starts, conversions and webhooks drives the balance
\* below zero, although each reads it long before it updates it
\* (consume_session_credit, limits.py:389-414).
CreditsNonNegative == counter.credits >= 0 /\ work.credits >= 0

\* However often and however concurrently YooKassa delivers a payment, one
\* delivery at most applies it (_handle_payment_succeeded,
\* webhooks.py:128-134, and the unique key of payments).
PaymentAppliedOnce ==
  \A g, h \in Ended(Hooks, "committed") : order[g] = order[h] => g = h

\* There are never more credits than per-session payments recorded: a credit
\* is only ever committed together with the payment that bought it
\* (webhooks.py:160-182).
CreditsBackedByPayments ==
  counter.credits <= Cardinality(payments \cap PerSession)

\* A start or conversion that commits takes exactly what it debited from the
\* balance as it then stands, whatever committed since it read the row; on
\* the free plan, whose count is for life, it adds exactly one use to the
\* count as it then stands (limits.py:367-414).
ChargedExactly ==
  [][\A t \in Starts \cup Conversions :
       outcome[t] # "committed" /\ outcome'[t] = "committed" =>
         /\ counter'.credits = counter.credits - (IF debited[t] THEN 1 ELSE 0)
         /\ sub.plan = "free" => counter'.used = counter.used + 1]_vars

\* Row locks and unique keys never leave a request waiting for ever.
RequestsEnd == \A t \in Txns : pc[t] # "idle" ~> pc[t] = "done"

-----------------------------------------------------------------------------
(* What the code's comments say and does not hold.                         *)

\* billing.py:316-317: "On webhook success, session_credits += 1".
EveryPaymentCredited ==
  counter.credits + Cardinality({t \in Ended(Txns, "committed") : debited[t]})
    = Cardinality(payments \cap PerSession)
=============================================================================
