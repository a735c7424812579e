---------------------------- MODULE Subscriptions ----------------------------
(***************************************************************************)
(* The life of one account's subscriptions row: the daily renewal worker,  *)
(* POST /billing/cancel and YooKassa's webhooks write it concurrently, and *)
(* YooKassa takes the money.                                               *)
(*                                                                         *)
(* Every writer loads the row into an ORM object, assigns attributes and   *)
(* flushes: the UPDATE writes the columns whose value was changed, and     *)
(* leaves the others as they are in the database by then.  An object that  *)
(* is already loaded is not refreshed by a later SELECT that returns its   *)
(* row.  Row locks and visibility are as in Entitlements.                  *)
(*                                                                         *)
(* YooKassa is external: it remembers idempotence keys, settles a pending  *)
(* payment once, and delivers its outcome any number of times, in any      *)
(* order.                                                                  *)
(***************************************************************************)
EXTENDS Plans, Sequences

CONSTANTS
  Worker,                \* renew_subscriptions_task, one run a day
  Cancels, Hooks,        \* requests in progress, one after another each
  Offers,                \* plans the user may check out
  InitialSubscriptions,  \* subscription rows the account may begin with
  MaxDay,                \* bound on the clock, see BeginRun
  MaxPayments,           \* bound on the payments YooKassa accepts
  None

Txns == {Worker} \cup Cancels \cup Hooks

\* method and cancelled say whether yookassa_payment_method_id and
\* cancelled_at are set.
Row == [plan: PlanType, status: SubscriptionStatus, period_end: Int,
        method: BOOLEAN, cancelled: BOOLEAN]

Columns == {"plan", "status", "period_end", "method", "cancelled"}

\* The plans the worker renews and ends; a legacy starter is not among them.
Renewable == {"personal", "pro", "team"}

ASSUME SubscriptionsAssumption ==
  /\ MaxDay \in Nat /\ MaxPayments \in Nat
  /\ None \notin Txns \cup Row
  /\ Worker \notin Cancels \cup Hooks /\ Cancels \cap Hooks = {}
  /\ Offers \subseteq Renewable
  /\ InitialSubscriptions \subseteq
       {row \in Row : row.plan \in Renewable => row.period_end # NoEnd}

\* A payment at YooKassa: aim is the period_end it was to renew.
Kind == {"checkout", "renew", "retry"}
Charge == [kind: Kind, key: Kind \X Int, plan: PlanType,
           status: {"pending", "succeeded", "canceled"}, aim: Int]

VARIABLES
  now,       \* today
  sub,       \* the committed subscriptions row
  work,      \* its uncommitted version, if lock is not None
  lock,      \* the transaction that has updated it
  payments,  \* committed payments rows, by their place in ledger
  inserted,  \* the payments row each open delivery has inserted, or 0
  ledger,    \* the payments YooKassa knows, oldest first
  pc,        \* where each transaction is
  object,    \* the Subscription object it holds, or None
  dirty,     \* the columns it has assigned and not flushed
  run_day,   \* the worker's now, taken at the start of its last run
  event      \* the payment a delivery is about, or 0

table == <<sub, work, lock, payments, inserted>>
orm == <<object, dirty>>
vars == <<now, table, ledger, pc, orm, run_day, event>>

Place == {"idle", "due", "renew", "past_due", "retry", "expired", "load",
          "dedupe", "succeeded", "canceled", "flush", "commit"}

TypeOK ==
  /\ now \in Nat /\ run_day \in Int
  /\ sub \in Row /\ work \in Row
  /\ lock \in Txns \cup {None}
  /\ ledger \in Seq(Charge)
  /\ payments \subseteq DOMAIN ledger
  /\ inserted \in [Hooks -> {0} \cup DOMAIN ledger]
  /\ pc \in [Txns -> Place]
  /\ object \in [Txns -> Row \cup {None}]
  /\ dirty \in [Txns -> SUBSET Columns]
  /\ \A t \in Txns : dirty[t] # {} => object[t] # None
  /\ event \in [Hooks -> {0} \cup DOMAIN ledger]

Init ==
  /\ now = 0 /\ run_day = -1
  /\ sub \in InitialSubscriptions /\ work = sub /\ lock = None
  /\ ledger = <<>> /\ payments = {} /\ inserted = [h \in Hooks |-> 0]
  /\ pc = [t \in Txns |-> "idle"]
  /\ object = [t \in Txns |-> None] /\ dirty = [t \in Txns |-> {}]
  /\ event = [h \in Hooks |-> 0]

-----------------------------------------------------------------------------
(* The ORM session.                                                        *)

Visible(t) == IF lock = t THEN work ELSE sub

\* The object for the row a SELECT of t returns.
Loaded(t) == IF object[t] = None THEN Visible(t) ELSE object[t]

\* t holds row; the columns in always count as changed, whatever their value.
Assign(t, old, row, always) ==
  /\ object' = [object EXCEPT ![t] = row]
  /\ dirty' = [dirty EXCEPT ![t] = always \cup {c \in Columns : row[c] # old[c]}]

\* The row as t sees it once its UPDATE is sent.
Flushed(t) ==
  LET old == Visible(t)
      new == object[t]
      set == dirty[t]
  IN  [plan       |-> IF "plan" \in set THEN new.plan ELSE old.plan,
       status     |-> IF "status" \in set THEN new.status ELSE old.status,
       period_end |-> IF "period_end" \in set THEN new.period_end ELSE old.period_end,
       method     |-> IF "method" \in set THEN new.method ELSE old.method,
       cancelled  |-> IF "cancelled" \in set THEN new.cancelled ELSE old.cancelled]

\* t's UPDATE, if it has one to send, once no other transaction holds the row.
Update(t) ==
  IF dirty[t] = {}
  THEN UNCHANGED <<work, lock>>
  ELSE lock \in {None, t} /\ lock' = t /\ work' = Flushed(t)

GoTo(t, place) == pc' = [pc EXCEPT ![t] = place]

\* Variant: what was assigned and not flushed stays in the session.
CloseKeepsDirty(t) ==
  /\ GoTo(t, "idle")
  /\ object' = [object EXCEPT ![t] = None]
  /\ UNCHANGED dirty
  /\ event' = [h \in Hooks |-> IF h = t THEN 0 ELSE event[h]]
  /\ inserted' = [h \in Hooks |-> IF h = t THEN 0 ELSE inserted[h]]
  /\ lock' = IF lock = t THEN None ELSE lock
  /\ UNCHANGED <<now, ledger, run_day>>

\* The session is closed.
Close(t) ==
  /\ GoTo(t, "idle")
  /\ object' = [object EXCEPT ![t] = None]
  /\ dirty' = [dirty EXCEPT ![t] = {}]
  /\ event' = [h \in Hooks |-> IF h = t THEN 0 ELSE event[h]]
  /\ inserted' = [h \in Hooks |-> IF h = t THEN 0 ELSE inserted[h]]
  /\ lock' = IF lock = t THEN None ELSE lock
  /\ UNCHANGED <<now, ledger, run_day>>

Commit(t) ==
  /\ pc[t] = "commit"
  /\ sub' = Visible(t) /\ work' = work
  /\ payments' = payments \cup ({inserted[h] : h \in Hooks \cap {t}} \ {0})
  /\ Close(t)

Rollback(t) ==
  /\ work' = IF lock = t THEN sub ELSE work
  /\ UNCHANGED <<sub, payments>>
  /\ Close(t)

\* The process is killed or the connection drops.
Fail(t) == pc[t] # "idle" /\ Rollback(t)

-----------------------------------------------------------------------------
(* YooKassa.                                                               *)

Accepts(key) ==
  Len(ledger) < MaxPayments \/ \E i \in DOMAIN ledger : ledger[i].key = key

\* A payment is asked for under key: it is the payment of that key, if any.
Ask(kind, key, plan, aim) ==
  /\ Accepts(key)
  /\ IF \E i \in DOMAIN ledger : ledger[i].key = key
     THEN UNCHANGED ledger
     ELSE ledger' = Append(ledger, [kind |-> kind, key |-> key, plan |-> plan,
                                   status |-> "pending", aim |-> aim])

\* POST /billing/payment: every call makes a payment of its own.
Checkout(plan) ==
  /\ Ask("checkout", <<"checkout", Len(ledger)>>, plan, NoEnd)
  /\ UNCHANGED <<now, table, pc, orm, run_day, event>>

\* The user pays or abandons the checkout, the card is charged or declined.
Settle(i, status) ==
  /\ ledger[i].status = "pending"
  /\ ledger' = [ledger EXCEPT ![i].status = status]
  /\ UNCHANGED <<now, table, pc, orm, run_day, event>>

-----------------------------------------------------------------------------
(* renew_subscriptions_task.                                               *)

\* Once a day; MaxDay stands for itself and every later day.
BeginRun ==
  /\ pc[Worker] = "idle"
  /\ run_day < now \/ now = MaxDay
  /\ run_day' = now
  /\ GoTo(Worker, "due")
  /\ UNCHANGED <<now, table, ledger, orm, event>>

Due(row) ==
  /\ row.plan \in Renewable /\ row.status = "active"
  /\ row.period_end # NoEnd /\ row.period_end <= run_day + 1
  /\ row.method

\* A SELECT of the worker, whose WHERE clause matches the row or does not;
\* autoflush sends the UPDATE first.
Select(from, matches, found, otherwise) ==
  /\ pc[Worker] = from
  /\ Update(Worker)
  /\ dirty' = [dirty EXCEPT ![Worker] = {}]
  /\ object' = IF matches THEN [object EXCEPT ![Worker] = Loaded(Worker)] ELSE object
  /\ GoTo(Worker, IF matches THEN found ELSE otherwise)
  /\ UNCHANGED <<now, sub, payments, inserted, ledger, run_day, event>>

SelectDue == Select("due", Due(Flushed(Worker)), "renew", "past_due")

\* Variant: the key names the day of the run.
RenewKeyOfDay == <<"renew", run_day>>

RenewKey == <<"renew", object[Worker].period_end>>

\* charge_recurring returns, or it raises although YooKassa may have taken
\* the request.
Renew ==
  LET row == object[Worker] IN
  /\ pc[Worker] = "renew"
  /\ \/ /\ Ask("renew", RenewKey, row.plan, row.period_end)
        /\ UNCHANGED orm
     \/ /\ \/ Ask("renew", RenewKey, row.plan, row.period_end)
           \/ UNCHANGED ledger
        /\ Assign(Worker, row, [row EXCEPT !.status = "past_due"], {})
  /\ GoTo(Worker, "past_due")
  /\ UNCHANGED <<now, table, run_day, event>>

InGrace(row) ==
  /\ row.plan \in Renewable /\ row.status = "past_due"
  /\ row.period_end # NoEnd /\ row.period_end > run_day - GRACE_PERIOD_DAYS
  /\ row.method

SelectPastDue == Select("past_due", InGrace(Flushed(Worker)), "retry", "expired")

\* A retry that raises changes nothing.
Retry ==
  LET row == object[Worker] IN
  /\ pc[Worker] = "retry"
  /\ \/ Ask("retry", <<"retry", run_day>>, row.plan, NoEnd)
     \/ UNCHANGED ledger
  /\ GoTo(Worker, "expired")
  /\ UNCHANGED <<now, table, orm, run_day, event>>

\* Variant: only past_due and cancelled subscriptions expire.
ExpiredUnlessActive(row) ==
  /\ row.plan \in Renewable
  /\ row.period_end # NoEnd /\ row.period_end <= run_day - GRACE_PERIOD_DAYS
  /\ row.status \in {"past_due", "cancelled"}

Expired(row) ==
  /\ row.plan \in Renewable
  /\ row.period_end # NoEnd /\ row.period_end <= run_day - GRACE_PERIOD_DAYS
  /\ row.status \in {"active", "past_due", "cancelled"}

\* Variant: the downgrade does not reach the plan.
DowngradedButPlan(row) ==
  [row EXCEPT !.status = "active", !.period_end = NoEnd, !.method = FALSE]

Downgraded(row) ==
  [row EXCEPT !.plan = "free", !.status = "active", !.period_end = NoEnd,
              !.method = FALSE]

SelectExpired ==
  /\ pc[Worker] = "expired"
  /\ IF Expired(Visible(Worker))
     THEN /\ Assign(Worker, Loaded(Worker), Downgraded(Loaded(Worker)), {})
          /\ GoTo(Worker, "flush")
     ELSE GoTo(Worker, "commit") /\ UNCHANGED orm
  /\ UNCHANGED <<now, table, ledger, run_day, event>>

\* The payments row a delivery inserts in the same flush: it waits for
\* another delivery that has inserted it too.
Insert(t) ==
  IF t \in Hooks /\ ledger[event[t]].status = "succeeded"
  THEN /\ event[t] \notin payments
       /\ \A h \in Hooks : inserted[h] # event[t]
       /\ inserted' = [inserted EXCEPT ![t] = event[t]]
  ELSE UNCHANGED inserted

Flush(t) ==
  /\ pc[t] = "flush"
  /\ Update(t)
  /\ Insert(t)
  /\ dirty' = [dirty EXCEPT ![t] = {}]
  /\ GoTo(t, "commit")
  /\ UNCHANGED <<now, sub, payments, ledger, object, run_day, event>>

-----------------------------------------------------------------------------
(* POST /billing/cancel.                                                   *)

BeginCancel(c) ==
  /\ pc[c] = "idle"
  /\ GoTo(c, "load")
  /\ UNCHANGED <<now, table, ledger, orm, run_day, event>>

Cancellable(row) ==
  row.plan \notin {"free", "per_session"} /\ row.status # "cancelled"

\* Variant: the end of the period is assigned too, as it was read.
CancelRewritesPeriod(c) ==
  /\ pc[c] = "load"
  /\ Cancellable(sub)
  /\ Assign(c, sub, [sub EXCEPT !.status = "cancelled", !.cancelled = TRUE],
            {"cancelled", "period_end"})
  /\ GoTo(c, "flush")
  /\ UNCHANGED <<now, table, ledger, run_day, event>>

CancelSubscription(c) ==
  /\ pc[c] = "load"
  /\ Cancellable(sub)
  /\ Assign(c, sub, [sub EXCEPT !.status = "cancelled", !.cancelled = TRUE],
            {"cancelled"})
  /\ GoTo(c, "flush")
  /\ UNCHANGED <<now, table, ledger, run_day, event>>

\* 400 or 409.
RefuseCancel(c) ==
  /\ pc[c] = "load"
  /\ ~Cancellable(sub)
  /\ Rollback(c)

-----------------------------------------------------------------------------
(* POST /webhooks/yookassa.                                                *)

Deliver(h, i) ==
  /\ pc[h] = "idle"
  /\ ledger[i].status # "pending"
  /\ event' = [event EXCEPT ![h] = i]
  /\ GoTo(h, IF ledger[i].status = "succeeded" THEN "dedupe" ELSE "canceled")
  /\ UNCHANGED <<now, table, ledger, orm, run_day>>

Skip(h) ==
  /\ pc[h] = "dedupe"
  /\ event[h] \in payments
  /\ Rollback(h)

Accept(h) ==
  /\ pc[h] = "dedupe"
  /\ event[h] \notin payments
  /\ GoTo(h, "succeeded")
  /\ UNCHANGED <<now, table, ledger, orm, run_day, event>>

\* _handle_payment_succeeded for a subscription plan; the payment method may
\* have been saved, and may be another one than before.
ActivatePlan(h) ==
  /\ pc[h] = "succeeded"
  /\ \E saved \in BOOLEAN, other \in SUBSET {"method"} :
       /\ saved \/ other = {}
       /\ Assign(h, sub, [sub EXCEPT !.plan = ledger[event[h]].plan,
                                     !.status = "active",
                                     !.period_end = now + BILLING_PERIOD_DAYS,
                                     !.method = @ \/ saved],
                 {"period_end"} \cup other)
  /\ GoTo(h, "flush")
  /\ UNCHANGED <<now, table, ledger, run_day, event>>

\* The second INSERT of a payment id fails once the first has committed.
DuplicateKey(h) ==
  /\ pc[h] = "flush"
  /\ ledger[event[h]].status = "succeeded"
  /\ event[h] \in payments
  /\ Rollback(h)

\* _handle_payment_cancelled: a canceled payment never had a payments row.
\* Only an abandoned checkout leaves an active subscription alone.
MarkPastDue(h) ==
  /\ pc[h] = "canceled"
  /\ IF ledger[event[h]].kind # "checkout" \/ sub.status # "active"
     THEN Assign(h, sub, [sub EXCEPT !.status = "past_due"], {})
     ELSE UNCHANGED orm
  /\ GoTo(h, "flush")
  /\ UNCHANGED <<now, table, ledger, run_day, event>>

-----------------------------------------------------------------------------
Tick ==
  /\ now < MaxDay
  /\ now' = now + 1
  /\ UNCHANGED <<table, ledger, pc, orm, run_day, event>>

WorkerStep ==
  SelectDue \/ Renew \/ SelectPastDue \/ Retry \/ SelectExpired

CancelStep(c) == CancelSubscription(c) \/ RefuseCancel(c)

HookStep(h) ==
  Skip(h) \/ Accept(h) \/ ActivatePlan(h) \/ DuplicateKey(h) \/ MarkPastDue(h)

YooKassa ==
  \/ \E plan \in Offers : Checkout(plan)
  \/ \E i \in DOMAIN ledger : Settle(i, "succeeded") \/ Settle(i, "canceled")

Next ==
  \/ Tick
  \/ YooKassa
  \/ BeginRun \/ WorkerStep
  \/ \E c \in Cancels : BeginCancel(c) \/ CancelStep(c)
  \/ \E h \in Hooks : HookStep(h) \/ \E i \in DOMAIN ledger : Deliver(h, i)
  \/ \E t \in Txns : Flush(t) \/ Commit(t) \/ Fail(t)

Spec == Init /\ [][Next]_vars

\* The worker is run every day and does not crash in every run; YooKassa
\* repeats a delivery until it is answered.
FairSpec ==
  /\ Spec
  /\ WF_vars(Tick)
  /\ WF_vars(BeginRun) /\ SF_vars(SelectDue) /\ SF_vars(Renew)
  /\ SF_vars(SelectPastDue) /\ SF_vars(Retry) /\ SF_vars(SelectExpired)
  /\ \A t \in Txns : SF_vars(Flush(t)) /\ SF_vars(Commit(t))
  /\ \A c \in Cancels : WF_vars(CancelStep(c))
  /\ \A h \in Hooks : WF_vars(HookStep(h))

-----------------------------------------------------------------------------
(* What holds.                                                             *)

\* However often the worker runs or is killed, and whatever YooKassa's
\* answers were, the end of a period is renewed by one payment at most: its
\* key is derived from period_end (worker.py:260).
OneRenewalPerPeriod ==
  \A i, j \in DOMAIN ledger :
    ledger[i].kind = "renew" /\ ledger[j].kind = "renew"
      /\ ledger[i].aim = ledger[j].aim => i = j

\* Webhooks, cancellations and downgrades write different columns of the row
\* from different snapshots of it, and never leave a paid plan without end
\* (worker.py:347-352, webhooks.py:194-199).
PaidPlansEnd == sub.plan \in Renewable => sub.period_end # NoEnd

\* Cancelling never takes back a plan or a period that a webhook has
\* committed after the request read the row: "The plan stays active until
\* period_end" (billing.py:374).
CancelKeepsPlan ==
  [][(lock \in Cancels /\ lock' = None) =>
       sub'.plan = sub.plan /\ sub'.period_end = sub.period_end]_vars

\* A period that has ended unpaid is downgraded in the end, although runs
\* may be killed (worker.py:329-357).
ExpiredIsDowngraded ==
  (sub.plan \in Renewable /\ sub.period_end <= MaxDay - GRACE_PERIOD_DAYS)
    ~> (sub.plan = "free" \/ sub.period_end > MaxDay - GRACE_PERIOD_DAYS)

-----------------------------------------------------------------------------
(* What the code's comments say and does not hold.                         *)

\* worker.py:283: "Retry past_due subscriptions still within grace": the
\* worker charges for no period that it sees is paid for longer.
ChargesAreDue ==
  [][\A i \in DOMAIN ledger' \ DOMAIN ledger :
       \/ ledger'[i].kind = "checkout"
       \/ object[Worker].period_end <= run_day + 1]_vars
=============================================================================
