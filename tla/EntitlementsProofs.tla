------------------------- MODULE EntitlementsProofs -------------------------
(* Theorems about Entitlements, for every number of requests, deliveries   *)
(* and payments.                                                           *)
EXTENDS Entitlements, FiniteSetTheorems, TLAPS

\* Every variable begins with its type.
LEMMA TypeInit == Init => TypeOK
  BY EntitlementsAssumption
  DEF EntitlementsAssumption, Init, TypeOK, Counter, Subscription, NoRow,
      Stage, Outcome, Place, Txns

\* Assigning to a column of a usage_counters row leaves a row.
LEMMA CounterUpdates ==
  ASSUME NEW row \in Counter, NEW n \in Int, NEW day \in Int
  PROVE  /\ [row EXCEPT !.used = n] \in Counter
         /\ [row EXCEPT !.credits = n] \in Counter
         /\ [row EXCEPT !.used = n, !.period_start = day] \in Counter
         /\ row.used \in Int /\ row.credits \in Int
  BY DEF Counter

\* The control state of the transactions, by itself.
FlowOK ==
  /\ pc \in [Txns -> Place]
  /\ stage \in [Txns -> Stage]
  /\ seen \in [Txns -> Counter]
  /\ \A h \in Hooks : pc[h] # "idle" => order[h] # None

\* A transaction that moves keeps the types of the control state.
LEMMA GoToFlow ==
  ASSUME TypeOK, NEW t \in Txns, NEW place \in Place, GoTo(t, place),
         pc[t] # "idle" \/ t \notin Hooks, order' = order
  PROVE  FlowOK'
<1>1. pc' \in [Txns -> Place] /\ stage' \in [Txns -> Stage]
  BY DEF GoTo, TypeOK, Stage
<1>2. seen' \in [Txns -> Counter]
  BY DEF GoTo, TypeOK, NoRow, Counter
<1>3. ASSUME NEW h \in Hooks, pc'[h] # "idle"
      PROVE  order'[h] # None
  BY <1>3 DEF GoTo, TypeOK, Txns
<1> QED
  BY <1>1, <1>2, <1>3 DEF FlowOK

\* No step takes a variable out of its type.
LEMMA TypeStep == TypeOK /\ [Next]_vars => TypeOK'
<1> SUFFICES ASSUME TypeOK, [Next]_vars
             PROVE  TypeOK'
  OBVIOUS
<1> USE DEF TypeOK, FlowOK, rows, locals
<1>a. \A t \in Txns : Visible(t) \in Counter /\ VisibleSub(t) \in Subscription
  BY DEF Visible, VisibleSub
<1>b. /\ {"check", "access", "spend", "limits", "count", "view", "credit",
          "restart", "ask", "dedupe", "insert", "activate", "commit", "done"}
           \subseteq Place
      /\ Starts \cup Conversions \cup Views \cup Hooks = Txns
  BY DEF Place, Site, Txns
<1>c. Starts \cap Hooks = {} /\ Conversions \cap Hooks = {} /\ Views \cap Hooks = {}
  BY EntitlementsAssumption DEF EntitlementsAssumption
<1>1. CASE Tick
  BY <1>1 DEF Tick
<1>2. ASSUME NEW t \in Txns, Begin(t)
      PROVE  TypeOK'
  <2>1. CASE t \in Starts /\ BeginStart(t)
    BY <2>1, <1>b, <1>c, GoToFlow DEF BeginStart
  <2>2. CASE t \in Conversions /\ BeginConversion(t)
    BY <2>2, <1>b, <1>c, GoToFlow DEF BeginConversion
  <2>3. CASE t \in Views /\ BeginView(t)
    BY <2>3, <1>b, <1>c, GoToFlow DEF BeginView
  <2>4. ASSUME NEW p \in Payments, t \in Hooks, Receive(t, p)
        PROVE  TypeOK'
    <3>1. order' \in [Hooks -> Payments \cup {None}]
      BY <2>4 DEF Receive
    <3>2. pc' \in [Txns -> Place] /\ stage' \in [Txns -> Stage]
      BY <2>4, <1>b DEF Receive, GoTo, Stage
    <3>3. seen' \in [Txns -> Counter]
      BY <2>4 DEF Receive, GoTo, NoRow, Counter
    <3>4. \A h \in Hooks : pc'[h] # "idle" => order'[h] # None
      BY <2>4, EntitlementsAssumption, <1>b
      DEF Receive, GoTo, EntitlementsAssumption
    <3> QED
      BY <2>4, <3>1, <3>2, <3>3, <3>4 DEF Receive
  <2> QED
    BY <1>2, <2>1, <2>2, <2>3, <2>4 DEF Begin
<1>3. ASSUME NEW t \in Txns, pc[t] # "idle", NEW result \in Outcome,
             Rollback(t, result)
      PROVE  TypeOK'
  <2>1. FlowOK'
    BY <1>3, <1>b, GoToFlow DEF Rollback, End
  <2>2. inserted' \in [Payments -> Hooks \cup {None}]
    BY <1>3 DEF Rollback
  <2>3. outcome' \in [Txns -> Outcome]
    BY <1>3 DEF Rollback, End
  <2> QED
    BY <1>3, <2>1, <2>2, <2>3 DEF Rollback, End
<1>4. ASSUME NEW t \in Txns, Fail(t)
      PROVE  TypeOK'
  BY <1>3, <1>4 DEF Fail, Outcome
<1>5. ASSUME NEW t \in Txns, NEW row \in Counter, Write(t, row)
      PROVE  /\ counter' \in Counter /\ work' \in Counter
             /\ lock' \in Txns \cup {None}
             /\ UNCHANGED <<sub, subWork, subLock, payments, inserted>>
  BY <1>5 DEF Write
<1>6. ASSUME NEW t \in Txns, GetUsageCounter(t)
      PROVE  TypeOK'
  <2>1. CASE FetchCounter(t)
    <3>1. stage' \in [Txns -> Stage]
      BY <2>1 DEF FetchCounter, Stage
    <3>2. seen' \in [Txns -> Counter]
      BY <2>1, <1>a DEF FetchCounter
    <3> QED
      BY <2>1, <3>1, <3>2 DEF FetchCounter
  <2>2. CASE CreateCounter(t)
    <3> DEFINE row == [present |-> TRUE, credits |-> 0, used |-> 0,
                       period_start |-> now]
    <3>1. row \in Counter
      BY DEF Counter
    <3>2. seen' \in [Txns -> Counter] /\ stage' \in [Txns -> Stage]
      BY <2>2, <3>1 DEF CreateCounter, Stage
    <3>3. Write(t, row)
      BY <2>2 DEF CreateCounter
    <3> HIDE DEF row
    <3> QED
      BY <2>2, <1>5, <3>1, <3>2, <3>3 DEF CreateCounter
  <2>3. CASE CreateConflict(t)
    BY <2>3, <1>3 DEF CreateConflict, Site, Outcome
  <2>4. CASE ResetPeriod(t)
    <3> DEFINE used == IF seen[t].used = 0 THEN Visible(t).used ELSE 0
               row  == [Visible(t) EXCEPT !.used = used, !.period_start = now]
    <3>1. used \in Int /\ now \in Int
      BY <1>a DEF Counter
    <3>2. row \in Counter
      BY <1>a, <3>1, CounterUpdates
    <3>3. [seen[t] EXCEPT !.used = 0, !.period_start = now] \in Counter
      BY <3>1, CounterUpdates
    <3>4. seen' = [seen EXCEPT ![t] = [seen[t] EXCEPT !.used = 0,
                                                      !.period_start = now]]
      BY <2>4 DEF ResetPeriod
    <3>5. seen' \in [Txns -> Counter] /\ stage' \in [Txns -> Stage]
      BY <2>4, <3>3, <3>4 DEF ResetPeriod, Stage
    <3>6. Write(t, row)
      BY <2>4 DEF ResetPeriod
    <3> HIDE DEF row
    <3> QED
      BY <2>4, <1>5, <3>2, <3>5, <3>6 DEF ResetPeriod
  <2> QED
    BY <1>6, <2>1, <2>2, <2>3, <2>4 DEF GetUsageCounter
<1>7. ASSUME NEW t \in Txns, Commit(t)
      PROVE  TypeOK'
  <2>1. FlowOK'
    BY <1>7, <1>b, GoToFlow DEF Commit, End
  <2>2. inserted' \in [Payments -> Hooks \cup {None}]
    BY <1>7 DEF Commit
  <2>3. outcome' \in [Txns -> Outcome]
    BY <1>7 DEF Commit, End, Outcome
  <2> QED
    BY <1>7, <1>a, <2>1, <2>2, <2>3 DEF Commit, End
<1>8. ASSUME NEW t \in Starts, StartStep(t)
      PROVE  TypeOK'
  <2>1. CASE RefuseStart(t)
    BY <2>1, <1>3, <1>b DEF RefuseStart, At, Outcome
  <2>2. CASE AdmitStart(t) \/ AskQuestion(t)
    BY <2>2, <1>b, GoToFlow DEF AdmitStart, AskQuestion, At
  <2>3. CASE RecordAccess(t)
    <3>1. paid' \in [Starts -> BOOLEAN]
      BY <2>3 DEF RecordAccess
    <3> QED
      BY <2>3, <3>1, <1>b, GoToFlow DEF RecordAccess, At
  <2> QED
    BY <1>8, <2>1, <2>2, <2>3 DEF StartStep
<1>9. ASSUME NEW t \in Starts \cup Conversions, SpendStep(t)
      PROVE  TypeOK'
  <2>1. CASE Debit(t)
    <3> DEFINE n   == Visible(t).credits - 1
               row == [Visible(t) EXCEPT !.credits = n]
    <3>1. Visible(t) \in Counter /\ seen[t] \in Counter
      BY <1>a, <1>b
    <3>2. n \in Int
      BY <3>1 DEF Counter
    <3>3. Write(t, row)
      BY <2>1 DEF Debit
    <3> HIDE DEF n
    <3>4. row \in Counter
      BY <3>1, <3>2, CounterUpdates
    <3>5. debited' \in [Txns -> BOOLEAN]
      BY <2>1 DEF Debit
    <3> HIDE DEF row
    <3> QED
      BY <2>1, <3>3, <3>4, <3>5, <1>5, <1>b, GoToFlow DEF Debit, At
  <2>2. CASE NoDebit(t)
    BY <2>2, <1>b, GoToFlow DEF NoDebit, At
  <2>3. CASE CountUse(t)
    <3> DEFINE n   == Visible(t).used + 1
               row == [Visible(t) EXCEPT !.used = n]
    <3>1. Visible(t) \in Counter /\ seen[t] \in Counter
      BY <1>a, <1>b
    <3>2. n \in Int
      BY <3>1 DEF Counter
    <3>3. Write(t, row)
      BY <2>3 DEF CountUse
    <3> HIDE DEF n
    <3>4. row \in Counter
      BY <3>1, <3>2, CounterUpdates
    <3> HIDE DEF row
    <3> QED
      BY <2>3, <3>3, <3>4, <1>5, <1>b, GoToFlow DEF CountUse, At
  <2> QED
    BY <1>9, <2>1, <2>2, <2>3 DEF SpendStep
<1>10. ASSUME NEW t \in Conversions, ConversionStep(t)
       PROVE  TypeOK'
  <2>1. CASE AdmitConversion(t)
    BY <2>1, <1>b, GoToFlow DEF AdmitConversion, At
  <2>2. CASE RefuseConversion(t)
    BY <2>2, <1>3, <1>b DEF RefuseConversion, At, Outcome
  <2> QED
    BY <1>10, <2>1, <2>2 DEF ConversionStep
<1>11. ASSUME NEW t \in Views, EndView(t)
       PROVE  TypeOK'
  BY <1>11, <1>b, GoToFlow DEF EndView, At
<1>12. ASSUME NEW h \in Hooks, HookStep(h)
       PROVE  TypeOK'
  <2>1. CASE Ignore(h) \/ DuplicateKey(h)
    BY <2>1, <1>3, <1>b DEF Ignore, DuplicateKey, Outcome
  <2>2. CASE Accept(h)
    BY <2>2, <1>b, GoToFlow DEF Accept
  <2>3. CASE InsertPayment(h)
    <3>1. inserted' \in [Payments -> Hooks \cup {None}]
      BY <2>3 DEF InsertPayment
    <3> QED
      BY <2>3, <3>1, <1>b, GoToFlow DEF InsertPayment
  <2>4. CASE AddCredit(h)
    <3> DEFINE n   == seen[h].credits + 1
               row == [Visible(h) EXCEPT !.credits = n]
    <3>1. Visible(h) \in Counter /\ seen[h] \in Counter
      BY <1>a, <1>b
    <3>2. n \in Int
      BY <3>1 DEF Counter
    <3>3. Write(h, row)
      BY <2>4 DEF AddCredit
    <3> HIDE DEF n
    <3>4. row \in Counter
      BY <3>1, <3>2, CounterUpdates
    <3> HIDE DEF row
    <3> QED
      BY <2>4, <3>3, <3>4, <1>5, <1>b, GoToFlow DEF AddCredit, At
  <2>5. CASE ActivatePlan(h)
    <3>1. PlanBought[order[h]] \in PlanType /\ "active" \in SubscriptionStatus
      BY <2>5, <1>b, EntitlementsAssumption
      DEF ActivatePlan, EntitlementsAssumption, PlanType, SubscriptionStatus
    <3>2. now + BILLING_PERIOD_DAYS \in Int
      BY PlansAssumption DEF PlansAssumption
    <3>3. subWork' \in Subscription
      BY <2>5, <3>1, <3>2 DEF ActivatePlan, Subscription
    <3>4. inserted' \in [Payments -> Hooks \cup {None}]
      BY <2>5 DEF ActivatePlan
    <3> QED
      BY <2>5, <3>3, <3>4, <1>b, GoToFlow DEF ActivatePlan
  <2>6. CASE RestartCounter(h)
    <3> DEFINE used == IF seen[h].used = 0 THEN Visible(h).used ELSE 0
               row  == [Visible(h) EXCEPT !.used = used, !.period_start = now]
    <3>1. used \in Int /\ now \in Int
      BY <1>a, <1>b DEF Counter
    <3>2. row \in Counter
      BY <1>a, <1>b, <3>1, CounterUpdates
    <3>3. Write(h, row)
      BY <2>6 DEF RestartCounter
    <3> HIDE DEF row
    <3> QED
      BY <2>6, <3>2, <3>3, <1>5, <1>b, GoToFlow DEF RestartCounter, At
  <2> QED
    BY <1>12, <2>1, <2>2, <2>3, <2>4, <2>5, <2>6 DEF HookStep
<1>13. CASE UNCHANGED vars
  BY <1>13 DEF vars
<1>14. CASE Quiet
  BY <1>14, <1>13 DEF Quiet
<1> QED
  BY <1>1, <1>2, <1>4, <1>6, <1>7, <1>8, <1>9, <1>10, <1>11, <1>12, <1>13, <1>14
  DEF Next, Proceed

\* Every variable keeps the type the module gives it.
THEOREM TypeCorrect == Spec => []TypeOK
<1> QED
  BY TypeInit, TypeStep, PTL DEF Spec

-----------------------------------------------------------------------------
(* Payments: an open delivery owns its payment id alone.                   *)

Settling == {"credit", "restart", "commit"}

KeyInv ==
  /\ \A h \in Hooks : pc[h] \in Settling =>
       order[h] \notin payments /\ inserted[order[h]] = h
  /\ \A p \in Payments : inserted[p] # None =>
       order[inserted[p]] = p /\ pc[inserted[p]] \in Settling
  /\ \A h \in Hooks : outcome[h] = "committed" =>
       pc[h] = "done" /\ order[h] \in payments
  /\ \A h \in Hooks : pc[h] \in {"insert", "credit"} => order[h] \in PerSession
  /\ PaymentAppliedOnce

\* Before the first delivery no payment id is taken.
LEMMA KeyInit == Init => KeyInv
  BY DEF Init, KeyInv, PaymentAppliedOnce, Ended, Settling, Txns

\* What no delivery does leaves the payments alone.
LEMMA KeyFrame ==
  ASSUME TypeOK, KeyInv, UNCHANGED <<payments, inserted, order>>,
         \A h \in Hooks : pc'[h] = pc[h] /\ outcome'[h] = outcome[h]
  PROVE  KeyInv'
<1>1. \A p \in Payments : inserted[p] # None => inserted[p] \in Hooks
  BY DEF TypeOK
<1> QED
  BY <1>1 DEF KeyInv, PaymentAppliedOnce, Ended

\* A delivery that is undone gives its payment id up.
LEMMA KeyRollback ==
  ASSUME TypeOK, KeyInv, NEW t \in Txns, NEW result \in Outcome \ {"committed"},
         Rollback(t, result)
  PROVE  KeyInv'
<1>1. /\ \A h \in Hooks : h # t => pc'[h] = pc[h] /\ outcome'[h] = outcome[h]
      /\ t \in Hooks => pc'[t] = "done" /\ outcome'[t] = result
      /\ order' = order /\ payments' = payments
      /\ \A p \in Payments : inserted'[p] = IF inserted[p] = t THEN None ELSE inserted[p]
  BY DEF Rollback, End, GoTo, TypeOK, Txns, locals
<1>2. \A p \in Payments : inserted[p] \in Hooks \cup {None}
  BY DEF TypeOK
<1>3. \A h \in Hooks : pc[h] \in Settling => order[h] \in Payments
  BY DEF TypeOK, Settling
<1>4. \A h \in Hooks : outcome'[h] = "committed" => outcome[h] = "committed" /\ h # t
  BY <1>1
<1> QED
  BY <1>1, <1>2, <1>3, <1>4 DEF KeyInv, PaymentAppliedOnce, Ended, Settling

\* A delivery that commits keeps its payment id for good.
LEMMA KeyCommit ==
  ASSUME TypeOK, KeyInv, NEW t \in Txns, Commit(t)
  PROVE  KeyInv'
<1>1. /\ \A h \in Hooks : h # t => pc'[h] = pc[h] /\ outcome'[h] = outcome[h]
      /\ t \in Hooks => pc'[t] = "done" /\ outcome'[t] = "committed"
      /\ order' = order
      /\ payments' = payments \cup {p \in Payments : inserted[p] = t}
      /\ \A p \in Payments : inserted'[p] = IF inserted[p] = t THEN None ELSE inserted[p]
      /\ pc[t] = "commit"
  BY DEF Commit, End, GoTo, TypeOK, Txns, locals
<1>2. \A p \in Payments : inserted[p] \in Hooks \cup {None}
  BY DEF TypeOK
<1>3. \A h \in Hooks : pc[h] \in Settling => order[h] \in Payments
  BY DEF TypeOK, Settling
<1>4. t \in Hooks => order[t] \notin payments /\ order[t] \in payments'
  BY <1>1, <1>3 DEF KeyInv, Settling
<1>5. ASSUME NEW h \in Hooks, pc'[h] \in Settling
      PROVE  order'[h] \notin payments' /\ inserted'[order'[h]] = h
  BY <1>1, <1>3, <1>5 DEF KeyInv, Settling
<1>6. ASSUME NEW p \in Payments, inserted'[p] # None
      PROVE  order'[inserted'[p]] = p /\ pc'[inserted'[p]] \in Settling
  BY <1>1, <1>2, <1>6 DEF KeyInv
<1>7. ASSUME NEW h \in Hooks, outcome'[h] = "committed"
      PROVE  pc'[h] = "done" /\ order'[h] \in payments'
  BY <1>1, <1>4, <1>7 DEF KeyInv
<1>8. ASSUME NEW h \in Hooks, pc'[h] \in {"insert", "credit"}
      PROVE  order'[h] \in PerSession
  BY <1>1, <1>8 DEF KeyInv
<1>9. PaymentAppliedOnce'
  BY <1>1, <1>4 DEF KeyInv, PaymentAppliedOnce, Ended
<1> QED
  BY <1>5, <1>6, <1>7, <1>8, <1>9 DEF KeyInv

\* One delivery moves on without touching the payments.
LEMMA KeyMove ==
  ASSUME TypeOK, KeyInv, NEW h \in Hooks, NEW place, GoTo(h, place),
         UNCHANGED <<payments, inserted, order, outcome>>,
         pc[h] # "done", place \in Settling <=> pc[h] \in Settling,
         place \in {"insert", "credit"} => order[h] \in PerSession
  PROVE  KeyInv'
<1>1. /\ \A g \in Hooks : g # h => pc'[g] = pc[g]
      /\ pc'[h] = place
  BY DEF GoTo, TypeOK, Txns
<1>2. \A p \in Payments : inserted[p] \in Hooks \cup {None}
  BY DEF TypeOK
<1>3. outcome[h] # "committed"
  BY DEF KeyInv
<1> QED
  BY <1>1, <1>2, <1>3 DEF KeyInv, PaymentAppliedOnce, Ended

\* A delivery that inserts a payment id that is free comes to own it.
LEMMA KeyInsert ==
  ASSUME TypeOK, KeyInv, NEW h \in Hooks, NEW place \in Settling, GoTo(h, place),
         UNCHANGED <<payments, order, outcome>>,
         inserted' = [inserted EXCEPT ![order[h]] = h],
         pc[h] \notin Settling \cup {"idle", "done"}, KeyFree(h),
         place = "credit" => order[h] \in PerSession
  PROVE  KeyInv'
<1>1. /\ \A g \in Hooks : g # h => pc'[g] = pc[g]
      /\ pc'[h] = place
  BY DEF GoTo, TypeOK, Txns
<1>2. /\ \A p \in Payments : inserted[p] \in Hooks \cup {None}
      /\ None \notin Hooks
  BY EntitlementsAssumption DEF TypeOK, EntitlementsAssumption, Txns
<1>3. order[h] \in Payments
  BY DEF TypeOK
<1>4. outcome[h] # "committed"
  BY DEF KeyInv
<1>5. /\ \A p \in Payments : p # order[h] => inserted'[p] = inserted[p]
      /\ inserted'[order[h]] = h
  BY <1>3 DEF TypeOK
<1>6. ASSUME NEW g \in Hooks, pc'[g] \in Settling
      PROVE  order[g] \notin payments /\ inserted'[order[g]] = g
  <2>1. CASE g = h
    BY <2>1, <1>5 DEF KeyFree
  <2>2. CASE g # h
    <3>1. /\ pc[g] \in Settling /\ order[g] \notin payments
          /\ inserted[order[g]] = g
      BY <2>2, <1>1, <1>6 DEF KeyInv
    <3>2. order[g] \in Payments
      BY <3>1 DEF TypeOK, Settling
    <3>3. order[g] # order[h]
      BY <3>1, <1>2 DEF KeyFree
    <3> QED
      BY <3>1, <3>2, <3>3, <1>5
  <2> QED
    BY <2>1, <2>2
<1>7. ASSUME NEW p \in Payments, inserted'[p] # None
      PROVE  order[inserted'[p]] = p /\ pc'[inserted'[p]] \in Settling
  BY <1>1, <1>2, <1>5, <1>7 DEF KeyInv
<1> QED
  BY <1>1, <1>4, <1>6, <1>7 DEF KeyInv, PaymentAppliedOnce, Ended, Settling

\* No step lets two deliveries own a payment id.
LEMMA KeyStep == TypeOK /\ KeyInv /\ [Next]_vars => KeyInv'
<1> SUFFICES ASSUME TypeOK, KeyInv, [Next]_vars
             PROVE  KeyInv'
  OBVIOUS
<1>a. /\ Starts \cap Hooks = {} /\ Conversions \cap Hooks = {} /\ Views \cap Hooks = {}
      /\ Starts \cup Conversions \cup Views \cup Hooks = Txns
  BY EntitlementsAssumption DEF EntitlementsAssumption, Txns
<1>b. ASSUME NEW t \in Txns \ Hooks, NEW place, GoTo(t, place),
             UNCHANGED <<payments, inserted, order, outcome>>
      PROVE  KeyInv'
  BY <1>b, KeyFrame DEF GoTo, TypeOK
<1>1. CASE Tick
  BY <1>1, KeyFrame DEF Tick, rows, locals
<1>2. ASSUME NEW t \in Txns, Begin(t)
      PROVE  KeyInv'
  <2>1. CASE t \in Starts \cup Conversions \cup Views /\ (BeginStart(t) \/ BeginConversion(t) \/ BeginView(t))
    BY <2>1, <1>a, <1>b DEF BeginStart, BeginConversion, BeginView, rows, locals
  <2>2. ASSUME NEW p \in Payments, t \in Hooks, Receive(t, p)
        PROVE  KeyInv'
    <3>1. /\ \A h \in Hooks : h # t => pc'[h] = pc[h] /\ order'[h] = order[h]
          /\ pc'[t] = "dedupe" /\ pc[t] = "idle"
          /\ UNCHANGED <<payments, inserted, outcome>>
      BY <2>2, <1>a DEF Receive, GoTo, TypeOK, rows
    <3>2. outcome[t] # "committed"
      BY <2>2, <3>1 DEF KeyInv
    <3>3. \A q \in Payments : inserted[q] \in Hooks \cup {None}
      BY DEF TypeOK
    <3> QED
      BY <2>2, <3>1, <3>2, <3>3 DEF KeyInv, PaymentAppliedOnce, Ended, Settling
  <2> QED
    BY <1>2, <2>1, <2>2 DEF Begin
<1>3. ASSUME NEW t \in Txns, Fail(t)
      PROVE  KeyInv'
  BY <1>3, KeyRollback DEF Fail, Outcome
<1>4. ASSUME NEW t \in Txns, GetUsageCounter(t)
      PROVE  KeyInv'
  <2>1. CASE CreateConflict(t)
    BY <2>1, KeyRollback DEF CreateConflict, Outcome
  <2>2. CASE FetchCounter(t)
    BY <2>2, KeyFrame DEF FetchCounter, rows, locals
  <2>3. CASE CreateCounter(t)
    BY <2>3, KeyFrame DEF CreateCounter, Write, locals
  <2>4. CASE ResetPeriod(t)
    BY <2>4, KeyFrame DEF ResetPeriod, Write, locals
  <2> QED
    BY <1>4, <2>1, <2>2, <2>3, <2>4 DEF GetUsageCounter
<1>5. ASSUME NEW t \in Txns, Commit(t)
      PROVE  KeyInv'
  BY <1>5, KeyCommit
<1>6. ASSUME NEW t \in Starts, StartStep(t)
      PROVE  KeyInv'
  <2>1. CASE RefuseStart(t)
    BY <2>1, <1>a, KeyRollback DEF RefuseStart, Outcome
  <2>2. CASE AdmitStart(t) \/ RecordAccess(t) \/ AskQuestion(t)
    BY <2>2, <1>a, <1>b DEF AdmitStart, RecordAccess, AskQuestion, rows, locals
  <2> QED
    BY <1>6, <2>1, <2>2 DEF StartStep
<1>7. ASSUME NEW t \in Starts \cup Conversions, SpendStep(t)
      PROVE  KeyInv'
  BY <1>7, <1>a, <1>b DEF SpendStep, Debit, NoDebit, CountUse, Write, rows, locals
<1>8. ASSUME NEW t \in Conversions, ConversionStep(t)
      PROVE  KeyInv'
  <2>1. CASE RefuseConversion(t)
    BY <2>1, <1>a, KeyRollback DEF RefuseConversion, Outcome
  <2>2. CASE AdmitConversion(t)
    BY <2>2, <1>a, <1>b DEF AdmitConversion, rows, locals
  <2> QED
    BY <1>8, <2>1, <2>2 DEF ConversionStep
<1>9. ASSUME NEW t \in Views, EndView(t)
      PROVE  KeyInv'
  BY <1>9, <1>a, <1>b DEF EndView, rows, locals
<1>10. ASSUME NEW h \in Hooks, HookStep(h)
       PROVE  KeyInv'
  <2> h \in Txns
    BY <1>a
  <2>1. CASE Ignore(h) \/ DuplicateKey(h)
    BY <2>1, KeyRollback DEF Ignore, DuplicateKey, Outcome
  <2>2. CASE Accept(h)
    BY <2>2, KeyMove DEF Accept, Settling, rows, locals
  <2>3. CASE InsertPayment(h)
    BY <2>3, KeyInsert DEF InsertPayment, KeyInv, Settling, locals
  <2>4. CASE AddCredit(h)
    BY <2>4, KeyMove DEF AddCredit, At, Settling, Write, locals
  <2>5. CASE ActivatePlan(h)
    BY <2>5, KeyInsert DEF ActivatePlan, Settling, locals
  <2>6. CASE RestartCounter(h)
    BY <2>6, KeyMove DEF RestartCounter, At, Settling, Write, locals
  <2> QED
    BY <1>10, <2>1, <2>2, <2>3, <2>4, <2>5, <2>6 DEF HookStep
<1>11. CASE UNCHANGED vars
  BY <1>11, KeyFrame DEF vars, rows, locals
<1>12. CASE Quiet
  BY <1>12, <1>11 DEF Quiet
<1> QED
  BY <1>1, <1>2, <1>3, <1>4, <1>5, <1>6, <1>7, <1>8, <1>9, <1>10, <1>11, <1>12
  DEF Next, Proceed

\* However often and however concurrently a payment is delivered, one
\* delivery at most is committed for it.
THEOREM AppliedOnce == Spec => []PaymentAppliedOnce
<1>1. KeyInv => PaymentAppliedOnce
  BY DEF KeyInv
<1> QED
  BY <1>1, TypeCorrect, KeyInit, KeyStep, PTL DEF Spec

-----------------------------------------------------------------------------
(* Credits: only a delivery about to commit is one credit ahead of the     *)
(* payments recorded.                                                      *)

Sold == Cardinality(payments \cap PerSession)

CreditInv ==
  /\ counter.credits \in 0 .. Sold
  /\ work.credits \in 0 .. Sold + 1
  /\ work.credits = Sold + 1 =>
       lock \in Hooks /\ pc[lock] = "commit" /\ order[lock] \in PerSession
  /\ \A t \in Txns : seen[t].credits \in 0 .. Sold

\* What was sold is a natural number.
LEMMA SoldType == TypeOK => Sold \in Nat
  BY FS_Subset, FS_CardinalityType, EntitlementsAssumption
  DEF EntitlementsAssumption, TypeOK, Sold

\* Recording payments never lowers what was sold, and a per-session payment
\* that was not recorded raises it.
LEMMA SoldGrows ==
  ASSUME TypeOK, payments \subseteq payments', payments' \subseteq Payments
  PROVE  /\ Sold \in Nat /\ Sold' \in Nat /\ Sold <= Sold'
         /\ \A p \in PerSession : p \in payments' \ payments => Sold + 1 <= Sold'
<1> DEFINE old == payments \cap PerSession
           new == payments' \cap PerSession
<1>1. IsFiniteSet(new) /\ IsFiniteSet(old)
  BY FS_Subset, EntitlementsAssumption DEF EntitlementsAssumption, TypeOK
<1>2. Cardinality(old) \in Nat /\ Cardinality(new) \in Nat
  BY <1>1, FS_CardinalityType
<1>3. Cardinality(old) <= Cardinality(new)
  BY <1>1, FS_Subset
<1>4. ASSUME NEW p \in PerSession, p \in payments' \ payments
      PROVE  Cardinality(old) + 1 <= Cardinality(new)
  <2>1. Cardinality(old \cup {p}) = Cardinality(old) + 1
    BY <1>1, <1>4, FS_AddElement
  <2>2. old \cup {p} \subseteq new
    BY <1>4
  <2> QED
    BY <1>1, <2>1, <2>2, FS_Subset
<1>5. PerSession' = PerSession
  BY DEF PerSession
<1> QED
  BY <1>2, <1>3, <1>4, <1>5 DEF Sold

\* An account begins without credits.
LEMMA CreditInit == Init => CreditInv
<1> SUFFICES ASSUME Init
             PROVE  CreditInv
  OBVIOUS
<1>1. Sold = 0
  BY FS_EmptySet DEF Init, Sold
<1>2. counter.credits = 0 /\ work.credits = 0
  BY EntitlementsAssumption DEF Init, EntitlementsAssumption
<1> QED
  BY <1>1, <1>2 DEF CreditInv, Init, NoRow

\* What a transaction that is not about to commit sees is backed.
LEMMA VisibleCredits ==
  ASSUME TypeOK, CreditInv, NEW t \in Txns, pc[t] # "commit"
  PROVE  Visible(t).credits \in 0 .. Sold
  BY SoldType DEF CreditInv, Visible

\* A step that writes neither the row nor a payment keeps what is backed.
LEMMA CreditMove ==
  ASSUME TypeOK, CreditInv, NEW t \in Txns, pc[t] # "commit",
         \A u \in Txns : u # t => pc'[u] = pc[u],
         \A u \in Hooks : u # t => order'[u] = order[u],
         UNCHANGED <<counter, work, lock, payments>>,
         \A u \in Txns : seen'[u].credits \in 0 .. Sold
  PROVE  CreditInv'
<1>1. Sold' = Sold /\ Sold \in Nat
  BY SoldType DEF Sold, PerSession
<1>2. Hooks \subseteq Txns
  BY DEF Txns
<1>3. CASE work.credits = Sold + 1
  BY <1>1, <1>2, <1>3 DEF CreditInv
<1>4. CASE work.credits # Sold + 1
  BY <1>1, <1>4 DEF CreditInv
<1> QED
  BY <1>3, <1>4

\* A new version of the row keeps what is backed if it is backed itself.
LEMMA CreditWrite ==
  ASSUME TypeOK, CreditInv, NEW t \in Txns, NEW row, Write(t, row),
         row.credits \in 0 .. Sold,
         \A u \in Txns : seen'[u].credits \in 0 .. Sold
  PROVE  CreditInv'
<1>1. Sold' = Sold /\ Sold \in Nat
  BY SoldType DEF Sold, PerSession, Write
<1> QED
  BY <1>1 DEF CreditInv, Write

\* A transaction that is undone leaves the balance as it was.
LEMMA CreditRollback ==
  ASSUME TypeOK, CreditInv, NEW t \in Txns, NEW result, Rollback(t, result)
  PROVE  CreditInv'
<1>1. Sold' = Sold /\ Sold \in Nat
  BY SoldType DEF Sold, PerSession, Rollback
<1>2. /\ counter' = counter /\ order' = order
      /\ work' = IF lock = t THEN counter ELSE work
      /\ lock' = IF lock = t THEN None ELSE lock
      /\ \A u \in Txns : u # t => pc'[u] = pc[u]
      /\ \A u \in Txns : seen'[u].credits \in 0 .. Sold
  BY <1>1 DEF Rollback, End, GoTo, TypeOK, CreditInv, NoRow, locals
<1>3. CASE lock = t
  BY <1>1, <1>2, <1>3 DEF CreditInv
<1>4. CASE lock # t
  BY <1>1, <1>2, <1>4 DEF CreditInv, Txns
<1> QED
  BY <1>3, <1>4

\* A credit becomes visible with the payment it was bought by.
LEMMA CreditCommit ==
  ASSUME TypeOK, KeyInv, CreditInv, NEW t \in Txns, Commit(t)
  PROVE  CreditInv'
<1>1. /\ payments' = payments \cup {p \in Payments : inserted[p] = t}
      /\ order' = order /\ work' = work
      /\ counter' = IF lock = t THEN work ELSE counter
      /\ lock' = IF lock = t THEN None ELSE lock
      /\ \A u \in Txns : u # t => pc'[u] = pc[u]
      /\ \A u \in Txns : seen'[u] = seen[u] \/ seen'[u].credits = 0
  BY DEF Commit, Visible, End, GoTo, TypeOK, NoRow, locals
<1>2. Sold \in Nat /\ Sold' \in Nat /\ Sold <= Sold'
  BY <1>1, SoldGrows DEF TypeOK
<1>3. \A u \in Txns : seen'[u].credits \in 0 .. Sold'
  BY <1>1, <1>2 DEF CreditInv
<1>4. CASE lock = t
  <2>1. work.credits <= Sold'
    <3>1. CASE work.credits = Sold + 1
      <4>1. t \in Hooks /\ pc[t] = "commit" /\ order[t] \in PerSession
        BY <1>4, <3>1 DEF CreditInv
      <4>2. order[t] \notin payments /\ inserted[order[t]] = t
        BY <4>1 DEF KeyInv, Settling
      <4>3. order[t] \in payments' \ payments
        BY <1>1, <4>1, <4>2 DEF PerSession
      <4>4. Sold + 1 <= Sold'
        BY <1>1, <4>1, <4>3, SoldGrows DEF TypeOK
      <4> QED
        BY <3>1, <4>4
    <3>2. CASE work.credits # Sold + 1
      BY <1>2, <3>2 DEF CreditInv
    <3> QED
      BY <3>1, <3>2
  <2> QED
    BY <1>1, <1>2, <1>3, <1>4, <2>1 DEF CreditInv
<1>5. CASE lock # t
  <2>1. CASE work.credits = Sold' + 1
    <3>1. work.credits = Sold + 1 /\ Sold' = Sold
      <4>1. work.credits \in 0 .. Sold + 1
        BY DEF CreditInv
      <4>2. \A new, old \in Nat : \A balance \in 0 .. old + 1 :
               old <= new /\ balance = new + 1 => balance = old + 1 /\ new = old
        OBVIOUS
      <4> QED
        BY <1>2, <2>1, <4>1, <4>2
    <3>2. /\ lock \in Hooks /\ pc[lock] = "commit" /\ order[lock] \in PerSession
          /\ lock' = lock /\ pc'[lock] = pc[lock]
      BY <1>1, <1>5, <3>1 DEF CreditInv, Txns
    <3>3. lock' \in Hooks /\ pc'[lock'] = "commit" /\ order'[lock'] \in PerSession'
      BY <1>1, <3>2 DEF PerSession
    <3> QED
      BY <1>1, <1>2, <1>3, <1>5, <3>3 DEF CreditInv
  <2>2. CASE work.credits # Sold' + 1
    BY <1>1, <1>2, <1>3, <1>5, <2>2 DEF CreditInv
  <2> QED
    BY <2>1, <2>2
<1> QED
  BY <1>4, <1>5

\* No step gives the account a credit that nobody paid for.
LEMMA CreditStep == TypeOK /\ KeyInv /\ CreditInv /\ [Next]_vars => CreditInv'
<1> SUFFICES ASSUME TypeOK, KeyInv, CreditInv, [Next]_vars
             PROVE  CreditInv'
  OBVIOUS
<1>a. /\ Starts \subseteq Txns /\ Conversions \subseteq Txns
      /\ Views \subseteq Txns /\ Hooks \subseteq Txns
  BY DEF Txns
<1>b. Sold \in Nat
  BY SoldType
<1>c. ASSUME NEW t \in Txns, NEW place, GoTo(t, place)
      PROVE  /\ \A u \in Txns : u # t => pc'[u] = pc[u]
             /\ \A u \in Txns : seen'[u].credits \in 0 .. Sold
  BY <1>b, <1>c DEF GoTo, TypeOK, NoRow, CreditInv
<1>d. ASSUME NEW t \in Txns, NEW place, GoTo(t, place), pc[t] # "commit",
             UNCHANGED <<rows, order>>
      PROVE  CreditInv'
  BY <1>c, <1>d, CreditMove DEF rows
<1>1. CASE Tick
  BY <1>1 DEF Tick, rows, locals, CreditInv, Sold, PerSession
<1>2. ASSUME NEW t \in Txns, Begin(t)
      PROVE  CreditInv'
  <2>1. CASE BeginStart(t) \/ BeginConversion(t) \/ BeginView(t)
    BY <2>1, <1>d DEF BeginStart, BeginConversion, BeginView, locals
  <2>2. ASSUME NEW p \in Payments, t \in Hooks, Receive(t, p)
        PROVE  CreditInv'
    <3>1. \A u \in Hooks : u # t => order'[u] = order[u]
      BY <2>2 DEF Receive, TypeOK
    <3> QED
      BY <2>2, <3>1, <1>c, CreditMove DEF Receive, rows
  <2> QED
    BY <1>2, <2>1, <2>2 DEF Begin
<1>3. ASSUME NEW t \in Txns, Fail(t)
      PROVE  CreditInv'
  BY <1>3, CreditRollback DEF Fail
<1>4. ASSUME NEW t \in Txns, GetUsageCounter(t)
      PROVE  CreditInv'
  <2> pc[t] # "commit"
    BY <1>4 DEF GetUsageCounter, FetchCounter, CreateCounter, CreateConflict,
                ResetPeriod, Site
  <2>1. CASE FetchCounter(t)
    <3>1. \A u \in Txns : seen'[u].credits \in 0 .. Sold
      BY <2>1, VisibleCredits DEF FetchCounter, TypeOK, CreditInv
    <3> QED
      BY <2>1, <3>1, CreditMove DEF FetchCounter, rows, locals
  <2>2. CASE CreateCounter(t)
    <3> DEFINE row == [present |-> TRUE, credits |-> 0, used |-> 0,
                       period_start |-> now]
    <3>1. \A u \in Txns : seen'[u].credits \in 0 .. Sold
      BY <2>2, <1>b DEF CreateCounter, TypeOK, CreditInv
    <3>2. Write(t, row) /\ row.credits \in 0 .. Sold
      BY <2>2, <1>b DEF CreateCounter
    <3> HIDE DEF row
    <3> QED
      BY <3>1, <3>2, CreditWrite
  <2>3. CASE CreateConflict(t)
    BY <2>3, CreditRollback DEF CreateConflict
  <2>4. CASE ResetPeriod(t)
    <3> DEFINE used == IF seen[t].used = 0 THEN Visible(t).used ELSE 0
               row  == [Visible(t) EXCEPT !.used = used, !.period_start = now]
    <3>1. Visible(t) \in Counter /\ seen[t] \in Counter
      BY DEF Visible, TypeOK
    <3>2. row.credits = Visible(t).credits
      BY <3>1 DEF Counter
    <3>3. [seen[t] EXCEPT !.used = 0, !.period_start = now].credits = seen[t].credits
      BY <3>1 DEF Counter
    <3>4. seen' = [seen EXCEPT ![t] = [seen[t] EXCEPT !.used = 0,
                                                      !.period_start = now]]
      BY <2>4 DEF ResetPeriod
    <3>5. \A u \in Txns : seen'[u].credits \in 0 .. Sold
      BY <3>3, <3>4 DEF TypeOK, CreditInv
    <3>6. Write(t, row)
      BY <2>4 DEF ResetPeriod
    <3> HIDE DEF row
    <3> QED
      BY <3>2, <3>5, <3>6, VisibleCredits, CreditWrite
  <2> QED
    BY <1>4, <2>1, <2>2, <2>3, <2>4 DEF GetUsageCounter
<1>5. ASSUME NEW t \in Txns, Commit(t)
      PROVE  CreditInv'
  BY <1>5, CreditCommit
<1>6. ASSUME NEW t \in Starts, StartStep(t)
      PROVE  CreditInv'
  <2>1. CASE RefuseStart(t)
    BY <2>1, <1>a, CreditRollback DEF RefuseStart
  <2>2. CASE AdmitStart(t) \/ RecordAccess(t) \/ AskQuestion(t)
    BY <2>2, <1>a, <1>d DEF AdmitStart, RecordAccess, AskQuestion, At, locals
  <2> QED
    BY <1>6, <2>1, <2>2 DEF StartStep
<1>7. ASSUME NEW t \in Starts \cup Conversions, SpendStep(t)
      PROVE  CreditInv'
  <2> t \in Txns
    BY <1>a
  <2>0. Visible(t) \in Counter
    BY DEF Visible, TypeOK
  <2>1. CASE Debit(t)
    <3> DEFINE row == [Visible(t) EXCEPT !.credits = @ - 1]
    <3>1. Visible(t).credits \in 0 .. Sold /\ Visible(t).credits > 0
      BY <2>1, VisibleCredits DEF Debit, At
    <3>2. row.credits = Visible(t).credits - 1
      BY <2>0 DEF Counter
    <3>3. row.credits \in 0 .. Sold
      BY <3>1, <3>2, <1>b
    <3>4. Write(t, row) /\ GoTo(t, "count")
      BY <2>1 DEF Debit
    <3> HIDE DEF row
    <3> QED
      BY <3>3, <3>4, <1>c, CreditWrite
  <2>2. CASE NoDebit(t)
    BY <2>2, <1>d DEF NoDebit, At, locals
  <2>3. CASE CountUse(t)
    <3> DEFINE row == [Visible(t) EXCEPT !.used = @ + 1]
    <3>1. Visible(t).credits \in 0 .. Sold
      BY <2>3, VisibleCredits DEF CountUse, At
    <3>2. row.credits = Visible(t).credits
      BY <2>0 DEF Counter
    <3>3. Write(t, row) /\ GoTo(t, "commit")
      BY <2>3 DEF CountUse
    <3> HIDE DEF row
    <3> QED
      BY <3>1, <3>2, <3>3, <1>c, CreditWrite
  <2> QED
    BY <1>7, <2>1, <2>2, <2>3 DEF SpendStep
<1>8. ASSUME NEW t \in Conversions, ConversionStep(t)
      PROVE  CreditInv'
  <2>1. CASE RefuseConversion(t)
    BY <2>1, <1>a, CreditRollback DEF RefuseConversion
  <2>2. CASE AdmitConversion(t)
    BY <2>2, <1>a, <1>d DEF AdmitConversion, At, locals
  <2> QED
    BY <1>8, <2>1, <2>2 DEF ConversionStep
<1>9. ASSUME NEW t \in Views, EndView(t)
      PROVE  CreditInv'
  BY <1>9, <1>a, <1>d DEF EndView, At, locals
<1>10. ASSUME NEW h \in Hooks, HookStep(h)
       PROVE  CreditInv'
  <2> h \in Txns
    BY <1>a
  <2>0. Visible(h) \in Counter
    BY DEF Visible, TypeOK
  <2>1. CASE Ignore(h) \/ DuplicateKey(h)
    BY <2>1, CreditRollback DEF Ignore, DuplicateKey
  <2>2. CASE Accept(h)
    BY <2>2, <1>d DEF Accept, locals
  <2>3. CASE InsertPayment(h)
    BY <2>3, <1>c, CreditMove DEF InsertPayment, locals
  <2>4. CASE AddCredit(h)
    <3> DEFINE row == [Visible(h) EXCEPT !.credits = seen[h].credits + 1]
    <3>1. seen[h].credits \in 0 .. Sold
      BY DEF CreditInv
    <3>2. row.credits = seen[h].credits + 1
      BY <2>0 DEF Counter
    <3>3. /\ counter' = counter /\ payments' = payments /\ order' = order
          /\ work'.credits = seen[h].credits + 1 /\ lock' = h
          /\ pc'[h] = "commit"
          /\ \A u \in Txns : seen'[u].credits \in 0 .. Sold
      BY <2>4, <3>2, <1>c DEF AddCredit, Write, GoTo, TypeOK, locals
    <3>4. order[h] \in PerSession
      BY <2>4 DEF AddCredit, At, KeyInv
    <3>5. Sold' = Sold /\ PerSession' = PerSession
      BY <3>3 DEF Sold, PerSession
    <3> HIDE DEF row
    <3> QED
      BY <3>1, <3>3, <3>4, <3>5, <1>b DEF CreditInv
  <2>5. CASE ActivatePlan(h)
    BY <2>5, <1>c, CreditMove DEF ActivatePlan, locals
  <2>6. CASE RestartCounter(h)
    <3> DEFINE used == IF seen[h].used = 0 THEN Visible(h).used ELSE 0
               row  == [Visible(h) EXCEPT !.used = used, !.period_start = now]
    <3>1. Visible(h).credits \in 0 .. Sold
      BY <2>6, VisibleCredits DEF RestartCounter, At
    <3>2. row.credits = Visible(h).credits
      BY <2>0 DEF Counter
    <3>3. Write(h, row) /\ GoTo(h, "commit")
      BY <2>6 DEF RestartCounter
    <3> HIDE DEF row
    <3> QED
      BY <3>1, <3>2, <3>3, <1>c, CreditWrite
  <2> QED
    BY <1>10, <2>1, <2>2, <2>3, <2>4, <2>5, <2>6 DEF HookStep
<1>11. CASE UNCHANGED vars
  BY <1>11 DEF vars, rows, locals, CreditInv, Sold, PerSession
<1>12. CASE Quiet
  BY <1>12, <1>11 DEF Quiet
<1> QED
  BY <1>1, <1>2, <1>3, <1>4, <1>5, <1>6, <1>7, <1>8, <1>9, <1>10, <1>11, <1>12
  DEF Next, Proceed

\* No interleaving of requests and deliveries takes the balance below zero.
THEOREM NeverNegative == Spec => []CreditsNonNegative
<1>1. TypeOK /\ CreditInv => CreditsNonNegative
  BY SoldType DEF CreditInv, CreditsNonNegative
<1> QED
  BY <1>1, TypeCorrect, KeyInit, KeyStep, CreditInit, CreditStep, PTL DEF Spec

\* At every moment the balance is covered by per-session payments recorded.
THEOREM CreditsBacked == Spec => []CreditsBackedByPayments
<1>1. TypeOK /\ CreditInv => CreditsBackedByPayments
  BY SoldType DEF CreditInv, CreditsBackedByPayments, Sold
<1> QED
  BY <1>1, TypeCorrect, KeyInit, KeyStep, CreditInit, CreditStep, PTL DEF Spec

-----------------------------------------------------------------------------
(* What a committed start or conversion takes: it takes what it debited, and *)
(* on the free plan it counts one use, although the row may have changed    *)
(* since it was read.                                                      *)

Spenders == Starts \cup Conversions

\* The two rows by themselves: a row written is present, an absent one is
\* empty, no delivery makes the plan free, and who has read the counter sees
\* a row.
RowInv ==
  /\ ~counter.present => counter.credits = 0 /\ counter.used = 0
  /\ lock # None => work.present
  /\ subLock # None => subWork.plan # "free"
  /\ \A t \in Txns : stage[t] \in {"reset", "use"} => counter.present \/ lock = t

\* The version t holds differs from the committed row by what t has done.
Charge(t) ==
  /\ pc[t] = "commit" => lock = t
  /\ debited[t] => pc[t] = "done" \/ (lock = t /\ pc[t] \in {"count", "commit"})
  /\ stage[t] = "create" => lock # t
  /\ stage[t] = "reset" => sub.plan # "free"
  /\ lock = t => work.credits = counter.credits - (IF debited[t] THEN 1 ELSE 0)
  /\ lock = t /\ sub.plan = "free" =>
       work.used = counter.used + (IF pc[t] = "commit" THEN 1 ELSE 0)

ChargeInv == RowInv /\ \A t \in Spenders : Charge(t)

\* No request has begun: nothing has been charged.
LEMMA ChargeInit == Init => ChargeInv
<1> SUFFICES ASSUME Init
             PROVE  ChargeInv
  OBVIOUS
<1>1. counter \in Counter /\ (~counter.present => counter.credits = 0 /\ counter.used = 0)
  BY EntitlementsAssumption DEF Init, EntitlementsAssumption
<1>2. None \notin Spenders /\ Spenders \subseteq Txns
  BY EntitlementsAssumption DEF EntitlementsAssumption, Spenders, Txns
<1> QED
  BY <1>1, <1>2 DEF Init, ChargeInv, RowInv, Charge

\* A step of another transaction leaves the version t holds alone.
LEMMA ChargeFrame ==
  ASSUME NEW t, Charge(t),
         pc'[t] = pc[t], stage'[t] = stage[t], debited'[t] = debited[t],
         lock' = t <=> lock = t,
         lock = t => work' = work /\ counter' = counter,
         sub'.plan = "free" => sub.plan = "free"
  PROVE  Charge(t)'
  BY DEF Charge

\* The transaction that moves concerns no other's locals.
LEMMA OthersKeep ==
  ASSUME TypeOK, NEW t \in Txns, NEW place, GoTo(t, place),
         NEW u \in Txns, u # t
  PROVE  pc'[u] = pc[u] /\ stage'[u] = stage[u]
  BY DEF GoTo, TypeOK

\* A write by t keeps the invariant if it keeps t's own part of it.
LEMMA ChargeWrite ==
  ASSUME TypeOK, ChargeInv, NEW t \in Txns, NEW row, Write(t, row), row.present,
         \A u \in Txns : u # t =>
            pc'[u] = pc[u] /\ stage'[u] = stage[u] /\ debited'[u] = debited[u],
         t \in Spenders => Charge(t)'
  PROVE  ChargeInv'
<1>a. Spenders \subseteq Txns /\ None \notin Txns
  BY EntitlementsAssumption DEF EntitlementsAssumption, Spenders, Txns
<1>1. RowInv'
  BY <1>a DEF ChargeInv, RowInv, Write
<1>2. ASSUME NEW u \in Spenders, u # t
      PROVE  Charge(u)'
  <2>1. None # u
    BY <1>a
  <2>2. lock # u /\ lock' # u /\ sub' = sub
    BY <1>2, <2>1 DEF Write
  <2> QED
    BY <1>2, <1>a, <2>2, ChargeFrame DEF ChargeInv
<1> QED
  BY <1>1, <1>2 DEF ChargeInv

\* A step that writes nothing keeps the invariant if it keeps t's part of it.
LEMMA ChargeMove ==
  ASSUME TypeOK, ChargeInv, NEW t \in Txns, UNCHANGED <<counter, work, lock, sub>>,
         subLock' # None => subWork'.plan # "free",
         \A u \in Txns : u # t =>
            pc'[u] = pc[u] /\ stage'[u] = stage[u] /\ debited'[u] = debited[u],
         stage'[t] \in {"reset", "use"} => counter.present \/ lock = t,
         t \in Spenders => Charge(t)'
  PROVE  ChargeInv'
<1>1. RowInv'
  BY DEF ChargeInv, RowInv
<1>2. ASSUME NEW u \in Spenders, u # t
      PROVE  Charge(u)'
  BY <1>2, ChargeFrame DEF ChargeInv, Spenders, Txns
<1> QED
  BY <1>1, <1>2 DEF ChargeInv

\* A spender that goes on without having been charged.
LEMMA ChargeGoOn ==
  ASSUME TypeOK, ChargeInv, NEW t \in Txns, NEW place, GoTo(t, place),
         UNCHANGED <<counter, work, lock, sub, subLock, subWork, debited>>,
         t \in Spenders => /\ pc[t] \notin {"count", "commit", "done"}
                           /\ place # "commit"
  PROVE  ChargeInv'
<1>1. ASSUME t \in Spenders
      PROVE  Charge(t)'
  <2>1. pc'[t] = place /\ stage'[t] = "fetch"
    BY DEF GoTo, TypeOK
  <2> QED
    BY <1>1, <2>1 DEF ChargeInv, Charge
<1>2. \A u \in Txns : u # t => pc'[u] = pc[u] /\ stage'[u] = stage[u]
  BY OthersKeep
<1>3. stage'[t] = "fetch"
  BY DEF GoTo, TypeOK
<1> QED
  BY <1>1, <1>2, <1>3, ChargeMove DEF ChargeInv, RowInv

\* What is undone is not charged.
LEMMA ChargeRollback ==
  ASSUME TypeOK, ChargeInv, NEW t \in Txns, NEW result, Rollback(t, result)
  PROVE  ChargeInv'
<1>1. /\ UNCHANGED <<counter, sub, debited>>
      /\ lock' = IF lock = t THEN None ELSE lock
      /\ work' = IF lock = t THEN counter ELSE work
      /\ subLock' = IF subLock = t THEN None ELSE subLock
      /\ subWork' = IF subLock = t THEN sub ELSE subWork
      /\ pc'[t] = "done" /\ stage'[t] = "fetch"
      /\ \A u \in Txns : u # t => pc'[u] = pc[u] /\ stage'[u] = stage[u]
  BY DEF Rollback, End, GoTo, TypeOK, locals
<1>2. \A u \in Spenders : u \in Txns /\ u # None
  BY EntitlementsAssumption DEF EntitlementsAssumption, Spenders, Txns
<1>3. t # None
  BY EntitlementsAssumption DEF EntitlementsAssumption
<1>4. RowInv'
  BY <1>1 DEF ChargeInv, RowInv
<1>5. ASSUME NEW u \in Spenders, u # t
      PROVE  Charge(u)'
  BY <1>1, <1>2, <1>5, ChargeFrame DEF ChargeInv
<1>6. ASSUME t \in Spenders
      PROVE  Charge(t)'
  BY <1>1, <1>3, <1>6 DEF Charge
<1> QED
  BY <1>4, <1>5, <1>6 DEF ChargeInv

\* The commit of t is the end of its charge and of nobody else's.
LEMMA ChargeCommit ==
  ASSUME TypeOK, ChargeInv, NEW t \in Txns, Commit(t)
  PROVE  ChargeInv'
<1>1. /\ UNCHANGED <<work, subWork, debited>>
      /\ counter' = IF lock = t THEN work ELSE counter
      /\ lock' = IF lock = t THEN None ELSE lock
      /\ sub' = IF subLock = t THEN subWork ELSE sub
      /\ subLock' = IF subLock = t THEN None ELSE subLock
      /\ pc'[t] = "done" /\ stage'[t] = "fetch"
      /\ \A u \in Txns : u # t => pc'[u] = pc[u] /\ stage'[u] = stage[u]
  BY DEF Commit, Visible, VisibleSub, End, GoTo, TypeOK, locals
<1>2. \A u \in Spenders : u \in Txns /\ u # None
  BY EntitlementsAssumption DEF EntitlementsAssumption, Spenders, Txns
<1>3. t # None
  BY EntitlementsAssumption DEF EntitlementsAssumption
<1>4. RowInv'
  BY <1>1, <1>3 DEF ChargeInv, RowInv
<1>5. sub'.plan = "free" => sub.plan = "free"
  BY <1>1, <1>3 DEF ChargeInv, RowInv
<1>6. ASSUME NEW u \in Spenders, u # t
      PROVE  Charge(u)'
  BY <1>1, <1>2, <1>5, <1>6, ChargeFrame DEF ChargeInv
<1>7. ASSUME t \in Spenders
      PROVE  Charge(t)'
  BY <1>1, <1>3, <1>7 DEF Charge
<1> QED
  BY <1>4, <1>6, <1>7 DEF ChargeInv

\* No step charges anybody but the transaction that takes it.
LEMMA ChargeStep == TypeOK /\ ChargeInv /\ [Next]_vars => ChargeInv'
<1> SUFFICES ASSUME TypeOK, ChargeInv, [Next]_vars
             PROVE  ChargeInv'
  OBVIOUS
<1>a. /\ Spenders \subseteq Txns /\ Hooks \subseteq Txns /\ Views \subseteq Txns
      /\ Starts \cup Conversions = Spenders /\ Spenders \cap Hooks = {}
      /\ Starts \cap Conversions = {} /\ Views \cap Spenders = {}
  BY EntitlementsAssumption DEF EntitlementsAssumption, Txns, Spenders
<1>b. \A t \in Txns : Visible(t) \in Counter /\ counter \in Counter /\ work \in Counter
                      /\ seen[t] \in Counter
  BY DEF Visible, TypeOK
<1>c. ASSUME NEW t \in Txns, NEW place, GoTo(t, place)
      PROVE  /\ pc'[t] = place /\ stage'[t] = "fetch"
             /\ \A u \in Txns : u # t => pc'[u] = pc[u] /\ stage'[u] = stage[u]
  BY <1>c, OthersKeep DEF GoTo, TypeOK
<1>d. ASSUME NEW t \in Txns, stage[t] = "use"
      PROVE  Visible(t).present
  BY <1>d, EntitlementsAssumption
  DEF Visible, ChargeInv, RowInv, EntitlementsAssumption
<1>1. CASE Tick
  BY <1>1 DEF Tick, rows, locals, ChargeInv, RowInv, Charge
<1>2. ASSUME NEW t \in Txns, Begin(t)
      PROVE  ChargeInv'
  <2>1. CASE BeginStart(t) \/ BeginConversion(t) \/ BeginView(t)
    BY <2>1, ChargeGoOn DEF BeginStart, BeginConversion, BeginView, rows, locals
  <2>2. ASSUME NEW p \in Payments, t \in Hooks, Receive(t, p)
        PROVE  ChargeInv'
    BY <2>2, <1>a, ChargeGoOn DEF Receive, rows
  <2> QED
    BY <1>2, <2>1, <2>2 DEF Begin
<1>3. ASSUME NEW t \in Txns, Fail(t)
      PROVE  ChargeInv'
  BY <1>3, ChargeRollback DEF Fail
<1>4. ASSUME NEW t \in Txns, GetUsageCounter(t)
      PROVE  ChargeInv'
  <2> pc[t] \in Site /\ pc[t] \notin {"commit", "done"}
    BY <1>4 DEF GetUsageCounter, FetchCounter, CreateCounter, CreateConflict,
                ResetPeriod, Site
  <2>1. CASE FetchCounter(t)
    <3>1. /\ pc' = pc /\ UNCHANGED <<rows, debited>>
          /\ \A u \in Txns : u # t => stage'[u] = stage[u]
      BY <2>1, <1>a DEF FetchCounter, TypeOK, locals
    <3>2. ASSUME t \in Spenders
          PROVE  Charge(t)'
      <4>1. VisibleSub(t) = sub
        BY <3>2, <1>a, EntitlementsAssumption
        DEF VisibleSub, TypeOK, EntitlementsAssumption
      <4>2. stage'[t] = "create" => ~Visible(t).present
        BY <2>1 DEF FetchCounter, TypeOK
      <4>3. stage'[t] = "create" => lock # t
        BY <4>2, EntitlementsAssumption
        DEF Visible, ChargeInv, RowInv, EntitlementsAssumption
      <4>4. stage'[t] = "reset" => sub.plan # "free"
        <5>1. stage'[t] = "reset" => RolledOver(t, Visible(t))
          BY <2>1 DEF FetchCounter, TypeOK
        <5>2. EffectivePlan(sub, now) \in SubscriptionPlans => sub.plan # "free"
          BY DEF EffectivePlan, SubscriptionPlans
        <5> QED
          BY <4>1, <5>1, <5>2 DEF RolledOver
      <4> QED
        BY <3>1, <3>2, <4>3, <4>4 DEF ChargeInv, Charge, rows
    <3>3. stage'[t] \in {"reset", "use"} => counter.present \/ lock = t
      BY <2>1 DEF FetchCounter, TypeOK, Visible, ChargeInv, RowInv
    <3> QED
      BY <3>1, <3>2, <3>3, ChargeMove DEF rows, ChargeInv, RowInv
  <2>2. CASE CreateCounter(t)
    <3> DEFINE row == [present |-> TRUE, credits |-> 0, used |-> 0,
                       period_start |-> now]
    <3>1. /\ Write(t, row) /\ row.present /\ row.credits = 0 /\ row.used = 0
          /\ pc' = pc /\ debited' = debited /\ stage[t] = "create"
          /\ stage'[t] = "use" /\ ~counter.present
          /\ \A u \in Txns : u # t => stage'[u] = stage[u]
      BY <2>2, <1>a DEF CreateCounter, TypeOK, locals
    <3> HIDE DEF row
    <3>2. ASSUME t \in Spenders
          PROVE  Charge(t)'
      BY <3>1, <3>2 DEF ChargeInv, RowInv, Charge, Write
    <3> QED
      BY <3>1, <3>2, ChargeWrite
  <2>3. CASE CreateConflict(t)
    BY <2>3, ChargeRollback DEF CreateConflict
  <2>4. CASE ResetPeriod(t)
    <3> DEFINE used == IF seen[t].used = 0 THEN Visible(t).used ELSE 0
               row  == [Visible(t) EXCEPT !.used = used, !.period_start = now]
    <3>1. row.credits = Visible(t).credits /\ row.present = Visible(t).present
      BY <1>b DEF Counter
    <3>4. Visible(t).present
      BY <2>4, EntitlementsAssumption
      DEF ResetPeriod, Visible, ChargeInv, RowInv, EntitlementsAssumption
    <3>2. /\ Write(t, row)
          /\ pc' = pc /\ debited' = debited /\ stage[t] = "reset"
          /\ stage'[t] = "use"
          /\ \A u \in Txns : u # t => stage'[u] = stage[u]
      BY <2>4, <1>a DEF ResetPeriod, TypeOK, locals
    <3> HIDE DEF row
    <3>3. ASSUME t \in Spenders
          PROVE  Charge(t)'
      <4>1. lock \in {None, t} /\ None # t
        BY <3>2, EntitlementsAssumption DEF Write, EntitlementsAssumption
      <4>2. lock = None => ~debited[t]
        BY <3>3, <4>1 DEF ChargeInv, Charge
      <4>3. /\ work' = row /\ lock' = t /\ counter' = counter /\ sub' = sub
            /\ sub.plan # "free"
        BY <3>2, <3>3 DEF Write, ChargeInv, Charge
      <4>4. row.credits = counter.credits - (IF debited[t] THEN 1 ELSE 0)
        <5>1. CASE lock = t
          BY <3>1, <3>3, <5>1 DEF Visible, ChargeInv, Charge
        <5>2. CASE lock = None
          BY <3>1, <1>b, <4>1, <4>2, <5>2 DEF Visible, Counter
        <5> QED
          BY <4>1, <5>1, <5>2
      <4> QED
        BY <3>2, <3>3, <4>3, <4>4 DEF ChargeInv, Charge
    <3> QED
      BY <3>1, <3>2, <3>3, <3>4, ChargeWrite
  <2> QED
    BY <1>4, <2>1, <2>2, <2>3, <2>4 DEF GetUsageCounter
<1>5. ASSUME NEW t \in Txns, Commit(t)
      PROVE  ChargeInv'
  BY <1>5, ChargeCommit
<1>6. ASSUME NEW t \in Starts, StartStep(t)
      PROVE  ChargeInv'
  <2>1. CASE RefuseStart(t)
    BY <2>1, <1>a, ChargeRollback DEF RefuseStart
  <2>2. CASE AdmitStart(t) \/ RecordAccess(t) \/ AskQuestion(t)
    BY <2>2, <1>a, ChargeGoOn DEF AdmitStart, RecordAccess, AskQuestion, At,
                                  rows, locals
  <2> QED
    BY <1>6, <2>1, <2>2 DEF StartStep
<1>11. CASE UNCHANGED vars
  BY <1>11 DEF vars, rows, locals, ChargeInv, RowInv, Charge
<1>12. CASE Quiet
  BY <1>12, <1>11 DEF Quiet
<1>7. ASSUME NEW t \in Spenders, SpendStep(t)
      PROVE  ChargeInv'
  <2> t \in Txns /\ None # t
    BY <1>a, EntitlementsAssumption DEF EntitlementsAssumption
  <2>a. At(t, "spend") => ~debited[t]
    BY EntitlementsAssumption DEF At, ChargeInv, Charge
  <2>c. ASSUME lock \in {None, t}, stage[t] = "use", pc[t] \in {"spend", "count"}
        PROVE  /\ Visible(t).credits = counter.credits - (IF debited[t] THEN 1 ELSE 0)
               /\ sub.plan = "free" => Visible(t).used = counter.used
    <3>1. CASE lock = t
      BY <2>c, <3>1, <1>b DEF Visible, ChargeInv, Charge, Counter
    <3>2. CASE lock = None
      BY <2>c, <3>2, <1>b DEF Visible, ChargeInv, Charge, Counter
    <3> QED
      BY <2>c, <3>1, <3>2
  <2>1. CASE Debit(t)
    <3> DEFINE row == [Visible(t) EXCEPT !.credits = @ - 1]
    <3>1. /\ row.credits = Visible(t).credits - 1 /\ row.used = Visible(t).used
          /\ row.present = Visible(t).present
      BY <1>b DEF Counter
    <3>2. /\ Write(t, row) /\ GoTo(t, "count") /\ debited'[t] = TRUE
          /\ \A u \in Txns : u # t => debited'[u] = debited[u]
          /\ pc[t] = "spend" /\ stage[t] = "use"
      BY <2>1 DEF Debit, At, TypeOK
    <3> HIDE DEF row
    <3>3. /\ lock \in {None, t} /\ lock' = t /\ work' = row
          /\ counter' = counter /\ sub' = sub
      BY <3>2 DEF Write
    <3>4. Charge(t)'
      BY <3>1, <3>2, <3>3, <1>b, <1>c, <2>1, <2>a, <2>c DEF Charge, Debit, Counter
    <3> QED
      BY <3>1, <3>2, <3>4, <1>c, <1>d, ChargeWrite
  <2>2. CASE NoDebit(t)
    <3>1. GoTo(t, "count") \/ GoTo(t, "limits")
      BY <2>2 DEF NoDebit
    <3> QED
      BY <2>2, <3>1, ChargeGoOn DEF NoDebit, At, rows, locals
  <2>3. CASE CountUse(t)
    <3> DEFINE row == [Visible(t) EXCEPT !.used = @ + 1]
    <3>1. /\ row.credits = Visible(t).credits /\ row.used = Visible(t).used + 1
          /\ row.present = Visible(t).present
      BY <1>b DEF Counter
    <3>2. /\ Write(t, row) /\ GoTo(t, "commit") /\ debited' = debited
          /\ pc[t] = "count" /\ stage[t] = "use"
      BY <2>3 DEF CountUse, At, locals
    <3> HIDE DEF row
    <3>3. /\ lock \in {None, t} /\ lock' = t /\ work' = row
          /\ counter' = counter /\ sub' = sub
      BY <3>2 DEF Write
    <3>4. Charge(t)'
      BY <3>1, <3>2, <3>3, <1>b, <1>c, <2>c DEF Charge, Counter
    <3> QED
      BY <3>1, <3>2, <3>4, <1>c, <1>d, ChargeWrite
  <2> QED
    BY <1>7, <2>1, <2>2, <2>3 DEF SpendStep
<1>8. ASSUME NEW t \in Conversions, ConversionStep(t)
      PROVE  ChargeInv'
  <2> t \in Txns
    BY <1>a
  <2>1. CASE RefuseConversion(t)
    BY <2>1, ChargeRollback DEF RefuseConversion
  <2>2. CASE AdmitConversion(t)
    BY <2>2, ChargeGoOn DEF AdmitConversion, At, rows, locals
  <2> QED
    BY <1>8, <2>1, <2>2 DEF ConversionStep
<1>9. ASSUME NEW t \in Views, EndView(t)
      PROVE  ChargeInv'
  BY <1>9, <1>a, ChargeGoOn DEF EndView, At, rows, locals
<1>10. ASSUME NEW h \in Hooks, HookStep(h)
       PROVE  ChargeInv'
  <2> h \in Txns /\ h \notin Spenders
    BY <1>a
  <2>1. CASE Ignore(h) \/ DuplicateKey(h)
    BY <2>1, ChargeRollback DEF Ignore, DuplicateKey
  <2>2. CASE Accept(h)
    BY <2>2, ChargeGoOn DEF Accept, rows, locals
  <2>3. CASE InsertPayment(h)
    BY <2>3, ChargeGoOn DEF InsertPayment, locals
  <2>4. CASE AddCredit(h)
    <3> DEFINE row == [Visible(h) EXCEPT !.credits = seen[h].credits + 1]
    <3>1. row.present = Visible(h).present
      BY <1>b DEF Counter
    <3>2. Write(h, row) /\ GoTo(h, "commit") /\ debited' = debited
      BY <2>4 DEF AddCredit, locals
    <3>3. Visible(h).present
      BY <2>4, <1>d DEF AddCredit, At
    <3> HIDE DEF row
    <3> QED
      BY <3>1, <3>2, <3>3, <1>c, ChargeWrite
  <2>5. CASE ActivatePlan(h)
    <3>1. PlanBought[order[h]] # "free"
      BY <2>5, EntitlementsAssumption
      DEF ActivatePlan, EntitlementsAssumption, TypeOK
    <3>2. subWork'.plan # "free" /\ GoTo(h, "restart")
      BY <2>5, <3>1 DEF ActivatePlan
    <3> QED
      BY <2>5, <3>2, <1>c, ChargeMove DEF ActivatePlan, locals
  <2>6. CASE RestartCounter(h)
    <3> DEFINE used == IF seen[h].used = 0 THEN Visible(h).used ELSE 0
               row  == [Visible(h) EXCEPT !.used = used, !.period_start = now]
    <3>1. row.present = Visible(h).present
      BY <1>b DEF Counter
    <3>2. Write(h, row) /\ GoTo(h, "commit") /\ debited' = debited
      BY <2>6 DEF RestartCounter, locals
    <3>3. Visible(h).present
      BY <2>6, <1>d DEF RestartCounter, At
    <3> HIDE DEF row
    <3> QED
      BY <3>1, <3>2, <3>3, <1>c, ChargeWrite
  <2> QED
    BY <1>10, <2>1, <2>2, <2>3, <2>4, <2>5, <2>6 DEF HookStep
<1> QED
  BY <1>a, <1>1, <1>2, <1>3, <1>4, <1>5, <1>6, <1>7, <1>8, <1>9, <1>10, <1>11, <1>12
  DEF Next, Proceed

\* What a step commits for a start or a conversion is what it debited, and on
\* the free plan one use, on top of the row as committed before the step.
LEMMA CommitCharges ==
  ASSUME TypeOK, ChargeInv, NEW t \in Spenders, [Next]_vars,
         outcome[t] # "committed", outcome'[t] = "committed"
  PROVE  /\ counter'.credits = counter.credits - (IF debited[t] THEN 1 ELSE 0)
         /\ sub.plan = "free" => counter'.used = counter.used + 1
<1> t \in Txns
  BY DEF Spenders, Txns
<1>1. Commit(t)
  <2>1. ASSUME NEW u \in Txns, NEW result, result # "committed", Rollback(u, result)
        PROVE  FALSE
    BY <2>1 DEF Rollback, End, TypeOK
  <2>2. outcome' # outcome
    OBVIOUS
  <2>3. ASSUME NEW u \in Txns, Begin(u) \/ Proceed(u) \/ Fail(u)
        PROVE  Commit(u)
    <3>1. CASE Begin(u)
      BY <3>1, <2>2 DEF Begin, BeginStart, BeginConversion, BeginView, Receive
    <3>2. CASE Fail(u)
      BY <3>2, <2>1 DEF Fail
    <3>3. CASE GetUsageCounter(u)
      BY <3>3, <2>1, <2>2 DEF GetUsageCounter, FetchCounter, CreateCounter,
                              CreateConflict, ResetPeriod
    <3>4. CASE StartStep(u)
      BY <3>4, <2>1, <2>2 DEF StartStep, AdmitStart, RefuseStart, RecordAccess,
                              AskQuestion
    <3>5. CASE SpendStep(u)
      BY <3>5, <2>2 DEF SpendStep, Debit, NoDebit, CountUse
    <3>6. CASE ConversionStep(u)
      BY <3>6, <2>1, <2>2 DEF ConversionStep, AdmitConversion, RefuseConversion
    <3>7. CASE EndView(u)
      BY <3>7, <2>2 DEF EndView
    <3>8. CASE HookStep(u)
      BY <3>8, <2>1, <2>2 DEF HookStep, Ignore, Accept, InsertPayment, AddCredit,
                              ActivatePlan, DuplicateKey, RestartCounter
    <3> QED
      BY <2>3, <3>1, <3>2, <3>3, <3>4, <3>5, <3>6, <3>7, <3>8 DEF Proceed
  <2>4. PICK u \in Txns : Begin(u) \/ Proceed(u) \/ Fail(u)
    BY <2>2 DEF Next, Tick, Quiet, vars
  <2>5. Commit(u) /\ u = t
    BY <2>3, <2>4 DEF Commit, End, TypeOK
  <2> QED
    BY <2>5
<1> QED
  BY <1>1 DEF Commit, Visible, ChargeInv, Charge

\* Whoever commits a start or a conversion takes exactly what it debited, and
\* exactly one use of the free plan, whatever other requests have done since
\* it read the row.
THEOREM ChargesExactly == Spec => ChargedExactly
<1>1. TypeOK /\ ChargeInv /\ [Next]_vars =>
        [\A t \in Starts \cup Conversions :
           outcome[t] # "committed" /\ outcome'[t] = "committed" =>
             /\ counter'.credits = counter.credits - (IF debited[t] THEN 1 ELSE 0)
             /\ sub.plan = "free" => counter'.used = counter.used + 1]_vars
  BY CommitCharges DEF Spenders
<1> QED
  BY <1>1, TypeCorrect, ChargeInit, ChargeStep, PTL DEF Spec, ChargedExactly
=============================================================================
