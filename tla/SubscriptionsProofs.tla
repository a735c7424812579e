------------------------ MODULE SubscriptionsProofs ------------------------
(* Theorems about Subscriptions, for every number of requests in progress, *)
(* every clock bound and every number of payments.                         *)
EXTENDS Subscriptions, SequenceTheorems, TLAPS

\* The row t's UPDATE makes is a row.
LEMMA FlushedRow ==
  ASSUME TypeOK, NEW t \in Txns
  PROVE  /\ Visible(t) \in Row
         /\ Flushed(t) \in Row
         /\ Loaded(t) \in Row
<1> DEFINE old == Visible(t)
           new == IF dirty[t] = {} THEN old ELSE object[t]
           plan == IF "plan" \in dirty[t] THEN new.plan ELSE old.plan
           status == IF "status" \in dirty[t] THEN new.status ELSE old.status
           period_end == IF "period_end" \in dirty[t] THEN new.period_end
                                                      ELSE old.period_end
           method == IF "method" \in dirty[t] THEN new.method ELSE old.method
           cancelled == IF "cancelled" \in dirty[t] THEN new.cancelled
                                                    ELSE old.cancelled
<1>1. old \in Row
  BY DEF TypeOK, Visible
<1>2. new \in Row
  BY <1>1 DEF TypeOK
<1>3. Flushed(t) = [plan |-> plan, status |-> status, period_end |-> period_end,
                    method |-> method, cancelled |-> cancelled]
  <2>1. CASE dirty[t] = {}
    BY <2>1, Zenon DEF Flushed
  <2>2. CASE dirty[t] # {}
    BY <2>2, Zenon DEF Flushed
  <2> QED
    BY <2>1, <2>2
<1>4. Loaded(t) \in Row
  BY <1>1 DEF Loaded, TypeOK
<1>5. /\ plan \in PlanType /\ status \in SubscriptionStatus
      /\ period_end \in Int /\ method \in BOOLEAN /\ cancelled \in BOOLEAN
  <2> HIDE DEF old, new
  <2>1. /\ old.plan \in PlanType /\ new.plan \in PlanType
        /\ old.status \in SubscriptionStatus /\ new.status \in SubscriptionStatus
        /\ old.period_end \in Int /\ new.period_end \in Int
        /\ old.method \in BOOLEAN /\ new.method \in BOOLEAN
        /\ old.cancelled \in BOOLEAN /\ new.cancelled \in BOOLEAN
    BY <1>1, <1>2, Zenon DEF Row
  <2> QED
    BY <2>1, Zenon
<1>6. Flushed(t) \in Row
  <2> HIDE DEF plan, status, period_end, method, cancelled
  <2> QED
    BY <1>3, <1>5 DEF Row
<1> QED
  BY <1>1, <1>4, <1>6

-----------------------------------------------------------------------------
(* Types.                                                                  *)

RowsOK == sub \in Row /\ work \in Row /\ lock \in Txns \cup {None}

OrmOK ==
  /\ object \in [Txns -> Row \cup {None}]
  /\ dirty \in [Txns -> SUBSET Columns]
  /\ \A t \in Txns : dirty[t] # {} => object[t] # None

LedgerOK ==
  /\ ledger \in Seq(Charge)
  /\ payments \subseteq DOMAIN ledger
  /\ inserted \in [Hooks -> {0} \cup DOMAIN ledger]
  /\ event \in [Hooks -> {0} \cup DOMAIN ledger]

\* The worker has a subscription in hand wherever it charges for one, and a
\* delivery in hand is about a payment.
InHand ==
  /\ pc[Worker] \in {"renew", "retry"} => object[Worker] # None
  /\ \A h \in Hooks : pc[h] \in {"dedupe", "succeeded"} => event[h] # 0

TypeInv == TypeOK /\ InHand

\* The groups above make up the type invariant.
LEMMA TypeGroups ==
  ASSUME now' \in Nat, run_day' \in Int, pc' \in [Txns -> Place],
         RowsOK', OrmOK', LedgerOK', InHand'
  PROVE  TypeInv'
  BY DEF TypeInv, TypeOK, RowsOK, OrmOK, LedgerOK

\* None is neither a row nor a transaction.
LEMMA NoneIsNone == None \notin Row /\ None \notin Txns
  BY SubscriptionsAssumption DEF SubscriptionsAssumption

\* Assigning to the attributes of an object keeps the session well typed.
LEMMA AssignOrm ==
  ASSUME OrmOK, NEW t \in Txns, NEW old, NEW row \in Row,
         NEW always \in SUBSET Columns, Assign(t, old, row, always)
  PROVE  /\ OrmOK'
         /\ object'[t] = row
         /\ \A u \in Txns \ {t} : object'[u] = object[u]
<1>1. dirty' \in [Txns -> SUBSET Columns]
  BY DEF OrmOK, Assign
<1>2. /\ object' \in [Txns -> Row \cup {None}] /\ object'[t] = row
      /\ \A u \in Txns \ {t} : object'[u] = object[u]
  BY DEF OrmOK, Assign
<1>3. ASSUME NEW u \in Txns, dirty'[u] # {}
      PROVE  object'[u] # None
  BY <1>3, NoneIsNone DEF OrmOK, Assign
<1> QED
  BY <1>1, <1>2, <1>3 DEF OrmOK

\* An UPDATE leaves rows, and a transaction or None as the holder.
LEMMA UpdateRows ==
  ASSUME TypeOK, NEW t \in Txns, Update(t)
  PROVE  work' \in Row /\ lock' \in Txns \cup {None}
  BY FlushedRow DEF Update, TypeOK

\* Asking for a payment keeps the ledger a sequence of payments that the
\* places known so far are in.
LEMMA AskLedger ==
  ASSUME ledger \in Seq(Charge), NEW kind \in Kind, NEW key \in Kind \X Int,
         NEW plan \in PlanType, NEW aim \in Int, Ask(kind, key, plan, aim)
  PROVE  ledger' \in Seq(Charge) /\ DOMAIN ledger \subseteq DOMAIN ledger'
<1> DEFINE charge == [kind |-> kind, key |-> key, plan |-> plan,
                      status |-> "pending", aim |-> aim]
<1>1. charge \in Charge
  BY DEF Charge
<1> HIDE DEF charge
<1>2. CASE ledger' = ledger
  BY <1>2
<1>3. CASE ledger' = Append(ledger, charge)
  BY <1>1, <1>3
<1> QED
  BY <1>2, <1>3 DEF Ask, charge

\* A ledger that grows keeps what refers to it well typed.
LEMMA LedgerGrows ==
  ASSUME LedgerOK, ledger' \in Seq(Charge), DOMAIN ledger \subseteq DOMAIN ledger',
         UNCHANGED <<payments, inserted, event>>
  PROVE  LedgerOK'
  BY DEF LedgerOK

\* A transaction that closes leaves everything well typed.
LEMMA CloseTypes ==
  ASSUME TypeInv, NEW t \in Txns, Close(t), work' \in Row, sub' \in Row,
         payments' \subseteq DOMAIN ledger
  PROVE  TypeInv'
<1> USE DEF TypeInv
<1>1. pc' \in [Txns -> Place] /\ pc'[t] = "idle"
      /\ \A u \in Txns \ {t} : pc'[u] = pc[u]
  BY DEF Close, GoTo, TypeOK, Place
<1>2. OrmOK'
  BY DEF Close, TypeOK, OrmOK
<1>3. RowsOK'
  BY DEF Close, TypeOK, RowsOK
<1>4. /\ event' \in [Hooks -> {0} \cup DOMAIN ledger]
      /\ inserted' \in [Hooks -> {0} \cup DOMAIN ledger]
      /\ \A h \in Hooks \ {t} : event'[h] = event[h]
  BY DEF Close, TypeOK
<1>5. LedgerOK'
  BY <1>4 DEF Close, TypeOK, LedgerOK
<1>6. InHand'
  BY <1>1, <1>4 DEF InHand, Close, TypeOK, Txns
<1> QED
  BY <1>1, <1>2, <1>3, <1>5, <1>6, TypeGroups DEF Close, TypeOK

\* A transaction that goes on, with what its next place needs in hand.
LEMMA GoToTypes ==
  ASSUME TypeInv, NEW t \in Txns, NEW place \in Place, GoTo(t, place),
         OrmOK',
         \A u \in Txns \ {t} : object'[u] = object[u],
         \A h \in Hooks \ {t} : event'[h] = event[h],
         t = Worker /\ place \in {"renew", "retry"} => object'[t] # None,
         t \in Hooks /\ place \in {"dedupe", "succeeded"} => event'[t] # 0
  PROVE  pc' \in [Txns -> Place] /\ InHand'
<1>1. pc' \in [Txns -> Place] /\ pc' = [pc EXCEPT ![t] = place]
  BY DEF GoTo, TypeInv, TypeOK
<1>2. pc'[Worker] \in {"renew", "retry"} => object'[Worker] # None
  BY <1>1 DEF InHand, TypeInv, TypeOK, Txns
<1>3. ASSUME NEW h \in Hooks, pc'[h] \in {"dedupe", "succeeded"}
      PROVE  event'[h] # 0
  BY <1>1, <1>3 DEF InHand, TypeInv, TypeOK, Txns
<1> QED
  BY <1>1, <1>2, <1>3 DEF InHand

\* A step that leaves the session, the places and the deliveries alone.
LEMMA Untouched ==
  ASSUME TypeInv, UNCHANGED <<pc, object, dirty, event>>
  PROVE  pc' \in [Txns -> Place] /\ InHand' /\ OrmOK'
  BY DEF TypeInv, TypeOK, InHand, OrmOK

\* A SELECT of the worker.
LEMMA SelectTypes ==
  ASSUME TypeInv, NEW from, NEW matches \in BOOLEAN,
         NEW found \in Place, NEW otherwise \in Place,
         otherwise \notin {"renew", "retry"},
         Select(from, matches, found, otherwise)
  PROVE  TypeInv'
<1> USE DEF Select
<1>a. TypeOK /\ Worker \in Txns
  BY DEF TypeInv, Txns
<1>1. RowsOK'
  BY <1>a, UpdateRows DEF TypeOK, RowsOK
<1>2. Loaded(Worker) \in Row
  BY <1>a, FlushedRow
<1>3. object' = [object EXCEPT ![Worker] = object'[Worker]]
      /\ object'[Worker] \in Row \cup {None}
      /\ (matches => object'[Worker] # None)
      /\ (~matches => object' = object)
  BY <1>a, <1>2, NoneIsNone DEF TypeOK
<1>4. dirty' \in [Txns -> SUBSET Columns] /\ dirty' = [dirty EXCEPT ![Worker] = {}]
  BY <1>a DEF TypeOK
<1>5. OrmOK'
  <2>1. object' \in [Txns -> Row \cup {None}]
    BY <1>a, <1>3 DEF TypeOK
  <2>2. ASSUME NEW u \in Txns, dirty'[u] # {}
        PROVE  object'[u] # None
    BY <1>a, <1>3, <1>4, <2>2 DEF TypeOK
  <2> QED
    BY <1>4, <2>1, <2>2 DEF OrmOK
<1>6. LedgerOK'
  BY <1>a DEF TypeOK, LedgerOK
<1>7. Worker \notin Hooks
  BY SubscriptionsAssumption DEF SubscriptionsAssumption
<1>8. pc' \in [Txns -> Place] /\ InHand'
  <2> DEFINE place == IF matches THEN found ELSE otherwise
  <2>1. place \in Place /\ GoTo(Worker, place)
    OBVIOUS
  <2>2. place \in {"renew", "retry"} => object'[Worker] # None
    BY <1>3
  <2>3. \A u \in Txns \ {Worker} : object'[u] = object[u]
    BY <1>3, <1>a DEF TypeOK
  <2>4. event' = event
    OBVIOUS
  <2> HIDE DEF place, Select
  <2> QED
    BY <1>a, <1>5, <1>7, <2>1, <2>2, <2>3, <2>4, GoToTypes
<1>9. now' \in Nat /\ run_day' \in Int
  BY <1>a DEF TypeOK
<1> HIDE DEF Select
<1> QED
  BY <1>1, <1>5, <1>6, <1>8, <1>9, TypeGroups

\* Every variable begins with its type.
LEMMA TypeInit == Init => TypeInv
<1> SUFFICES ASSUME Init PROVE TypeInv
  OBVIOUS
<1>1. sub \in Row
  BY SubscriptionsAssumption DEF SubscriptionsAssumption, Init
<1> QED
  BY <1>1 DEF Init, TypeInv, TypeOK, InHand, Place, Charge, Txns

\* No step takes a variable out of its type, or out of hand.
LEMMA TypeStep == TypeInv /\ [Next]_vars => TypeInv'
<1> SUFFICES ASSUME TypeInv, [Next]_vars
             PROVE  TypeInv'
  OBVIOUS
<1>a. /\ TypeOK /\ InHand /\ RowsOK /\ OrmOK /\ LedgerOK
      /\ now \in Nat /\ run_day \in Int /\ pc \in [Txns -> Place]
  BY DEF TypeInv, TypeOK, RowsOK, OrmOK, LedgerOK
<1>b. /\ Worker \in Txns /\ Worker \notin Hooks /\ Worker \notin Cancels
      /\ Cancels \subseteq Txns /\ Hooks \subseteq Txns
      /\ Cancels \cap Hooks = {}
  BY SubscriptionsAssumption DEF SubscriptionsAssumption, Txns
<1>c. /\ {"idle", "due", "renew", "past_due", "retry", "expired", "load",
          "dedupe", "succeeded", "canceled", "flush", "commit"} = Place
      /\ {"checkout", "renew", "retry"} = Kind
      /\ "free" \in PlanType /\ Offers \subseteq PlanType
      /\ {"active", "past_due", "cancelled"} \subseteq SubscriptionStatus
      /\ NoEnd \in Int
  BY SubscriptionsAssumption
  DEF Place, Kind, PlanType, SubscriptionStatus, NoEnd,
      SubscriptionsAssumption, Renewable
<1>1. CASE Tick
  <2>1. pc' \in [Txns -> Place] /\ InHand' /\ OrmOK'
    BY <1>1, Untouched DEF Tick, orm
  <2>2. RowsOK' /\ LedgerOK'
    BY <1>1, <1>a DEF Tick, table, RowsOK, LedgerOK
  <2> QED
    BY <1>1, <1>a, <2>1, <2>2, TypeGroups DEF Tick
<1>2. CASE YooKassa
  <2>1. /\ UNCHANGED <<now, table, pc, orm, run_day, event>>
        /\ ledger' \in Seq(Charge) /\ DOMAIN ledger \subseteq DOMAIN ledger'
    <3>1. ASSUME NEW plan \in Offers, Checkout(plan)
          PROVE  <2>1!:
      <4>1. ledger \in Seq(Charge) /\ Len(ledger) \in Int
        BY <1>a DEF LedgerOK
      <4>2. <<"checkout", Len(ledger)>> \in Kind \X Int
        BY <4>1, <1>c
      <4>3. Ask("checkout", <<"checkout", Len(ledger)>>, plan, NoEnd)
        BY <3>1 DEF Checkout
      <4> QED
        BY <3>1, <1>c, <4>1, <4>2, <4>3, AskLedger DEF Checkout
    <3>2. ASSUME NEW i \in DOMAIN ledger, NEW status \in {"succeeded", "canceled"},
                 Settle(i, status)
          PROVE  <2>1!:
      <4>1. ledger \in Seq(Charge) /\ ledger[i] \in Charge
        BY <1>a DEF LedgerOK
      <4>2. [ledger[i] EXCEPT !.status = status] \in Charge
        BY <4>1 DEF Charge
      <4> QED
        BY <3>2, <4>1, <4>2 DEF Settle
    <3> QED
      BY <1>2, <3>1, <3>2 DEF YooKassa
  <2>2. pc' \in [Txns -> Place] /\ InHand' /\ OrmOK'
    BY <2>1, Untouched DEF orm
  <2>3. RowsOK' /\ LedgerOK'
    BY <1>a, <2>1, LedgerGrows DEF table, RowsOK
  <2> QED
    BY <1>a, <2>1, <2>2, <2>3, TypeGroups
<1>3. CASE BeginRun
  <2>1. RowsOK' /\ OrmOK' /\ LedgerOK'
    BY <1>3, <1>a DEF BeginRun, table, orm, RowsOK, OrmOK, LedgerOK
  <2>2. pc' \in [Txns -> Place] /\ InHand'
    BY <1>3, <1>b, <1>c, <2>1, GoToTypes DEF BeginRun, orm
  <2> QED
    BY <1>3, <1>a, <2>1, <2>2, TypeGroups DEF BeginRun
<1>4. CASE SelectDue
  BY <1>4, <1>c, SelectTypes DEF SelectDue, Due
<1>5. CASE SelectPastDue
  BY <1>5, <1>c, SelectTypes DEF SelectPastDue, InGrace
<1>6. CASE Renew
  <2> DEFINE row == object[Worker]
  <2>1. row \in Row
    BY <1>6, <1>a, <1>b DEF Renew, InHand, OrmOK
  <2>2. row.plan \in PlanType /\ row.period_end \in Int
    BY <2>1 DEF Row
  <2>3. RenewKey \in Kind \X Int
    BY <2>2, <1>c DEF RenewKey
  <2>4. ledger' \in Seq(Charge) /\ DOMAIN ledger \subseteq DOMAIN ledger'
    BY <1>6, <1>a, <1>c, <2>2, <2>3, AskLedger DEF Renew, LedgerOK
  <2>5. [row EXCEPT !.status = "past_due"] \in Row
    BY <2>1, <1>c DEF Row
  <2>6. OrmOK' /\ \A u \in Txns \ {Worker} : object'[u] = object[u]
    <3>1. CASE Assign(Worker, row, [row EXCEPT !.status = "past_due"], {})
      BY <3>1, <1>a, <1>b, <2>5, AssignOrm DEF Assign, OrmOK
    <3>2. CASE UNCHANGED orm
      BY <3>2, <1>a DEF orm, OrmOK
    <3> QED
      BY <1>6, <3>1, <3>2 DEF Renew
  <2>7. RowsOK' /\ LedgerOK'
    BY <1>6, <1>a, <2>4, LedgerGrows DEF Renew, table, RowsOK
  <2>8. pc' \in [Txns -> Place] /\ InHand'
    BY <1>6, <1>b, <1>c, <2>6, GoToTypes DEF Renew
  <2> QED
    BY <1>6, <1>a, <2>6, <2>7, <2>8, TypeGroups DEF Renew
<1>7. CASE Retry
  <2> DEFINE row == object[Worker]
  <2>1. row.plan \in PlanType
    BY <1>7, <1>a, <1>b DEF Retry, InHand, OrmOK, Row
  <2>2. <<"retry", run_day>> \in Kind \X Int
    BY <1>a, <1>c
  <2>3. ledger' \in Seq(Charge) /\ DOMAIN ledger \subseteq DOMAIN ledger'
    BY <1>7, <1>a, <1>c, <2>1, <2>2, AskLedger DEF Retry, LedgerOK
  <2>4. RowsOK' /\ LedgerOK' /\ OrmOK'
    BY <1>7, <1>a, <2>3, LedgerGrows DEF Retry, table, orm, RowsOK, OrmOK
  <2>5. pc' \in [Txns -> Place] /\ InHand'
    BY <1>7, <1>b, <1>c, <2>4, GoToTypes DEF Retry, orm
  <2> QED
    BY <1>7, <1>a, <2>4, <2>5, TypeGroups DEF Retry
<1>8. CASE SelectExpired
  <2>1. Loaded(Worker) \in Row /\ Downgraded(Loaded(Worker)) \in Row
    BY <1>a, <1>b, <1>c, FlushedRow DEF Downgraded, Row
  <2>2. OrmOK' /\ \A u \in Txns \ {Worker} : object'[u] = object[u]
    <3>1. CASE Expired(Visible(Worker))
      <4>1. Assign(Worker, Loaded(Worker), Downgraded(Loaded(Worker)), {})
        BY <1>8, <3>1 DEF SelectExpired
      <4> QED
        BY <4>1, <1>a, <1>b, <2>1, AssignOrm DEF Assign, OrmOK
    <3>2. CASE ~Expired(Visible(Worker))
      BY <1>8, <3>2, <1>a DEF SelectExpired, orm, OrmOK
    <3> QED
      BY <3>1, <3>2
  <2>3. RowsOK' /\ LedgerOK'
    BY <1>8, <1>a DEF SelectExpired, table, RowsOK, LedgerOK
  <2>4. pc' \in [Txns -> Place] /\ InHand'
    BY <1>8, <1>b, <1>c, <2>2, GoToTypes DEF SelectExpired
  <2> QED
    BY <1>8, <1>a, <2>2, <2>3, <2>4, TypeGroups DEF SelectExpired
<1>9. ASSUME NEW t \in Txns, Flush(t)
      PROVE  TypeInv'
  <2>1. RowsOK'
    BY <1>9, <1>a, UpdateRows DEF Flush, RowsOK
  <2>2. OrmOK'
    BY <1>9, <1>a DEF Flush, OrmOK
  <2>3. inserted' \in [Hooks -> {0} \cup DOMAIN ledger]
    BY <1>9, <1>a DEF Flush, Insert, LedgerOK
  <2>4. LedgerOK'
    BY <1>9, <1>a, <2>3 DEF Flush, LedgerOK
  <2>5. pc' \in [Txns -> Place] /\ InHand'
    BY <1>9, <1>c, <2>2, GoToTypes DEF Flush
  <2> QED
    BY <1>9, <1>a, <2>1, <2>2, <2>4, <2>5, TypeGroups DEF Flush
<1>10. ASSUME NEW c \in Cancels, BeginCancel(c)
       PROVE  TypeInv'
  <2>1. RowsOK' /\ OrmOK' /\ LedgerOK'
    BY <1>10, <1>a DEF BeginCancel, table, orm, RowsOK, OrmOK, LedgerOK
  <2>2. pc' \in [Txns -> Place] /\ InHand'
    BY <1>10, <1>b, <1>c, <2>1, GoToTypes DEF BeginCancel, orm
  <2> QED
    BY <1>10, <1>a, <2>1, <2>2, TypeGroups DEF BeginCancel
<1>11. ASSUME NEW c \in Cancels, CancelSubscription(c)
       PROVE  TypeInv'
  <2>1. [sub EXCEPT !.status = "cancelled", !.cancelled = TRUE] \in Row
    BY <1>a, <1>c DEF RowsOK, Row
  <2>2. OrmOK' /\ \A u \in Txns \ {c} : object'[u] = object[u]
    <3> DEFINE row == [sub EXCEPT !.status = "cancelled", !.cancelled = TRUE]
    <3>1. Assign(c, sub, row, {"cancelled"})
      BY <1>11 DEF CancelSubscription
    <3>2. {"cancelled"} \in SUBSET Columns /\ c \in Txns /\ row \in Row
      BY <1>b, <2>1 DEF Columns
    <3> HIDE DEF row
    <3> QED
      BY <1>a, <3>1, <3>2, AssignOrm
  <2>3. RowsOK' /\ LedgerOK'
    BY <1>11, <1>a DEF CancelSubscription, table, RowsOK, LedgerOK
  <2>4. pc' \in [Txns -> Place] /\ InHand'
    BY <1>11, <1>b, <1>c, <2>2, GoToTypes DEF CancelSubscription
  <2> QED
    BY <1>11, <1>a, <2>2, <2>3, <2>4, TypeGroups DEF CancelSubscription
<1>12. ASSUME NEW t \in Txns, Rollback(t)
       PROVE  TypeInv'
  BY <1>12, <1>a, CloseTypes DEF Rollback, RowsOK, LedgerOK
<1>13. ASSUME NEW t \in Txns, Commit(t)
       PROVE  TypeInv'
  BY <1>13, <1>a, FlushedRow, CloseTypes DEF Commit, RowsOK, LedgerOK
<1>14. ASSUME NEW h \in Hooks, NEW i \in DOMAIN ledger, Deliver(h, i)
       PROVE  TypeInv'
  <2>1. RowsOK' /\ OrmOK'
    BY <1>14, <1>a DEF Deliver, table, orm, RowsOK, OrmOK
  <2>2. event' = [event EXCEPT ![h] = i] /\ i # 0
    BY <1>14, <1>a DEF Deliver, LedgerOK
  <2>3. LedgerOK'
    BY <1>14, <1>a, <2>2 DEF Deliver, table, LedgerOK
  <2>4. pc' \in [Txns -> Place] /\ InHand'
    <3>1. /\ event'[h] # 0
          /\ \A g \in Hooks \ {h} : event'[g] = event[g]
          /\ object' = object
      BY <1>14, <1>a, <2>2 DEF Deliver, orm, LedgerOK
    <3> QED
      BY <1>14, <1>b, <1>c, <2>1, <3>1, GoToTypes DEF Deliver
  <2> QED
    BY <1>14, <1>a, <2>1, <2>3, <2>4, TypeGroups DEF Deliver
<1>15. ASSUME NEW h \in Hooks, Accept(h)
       PROVE  TypeInv'
  <2>1. RowsOK' /\ OrmOK' /\ LedgerOK'
    BY <1>15, <1>a DEF Accept, table, orm, RowsOK, OrmOK, LedgerOK
  <2>2. event'[h] # 0
    BY <1>15, <1>a DEF Accept, InHand
  <2>3. pc' \in [Txns -> Place] /\ InHand'
    BY <1>15, <1>b, <1>c, <2>1, <2>2, GoToTypes DEF Accept, orm
  <2> QED
    BY <1>15, <1>a, <2>1, <2>3, TypeGroups DEF Accept
<1>16. ASSUME NEW h \in Hooks, ActivatePlan(h)
       PROVE  TypeInv'
  <2>1. PICK saved \in BOOLEAN, other \in SUBSET {"method"} :
          Assign(h, sub, [sub EXCEPT !.plan = ledger[event[h]].plan,
                                     !.status = "active",
                                     !.period_end = now + BILLING_PERIOD_DAYS,
                                     !.method = @ \/ saved],
                 {"period_end"} \cup other)
    BY <1>16 DEF ActivatePlan
  <2>2. ledger[event[h]] \in Charge
    BY <1>16, <1>a DEF ActivatePlan, InHand, LedgerOK
  <2>3. ledger[event[h]].plan \in PlanType /\ now + BILLING_PERIOD_DAYS \in Int
    BY <1>a, <2>2, PlansAssumption DEF Charge, PlansAssumption
  <2>4. (sub.method \/ saved) \in BOOLEAN
    OBVIOUS
  <2>5. [sub EXCEPT !.plan = ledger[event[h]].plan, !.status = "active",
                    !.period_end = now + BILLING_PERIOD_DAYS,
                    !.method = @ \/ saved] \in Row
    BY <1>a, <1>c, <2>3, <2>4 DEF RowsOK, Row
  <2>6. OrmOK' /\ \A u \in Txns \ {h} : object'[u] = object[u]
    <3> DEFINE row == [sub EXCEPT !.plan = ledger[event[h]].plan,
                                  !.status = "active",
                                  !.period_end = now + BILLING_PERIOD_DAYS,
                                  !.method = @ \/ saved]
    <3>1. Assign(h, sub, row, {"period_end"} \cup other)
      BY <2>1
    <3>2. {"period_end"} \cup other \in SUBSET Columns /\ h \in Txns /\ row \in Row
      BY <1>b, <2>5 DEF Columns
    <3> HIDE DEF row
    <3> QED
      BY <1>a, <3>1, <3>2, AssignOrm
  <2>7. RowsOK' /\ LedgerOK'
    BY <1>16, <1>a DEF ActivatePlan, table, RowsOK, LedgerOK
  <2>8. pc' \in [Txns -> Place] /\ InHand'
    BY <1>16, <1>b, <1>c, <2>6, GoToTypes DEF ActivatePlan
  <2> QED
    BY <1>16, <1>a, <2>6, <2>7, <2>8, TypeGroups DEF ActivatePlan
<1>17. ASSUME NEW h \in Hooks, MarkPastDue(h)
       PROVE  TypeInv'
  <2>1. [sub EXCEPT !.status = "past_due"] \in Row
    BY <1>a, <1>c DEF RowsOK, Row
  <2>2. OrmOK' /\ \A u \in Txns \ {h} : object'[u] = object[u]
    <3>1. CASE Assign(h, sub, [sub EXCEPT !.status = "past_due"], {})
      <4> DEFINE row == [sub EXCEPT !.status = "past_due"]
      <4>1. row \in Row /\ h \in Txns /\ Assign(h, sub, row, {})
        BY <1>b, <2>1, <3>1
      <4> HIDE DEF row
      <4> QED
        BY <1>a, <4>1, AssignOrm
    <3>2. CASE UNCHANGED orm
      BY <3>2, <1>a DEF orm, OrmOK
    <3> QED
      BY <1>17, <3>1, <3>2 DEF MarkPastDue
  <2>3. RowsOK' /\ LedgerOK'
    BY <1>17, <1>a DEF MarkPastDue, table, RowsOK, LedgerOK
  <2>4. pc' \in [Txns -> Place] /\ InHand'
    BY <1>17, <1>b, <1>c, <2>2, GoToTypes DEF MarkPastDue
  <2> QED
    BY <1>17, <1>a, <2>2, <2>3, <2>4, TypeGroups DEF MarkPastDue
<1>18. CASE UNCHANGED vars
  BY <1>18 DEF vars, table, orm, TypeInv, TypeOK, InHand
<1>19. ASSUME NEW h \in Hooks, HookStep(h)
       PROVE  TypeInv'
  BY <1>19, <1>b, <1>12, <1>15, <1>16, <1>17
  DEF HookStep, Skip, DuplicateKey
<1>20. ASSUME NEW c \in Cancels, CancelStep(c)
       PROVE  TypeInv'
  BY <1>20, <1>b, <1>11, <1>12 DEF CancelStep, RefuseCancel
<1>21. CASE WorkerStep
  BY <1>21, <1>4, <1>5, <1>6, <1>7, <1>8 DEF WorkerStep
<1> QED
  BY <1>1, <1>2, <1>3, <1>9, <1>10, <1>12, <1>13, <1>14, <1>18, <1>19, <1>20,
     <1>21
  DEF Next, Fail

\* Every variable keeps its type, whatever the interleaving of the worker,
\* the cancellations and the deliveries.
THEOREM TypeCorrect == Spec => []TypeOK
<1>1. TypeInv => TypeOK
  BY DEF TypeInv
<1> QED
  BY <1>1, TypeInit, TypeStep, PTL DEF Spec

-----------------------------------------------------------------------------
(* One renewal per period.                                                 *)

\* YooKassa's keys tell its payments apart, and a renewal's key names the
\* end of the period it renews.
KeysInv ==
  /\ \A i, j \in DOMAIN ledger : ledger[i].key = ledger[j].key => i = j
  /\ \A i \in DOMAIN ledger :
       ledger[i].kind = "renew" => ledger[i].key = <<"renew", ledger[i].aim>>

\* Asking for a payment keeps the keys apart.
LEMMA AskKeys ==
  ASSUME ledger \in Seq(Charge), KeysInv, NEW kind, NEW key, NEW plan, NEW aim,
         Ask(kind, key, plan, aim), kind = "renew" => key = <<"renew", aim>>
  PROVE  KeysInv'
<1> DEFINE charge == [kind |-> kind, key |-> key, plan |-> plan,
                      status |-> "pending", aim |-> aim]
<1>1. /\ charge.key = key /\ charge.kind = kind /\ charge.aim = aim
  OBVIOUS
<1> HIDE DEF charge
<1>2. CASE ledger' = ledger
  BY <1>2 DEF KeysInv
<1>3. CASE ledger' = Append(ledger, charge) /\ \A i \in DOMAIN ledger : ledger[i].key # key
  <2>1. /\ DOMAIN ledger = 1..Len(ledger) /\ Len(ledger) \in Nat
        /\ DOMAIN ledger' = 1..(Len(ledger) + 1)
        /\ ledger'[Len(ledger) + 1] = charge
        /\ \A i \in DOMAIN ledger : ledger'[i] = ledger[i]
        /\ \A i \in DOMAIN ledger' : i \in DOMAIN ledger \/ i = Len(ledger) + 1
    BY <1>3
  <2>2. ASSUME NEW i \in DOMAIN ledger', NEW j \in DOMAIN ledger',
               ledger'[i].key = ledger'[j].key
        PROVE  i = j
    BY <1>1, <1>3, <2>1, <2>2, Zenon DEF KeysInv
  <2>3. ASSUME NEW i \in DOMAIN ledger', ledger'[i].kind = "renew"
        PROVE  ledger'[i].key = <<"renew", ledger'[i].aim>>
    BY <1>1, <2>1, <2>3, Zenon DEF KeysInv
  <2> QED
    BY <2>2, <2>3 DEF KeysInv
<1> QED
  BY <1>2, <1>3 DEF Ask, charge

\* No step makes two payments under one key.
LEMMA KeysStep == TypeInv /\ KeysInv /\ [Next]_vars => KeysInv'
<1> SUFFICES ASSUME TypeInv, KeysInv, [Next]_vars
             PROVE  KeysInv'
  OBVIOUS
<1>a. ledger \in Seq(Charge)
  BY DEF TypeInv, TypeOK
<1>1. ASSUME ledger' = ledger
      PROVE  KeysInv'
  BY <1>1 DEF KeysInv
<1>2. CASE YooKassa
  <2>1. ASSUME NEW plan \in Offers, Checkout(plan)
        PROVE  KeysInv'
    BY <2>1, <1>a, AskKeys DEF Checkout
  <2>2. ASSUME NEW i \in DOMAIN ledger, NEW status, Settle(i, status)
        PROVE  KeysInv'
    <3>1. /\ DOMAIN ledger' = DOMAIN ledger
          /\ \A j \in DOMAIN ledger : /\ ledger'[j].key = ledger[j].key
                                      /\ ledger'[j].kind = ledger[j].kind
                                      /\ ledger'[j].aim = ledger[j].aim
      BY <2>2, <1>a DEF Settle, Charge
    <3> QED
      BY <3>1 DEF KeysInv
  <2> QED
    BY <1>2, <2>1, <2>2 DEF YooKassa
<1>3. CASE Renew
  BY <1>1, <1>3, <1>a, AskKeys DEF Renew, RenewKey
<1>4. CASE Retry
  BY <1>1, <1>4, <1>a, AskKeys DEF Retry
<1> QED
  BY <1>1, <1>2, <1>3, <1>4
  DEF Next, vars, Tick, BeginRun, WorkerStep, SelectDue, SelectPastDue, Select,
      SelectExpired, BeginCancel, CancelStep, CancelSubscription, RefuseCancel,
      HookStep, Deliver, Skip, Accept, ActivatePlan, DuplicateKey, MarkPastDue,
      Flush, Commit, Fail, Rollback, Close

\* However many runs, failures, retries and deliveries there are, a period is
\* renewed by one payment at most (worker.py:260).
THEOREM OneRenewal == Spec => []OneRenewalPerPeriod
<1>1. Init => KeysInv
  BY DEF Init, KeysInv
<1>2. KeysInv => OneRenewalPerPeriod
  BY DEF KeysInv, OneRenewalPerPeriod
<1> QED
  BY <1>1, <1>2, TypeInit, TypeStep, KeysStep, PTL DEF Spec

-----------------------------------------------------------------------------
(* A paid plan has an end.                                                 *)

Ends(row) == row.plan \in Renewable => row.period_end # NoEnd

\* What t will write over a row that Ends leaves one that Ends: it writes
\* neither plan nor period_end, or an end, or the free plan.
Harmless(t) ==
  \/ "plan" \notin dirty[t] /\ "period_end" \notin dirty[t]
  \/ "period_end" \in dirty[t] /\ object[t].period_end # NoEnd
  \/ "plan" \in dirty[t] /\ object[t].plan = "free"

\* What the worker has in hand in a run, until it downgrades it, is a
\* subscription that it found with a plan to renew; so a downgrade that
\* removes the end writes the free plan too.
WorkerInv ==
  /\ pc[Worker] \in {"idle", "due"} => object[Worker] = None /\ dirty[Worker] = {}
  /\ pc[Worker] \in {"renew", "past_due", "retry", "expired"} /\ object[Worker] # None
       => object[Worker].plan \in Renewable

EndInv ==
  /\ Ends(sub) /\ Ends(work)
  /\ \A t \in Txns : Harmless(t)
  /\ WorkerInv

\* An UPDATE that is harmless leaves a row that Ends.
LEMMA FlushedEnds ==
  ASSUME TypeOK, NEW t \in Txns, Ends(Visible(t)), Harmless(t)
  PROVE  Ends(Flushed(t))
<1>1. Flushed(t).plan = IF "plan" \in dirty[t] THEN object[t].plan
                                               ELSE Visible(t).plan
  BY DEF Flushed
<1>2. Flushed(t).period_end = IF "period_end" \in dirty[t] THEN object[t].period_end
                                                           ELSE Visible(t).period_end
  BY DEF Flushed
<1>3. "free" \notin Renewable
  BY DEF Renewable
<1> QED
  BY <1>1, <1>2, <1>3, Zenon DEF Harmless, Ends

\* An UPDATE leaves a row that Ends.
LEMMA UpdateEnds ==
  ASSUME TypeOK, EndInv, NEW t \in Txns, Update(t)
  PROVE  Ends(work)'
<1>1. Ends(Visible(t)) /\ Harmless(t)
  BY DEF EndInv, Visible
<1>2. Ends(Flushed(t))
  BY <1>1, FlushedEnds
<1>3. work' = work \/ work' = Flushed(t)
  BY DEF Update
<1> QED
  BY <1>2, <1>3 DEF EndInv, Ends

\* A transaction that closes keeps the invariant.
LEMMA CloseEnds ==
  ASSUME TypeOK, EndInv, NEW t \in Txns, Close(t), Ends(sub)', Ends(work)'
  PROVE  EndInv'
<1>1. ASSUME NEW u \in Txns PROVE Harmless(u)'
  BY DEF Close, EndInv, Harmless, TypeOK
<1>2. WorkerInv'
  <2>1. CASE t = Worker
    BY <2>1 DEF Close, GoTo, EndInv, WorkerInv, TypeOK
  <2>2. CASE t # Worker
    BY <2>2 DEF Close, GoTo, EndInv, WorkerInv, TypeOK, Txns
  <2> QED
    BY <2>1, <2>2
<1> QED
  BY <1>1, <1>2 DEF EndInv

\* A step that leaves the rows and the sessions alone.
LEMMA EndsUntouched ==
  ASSUME EndInv, UNCHANGED <<sub, work, object, dirty>>, WorkerInv'
  PROVE  EndInv'
  BY DEF EndInv, Ends, Harmless

\* An assignment of another transaction than the worker.
LEMMA AssignEnds ==
  ASSUME TypeOK, EndInv, NEW t \in Txns \ {Worker}, NEW old, NEW row,
         NEW always, NEW place, Assign(t, old, row, always), GoTo(t, place),
         UNCHANGED <<sub, work>>,
         Harmless(t)'
  PROVE  EndInv'
<1>1. ASSUME NEW u \in Txns \ {t} PROVE Harmless(u)'
  BY DEF Assign, EndInv, Harmless, TypeOK
<1>2. WorkerInv'
  BY DEF Assign, GoTo, EndInv, WorkerInv, TypeOK, Txns
<1>3. Ends(sub)' /\ Ends(work)'
  BY DEF EndInv, Ends
<1> QED
  BY <1>1, <1>2, <1>3 DEF EndInv

\* A SELECT of the worker: what it finds has a plan to renew.
LEMMA SelectEnds ==
  ASSUME TypeInv, EndInv, NEW from \in {"due", "past_due"}, NEW matches \in BOOLEAN,
         NEW found \in {"renew", "retry"}, NEW otherwise \in {"past_due", "expired"},
         Select(from, matches, found, otherwise),
         matches => Flushed(Worker).plan \in Renewable
  PROVE  EndInv'
<1>a. Worker \in Txns /\ TypeOK
  BY DEF Txns, TypeInv
<1>1. Ends(sub)' /\ Ends(work)'
  BY <1>a, UpdateEnds DEF Select, EndInv, Ends
<1>2. ASSUME NEW u \in Txns PROVE Harmless(u)'
  BY <1>a DEF Select, EndInv, Harmless, TypeOK
<1>3. matches => Loaded(Worker).plan \in Renewable
  <2>1. CASE object[Worker] = None
    <3>1. dirty[Worker] = {}
      BY <1>a, <2>1 DEF TypeOK
    <3>2. Flushed(Worker).plan = Visible(Worker).plan
      BY <3>1 DEF Flushed
    <3> QED
      BY <2>1, <3>2 DEF Loaded
  <2>2. CASE object[Worker] # None
    <3>1. from = "past_due"
      BY <2>2 DEF Select, EndInv, WorkerInv
    <3> QED
      BY <2>2, <3>1 DEF Select, EndInv, WorkerInv, Loaded
  <2> QED
    BY <2>1, <2>2
<1>4. WorkerInv'
  <2>1. pc'[Worker] \in {"renew", "retry", "past_due", "expired"}
    BY <1>a DEF Select, GoTo, TypeOK
  <2>2. CASE matches
    BY <1>3, <2>1, <2>2, <1>a DEF Select, WorkerInv, TypeOK
  <2>3. CASE ~matches
    BY <2>1, <2>3 DEF Select, EndInv, WorkerInv
  <2> QED
    BY <2>2, <2>3
<1> QED
  BY <1>1, <1>2, <1>4 DEF EndInv

\* No step leaves a row without its end, or will.
LEMMA EndStep == TypeInv /\ EndInv /\ [Next]_vars => EndInv'
<1> SUFFICES ASSUME TypeInv, EndInv, [Next]_vars
             PROVE  EndInv'
  OBVIOUS
<1>a. TypeOK
  BY DEF TypeInv
<1>b. /\ Worker \in Txns /\ Cancels \subseteq Txns \ {Worker}
      /\ Hooks \subseteq Txns \ {Worker}
  BY SubscriptionsAssumption DEF SubscriptionsAssumption, Txns
<1>1. ASSUME UNCHANGED <<sub, work, pc, object, dirty>>
      PROVE  EndInv'
  BY <1>1, EndsUntouched DEF EndInv, WorkerInv
<1>2. CASE Tick \/ YooKassa \/ UNCHANGED vars
  BY <1>1, <1>2 DEF Tick, YooKassa, Checkout, Settle, vars, table, orm
<1>3. CASE BeginRun
  <2>1. WorkerInv'
    BY <1>3, <1>a, <1>b DEF BeginRun, GoTo, EndInv, WorkerInv, TypeOK, orm
  <2> QED
    BY <1>3, <2>1, EndsUntouched DEF BeginRun, table, orm
<1>4. CASE SelectDue
  BY <1>4, SelectEnds DEF SelectDue, Due
<1>5. CASE SelectPastDue
  BY <1>5, SelectEnds DEF SelectPastDue, InGrace
<1>6. CASE Renew
  <2> DEFINE row == [object[Worker] EXCEPT !.status = "past_due"]
  <2>1. object[Worker] \in Row /\ object[Worker].plan \in Renewable
    BY <1>6, <1>a, <1>b DEF Renew, TypeInv, TypeOK, InHand, EndInv, WorkerInv
  <2>2. CASE Assign(Worker, object[Worker], row, {})
    <3>1. \A u \in Txns \ {Worker} : Harmless(u)'
      BY <2>2, <1>a DEF Assign, EndInv, Harmless, TypeOK
    <3>2. row["plan"] = object[Worker]["plan"]
          /\ row["period_end"] = object[Worker]["period_end"]
      BY <2>1 DEF Row
    <3>3. "plan" \notin dirty'[Worker] /\ "period_end" \notin dirty'[Worker]
      BY <2>2, <3>2, <1>a, <1>b DEF Assign, TypeOK
    <3>4. object'[Worker] = row /\ row.plan \in Renewable
      BY <2>2, <2>1, <1>a, <1>b DEF Assign, TypeOK, Row
    <3>5. WorkerInv'
      BY <1>6, <3>4, <1>a, <1>b DEF Renew, GoTo, WorkerInv, TypeOK
    <3> QED
      BY <1>6, <3>1, <3>3, <3>5 DEF Renew, table, EndInv, Harmless, Ends
  <2>3. CASE UNCHANGED orm
    <3>1. WorkerInv'
      BY <1>6, <2>1, <2>3, <1>a, <1>b DEF Renew, GoTo, WorkerInv, TypeOK, orm
    <3> QED
      BY <1>6, <2>3, <3>1, EndsUntouched DEF Renew, table, orm
  <2> QED
    BY <1>6, <2>2, <2>3 DEF Renew
<1>7. CASE Retry
  <2>1. WorkerInv'
    BY <1>7, <1>a, <1>b DEF Retry, GoTo, EndInv, WorkerInv, TypeOK, orm
  <2> QED
    BY <1>7, <2>1, EndsUntouched DEF Retry, table, orm
<1>8. CASE SelectExpired
  <2> DEFINE old == Loaded(Worker)
             row == Downgraded(old)
  <2>1. pc[Worker] = "expired" /\ UNCHANGED <<sub, work>>
    BY <1>8 DEF SelectExpired, table
  <2>2. CASE Expired(Visible(Worker))
    <3>1. Assign(Worker, old, row, {}) /\ GoTo(Worker, "flush")
      BY <1>8, <2>2 DEF SelectExpired
    <3>2. old.plan \in Renewable /\ old \in Row
      <4>1. old.plan \in Renewable
        BY <2>1, <2>2 DEF Loaded, Expired, EndInv, WorkerInv
      <4> QED
        BY <4>1, <1>a, <1>b, FlushedRow
    <3>3. row.plan = "free" /\ row["plan"] # old["plan"]
      BY <3>2 DEF Downgraded, Row, Renewable
    <3> HIDE DEF row, old
    <3>4. "plan" \in dirty'[Worker] /\ object'[Worker].plan = "free"
      BY <3>1, <3>3, <1>a, <1>b DEF Assign, TypeOK, Columns
    <3>5. \A u \in Txns \ {Worker} : Harmless(u)'
      BY <3>1, <1>a DEF Assign, EndInv, Harmless, TypeOK
    <3>6. WorkerInv'
      BY <3>1, <1>a, <1>b DEF GoTo, WorkerInv, TypeOK
    <3> QED
      BY <2>1, <3>4, <3>5, <3>6 DEF EndInv, Harmless, Ends
  <2>3. CASE ~Expired(Visible(Worker))
    <3>1. GoTo(Worker, "commit") /\ UNCHANGED <<object, dirty>>
      BY <1>8, <2>3 DEF SelectExpired, orm
    <3>2. WorkerInv'
      BY <3>1, <1>a, <1>b DEF GoTo, WorkerInv, TypeOK
    <3> QED
      BY <2>1, <3>1, <3>2, EndsUntouched
  <2> QED
    BY <2>2, <2>3
<1>9. ASSUME NEW t \in Txns, Flush(t)
      PROVE  EndInv'
  <2>1. Ends(sub)' /\ Ends(work)'
    BY <1>9, <1>a, UpdateEnds DEF Flush, EndInv, Ends
  <2>2. \A u \in Txns : Harmless(u)'
    BY <1>9, <1>a DEF Flush, EndInv, Harmless, TypeOK
  <2>3. WorkerInv'
    BY <1>9, <1>a, <1>b DEF Flush, GoTo, EndInv, WorkerInv, TypeOK
  <2> QED
    BY <2>1, <2>2, <2>3 DEF EndInv
<1>10. ASSUME NEW t \in Txns, Rollback(t)
       PROVE  EndInv'
  <2>1. Ends(sub)' /\ Ends(work)'
    BY <1>10 DEF Rollback, EndInv, Ends
  <2> QED
    BY <1>10, <1>a, <2>1, CloseEnds DEF Rollback
<1>11. ASSUME NEW t \in Txns, Commit(t)
       PROVE  EndInv'
  <2>1. Ends(sub)' /\ Ends(work)'
    BY <1>11 DEF Commit, Visible, EndInv, Ends
  <2> QED
    BY <1>11, <1>a, <2>1, CloseEnds DEF Commit
<1>12. ASSUME NEW t \in Txns \ {Worker}, NEW place, GoTo(t, place),
              UNCHANGED <<sub, work, object, dirty>>
       PROVE  EndInv'
  <2>1. WorkerInv'
    BY <1>12, <1>a, <1>b DEF GoTo, EndInv, WorkerInv, TypeOK
  <2> QED
    BY <1>12, <2>1, EndsUntouched
<1>13. ASSUME NEW c \in Cancels, BeginCancel(c) \/ CancelStep(c)
       PROVE  EndInv'
  <2>1. CASE BeginCancel(c)
    BY <1>b, <1>12, <2>1 DEF BeginCancel, table, orm
  <2>2. CASE RefuseCancel(c)
    BY <1>b, <1>10, <2>2 DEF RefuseCancel
  <2>3. CASE CancelSubscription(c)
    <3> DEFINE row == [sub EXCEPT !.status = "cancelled", !.cancelled = TRUE]
    <3>1. /\ Assign(c, sub, row, {"cancelled"}) /\ GoTo(c, "flush")
          /\ UNCHANGED <<sub, work>>
      BY <2>3 DEF CancelSubscription, table
    <3>2. row["plan"] = sub["plan"] /\ row["period_end"] = sub["period_end"]
      BY <1>a DEF TypeOK, Row
    <3> HIDE DEF row
    <3>3. "plan" \notin dirty'[c] /\ "period_end" \notin dirty'[c]
      BY <3>1, <3>2, <1>a, <1>b DEF Assign, TypeOK
    <3> QED
      BY <1>a, <1>b, <3>1, <3>3, AssignEnds DEF Harmless
  <2> QED
    BY <1>13, <2>1, <2>2, <2>3 DEF CancelStep
<1>14. ASSUME NEW h \in Hooks, HookStep(h)
       PROVE  EndInv'
  <2>1. CASE Skip(h) \/ DuplicateKey(h)
    BY <1>b, <1>10, <2>1 DEF Skip, DuplicateKey
  <2>2. CASE Accept(h)
    BY <1>b, <1>12, <2>2 DEF Accept, table, orm
  <2>3. CASE ActivatePlan(h)
    <3>1. PICK saved \in BOOLEAN, other \in SUBSET {"method"} :
            Assign(h, sub, [sub EXCEPT !.plan = ledger[event[h]].plan,
                                       !.status = "active",
                                       !.period_end = now + BILLING_PERIOD_DAYS,
                                       !.method = @ \/ saved],
                   {"period_end"} \cup other)
      BY <2>3 DEF ActivatePlan
    <3> DEFINE row == [sub EXCEPT !.plan = ledger[event[h]].plan,
                                  !.status = "active",
                                  !.period_end = now + BILLING_PERIOD_DAYS,
                                  !.method = @ \/ saved]
    <3>2. /\ Assign(h, sub, row, {"period_end"} \cup other) /\ GoTo(h, "flush")
          /\ UNCHANGED <<sub, work>>
      BY <2>3, <3>1 DEF ActivatePlan, table
    <3>3. row.period_end = now + BILLING_PERIOD_DAYS
      BY <1>a DEF TypeOK, Row
    <3>4. row.period_end # NoEnd
      BY <1>a, <3>3, PlansAssumption DEF TypeOK, PlansAssumption, NoEnd
    <3> HIDE DEF row
    <3>5. "period_end" \in dirty'[h] /\ object'[h] = row
      BY <1>a, <1>b, <3>2 DEF Assign, TypeOK
    <3> QED
      BY <1>a, <1>b, <3>2, <3>4, <3>5, AssignEnds DEF Harmless
  <2>4. CASE MarkPastDue(h)
    <3> DEFINE row == [sub EXCEPT !.status = "past_due"]
    <3>1. GoTo(h, "flush") /\ UNCHANGED <<sub, work>>
      BY <2>4 DEF MarkPastDue, table
    <3>2. CASE Assign(h, sub, row, {})
      <4>1. row["plan"] = sub["plan"] /\ row["period_end"] = sub["period_end"]
        BY <1>a DEF TypeOK, Row
      <4> HIDE DEF row
      <4>2. "plan" \notin dirty'[h] /\ "period_end" \notin dirty'[h]
        BY <3>2, <4>1, <1>a, <1>b DEF Assign, TypeOK
      <4> QED
        BY <1>a, <1>b, <3>1, <3>2, <4>2, AssignEnds DEF Harmless
    <3>3. CASE UNCHANGED orm
      BY <1>b, <1>12, <3>1, <3>3 DEF orm
    <3> QED
      BY <2>4, <3>2, <3>3 DEF MarkPastDue
  <2> QED
    BY <1>14, <2>1, <2>2, <2>3, <2>4 DEF HookStep
<1>15. ASSUME NEW h \in Hooks, NEW i \in DOMAIN ledger, Deliver(h, i)
       PROVE  EndInv'
  BY <1>b, <1>12, <1>15 DEF Deliver, table, orm
<1>16. CASE WorkerStep
  BY <1>16, <1>4, <1>5, <1>6, <1>7, <1>8 DEF WorkerStep
<1> QED
  BY <1>2, <1>3, <1>9, <1>10, <1>11, <1>13, <1>14, <1>15, <1>16 DEF Next, Fail

\* Writers that change different columns from different snapshots of the row
\* never leave a paid plan without an end (worker.py:347-352,
\* webhooks.py:194-199).
THEOREM PlansEnd == Spec => []PaidPlansEnd
<1>1. Init => EndInv
  <2> SUFFICES ASSUME Init PROVE EndInv
    OBVIOUS
  <2>1. Ends(sub)
    BY SubscriptionsAssumption DEF SubscriptionsAssumption, Init, Ends
  <2> QED
    BY <2>1 DEF Init, EndInv, Ends, Harmless, WorkerInv, Txns
<1>2. EndInv => PaidPlansEnd
  BY DEF EndInv, Ends, PaidPlansEnd
<1> QED
  BY <1>1, <1>2, TypeInit, TypeStep, EndStep, PTL DEF Spec
-----------------------------------------------------------------------------
(* A cancellation keeps the plan.                                          *)

\* The row that a cancellation has updated and not committed.
SamePlan(new, old) == new.plan = old.plan /\ new.period_end = old.period_end

CancelInv ==
  /\ \A c \in Cancels : "plan" \notin dirty[c] /\ "period_end" \notin dirty[c]
  /\ lock \in Cancels => SamePlan(work, sub)

\* What the end of a cancellation does to the row.
Kept == lock \in Cancels /\ lock' = None => SamePlan(sub', sub)

\* A step that leaves the rows alone and assigns in no cancellation.
LEMMA CancelUntouched ==
  ASSUME TypeOK, CancelInv, UNCHANGED <<sub, work, lock>>,
         \A c \in Cancels : dirty'[c] = dirty[c]
  PROVE  CancelInv' /\ Kept
<1>1. None \notin Cancels
  BY SubscriptionsAssumption DEF SubscriptionsAssumption, Txns
<1> QED
  BY <1>1 DEF CancelInv, Kept, SamePlan

\* An UPDATE of the row.
LEMMA UpdateCancel ==
  ASSUME TypeOK, CancelInv, NEW t \in Txns, Update(t), UNCHANGED sub,
         \A c \in Cancels : dirty'[c] \subseteq dirty[c]
  PROVE  CancelInv' /\ Kept
<1>1. None \notin Txns /\ Cancels \subseteq Txns
  BY SubscriptionsAssumption DEF SubscriptionsAssumption, Txns
<1>2. CASE UNCHANGED <<work, lock>>
  BY <1>1, <1>2 DEF CancelInv, Kept, SamePlan
<1>3. CASE lock' = t /\ work' = Flushed(t)
  <2>1. t \in Cancels => SamePlan(Flushed(t), Visible(t))
    BY DEF CancelInv, SamePlan, Flushed
  <2>2. t \in Cancels => SamePlan(Visible(t), sub)
    BY DEF CancelInv, SamePlan, Visible
  <2> QED
    BY <1>1, <1>3, <2>1, <2>2 DEF CancelInv, Kept, SamePlan
<1> QED
  BY <1>2, <1>3 DEF Update

\* A transaction that closes.
LEMMA CloseCancel ==
  ASSUME TypeOK, CancelInv, NEW t \in Txns, Commit(t) \/ Rollback(t)
  PROVE  CancelInv' /\ Kept
<1>1. None \notin Cancels
  BY SubscriptionsAssumption DEF SubscriptionsAssumption, Txns
<1>2. \A c \in Cancels : dirty'[c] \in {dirty[c], {}}
  BY DEF Commit, Rollback, Close, TypeOK, Txns
<1>3. CASE lock = t
  <2>1. lock' = None /\ (sub' = work \/ sub' = sub)
    BY <1>3 DEF Commit, Rollback, Close, Visible
  <2> QED
    BY <1>1, <1>2, <2>1 DEF CancelInv, Kept, SamePlan
<1>4. CASE lock # t
  <2>1. UNCHANGED <<lock, sub, work>>
    BY <1>4 DEF Commit, Rollback, Close, Visible
  <2> QED
    BY <1>1, <1>2, <2>1 DEF CancelInv, Kept, SamePlan
<1> QED
  BY <1>3, <1>4

\* No step of a cancellation assigns a plan or a period, and its end keeps
\* the row's.
LEMMA CancelStays == TypeOK /\ CancelInv /\ [Next]_vars => CancelInv' /\ Kept
<1> SUFFICES ASSUME TypeOK, CancelInv, [Next]_vars
             PROVE  CancelInv' /\ Kept
  OBVIOUS
<1>b. /\ Worker \in Txns \ Cancels /\ Cancels \subseteq Txns
      /\ Hooks \subseteq Txns \ Cancels
  BY SubscriptionsAssumption DEF SubscriptionsAssumption, Txns
<1>c. ASSUME NEW t \in Txns \ Cancels, NEW old, NEW row, NEW always,
             Assign(t, old, row, always), UNCHANGED <<sub, work, lock>>
      PROVE  CancelInv' /\ Kept
  BY <1>b, <1>c, CancelUntouched DEF Assign, TypeOK
<1>1. CASE UNCHANGED <<sub, work, lock, dirty>>
  BY <1>1, CancelUntouched
<1>2. CASE Tick \/ YooKassa \/ BeginRun \/ Retry \/ UNCHANGED vars
  BY <1>1, <1>2 DEF Tick, YooKassa, Checkout, Settle, BeginRun, Retry, vars, table, orm
<1>3. CASE SelectDue \/ SelectPastDue
  <2>1. Update(Worker) /\ UNCHANGED sub /\ \A c \in Cancels : dirty'[c] = dirty[c]
    BY <1>3, <1>b DEF SelectDue, SelectPastDue, Select, TypeOK
  <2> QED
    BY <1>b, <2>1, UpdateCancel
<1>4. CASE Renew
  <2>1. UNCHANGED <<sub, work, lock>>
    BY <1>4 DEF Renew, table
  <2>2. CASE UNCHANGED orm
    BY <1>1, <2>1, <2>2 DEF orm
  <2>3. CASE ~UNCHANGED orm
    BY <1>4, <1>b, <1>c, <2>1, <2>3 DEF Renew
  <2> QED
    BY <2>2, <2>3
<1>5. CASE SelectExpired
  <2>1. UNCHANGED <<sub, work, lock>>
    BY <1>5 DEF SelectExpired, table
  <2>2. CASE Expired(Visible(Worker))
    BY <1>5, <1>b, <1>c, <2>1, <2>2 DEF SelectExpired
  <2>3. CASE ~Expired(Visible(Worker))
    BY <1>1, <1>5, <2>1, <2>3 DEF SelectExpired, orm
  <2> QED
    BY <2>2, <2>3
<1>6. ASSUME NEW t \in Txns, Flush(t)
      PROVE  CancelInv' /\ Kept
  <2>1. Update(t) /\ UNCHANGED sub
    BY <1>6 DEF Flush
  <2>2. \A c \in Cancels : dirty'[c] \subseteq dirty[c]
    BY <1>6, <1>b DEF Flush, TypeOK
  <2> QED
    BY <2>1, <2>2, UpdateCancel
<1>7. ASSUME NEW t \in Txns, Commit(t) \/ Fail(t)
      PROVE  CancelInv' /\ Kept
  BY <1>7, CloseCancel DEF Fail
<1>8. ASSUME NEW c \in Cancels, BeginCancel(c) \/ CancelStep(c)
      PROVE  CancelInv' /\ Kept
  <2>1. CASE BeginCancel(c)
    BY <1>1, <2>1 DEF BeginCancel, table, orm
  <2>2. CASE RefuseCancel(c)
    BY <1>b, <2>2, CloseCancel DEF RefuseCancel
  <2>3. CASE CancelSubscription(c)
    <3> DEFINE row == [sub EXCEPT !.status = "cancelled", !.cancelled = TRUE]
    <3>1. Assign(c, sub, row, {"cancelled"}) /\ UNCHANGED <<sub, work, lock>>
      BY <2>3 DEF CancelSubscription, table
    <3>2. row["plan"] = sub["plan"] /\ row["period_end"] = sub["period_end"]
      BY DEF TypeOK, Row
    <3> HIDE DEF row
    <3>3. "plan" \notin dirty'[c] /\ "period_end" \notin dirty'[c]
      BY <3>1, <3>2, <1>b DEF Assign, TypeOK
    <3>4. \A d \in Cancels \ {c} : dirty'[d] = dirty[d]
      BY <3>1, <1>b DEF Assign, TypeOK
    <3>5. None \notin Cancels
      BY SubscriptionsAssumption DEF SubscriptionsAssumption, Txns
    <3> QED
      BY <3>1, <3>3, <3>4, <3>5 DEF CancelInv, Kept, SamePlan
  <2> QED
    BY <1>8, <2>1, <2>2, <2>3 DEF CancelStep
<1>9. ASSUME NEW h \in Hooks, HookStep(h)
      PROVE  CancelInv' /\ Kept
  <2>1. CASE Skip(h) \/ DuplicateKey(h)
    BY <1>b, <2>1, CloseCancel DEF Skip, DuplicateKey
  <2>2. CASE Accept(h)
    BY <1>1, <2>2 DEF Accept, table, orm
  <2>3. CASE ActivatePlan(h)
    BY <1>b, <1>c, <2>3 DEF ActivatePlan, table
  <2>4. CASE MarkPastDue(h)
    <3>1. UNCHANGED <<sub, work, lock>>
      BY <2>4 DEF MarkPastDue, table
    <3>2. CASE UNCHANGED orm
      BY <1>1, <3>1, <3>2 DEF orm
    <3>3. CASE ~UNCHANGED orm
      BY <1>b, <1>c, <2>4, <3>1, <3>3 DEF MarkPastDue
    <3> QED
      BY <3>2, <3>3
  <2> QED
    BY <1>9, <2>1, <2>2, <2>3, <2>4 DEF HookStep
<1>10. ASSUME NEW h \in Hooks, NEW i \in DOMAIN ledger, Deliver(h, i)
       PROVE  CancelInv' /\ Kept
  BY <1>1, <1>10 DEF Deliver, table, orm
<1> QED
  BY <1>2, <1>3, <1>4, <1>5, <1>6, <1>7, <1>8, <1>9, <1>10 DEF Next, WorkerStep

\* A cancellation that ends, committed or not, leaves the plan and its end as
\* other transactions have committed them since it read the row
\* (billing.py:374, 390-394).
THEOREM PlanKept == Spec => CancelKeepsPlan
<1>1. Init => CancelInv
  BY SubscriptionsAssumption
  DEF SubscriptionsAssumption, Init, CancelInv, SamePlan, Txns
<1>2. Kept => ((lock \in Cancels /\ lock' = None) =>
                 sub'.plan = sub.plan /\ sub'.period_end = sub.period_end)
  BY DEF Kept, SamePlan
<1>3. TypeOK /\ CancelInv /\ [Next]_vars =>
        [(lock \in Cancels /\ lock' = None) =>
           sub'.plan = sub.plan /\ sub'.period_end = sub.period_end]_vars
  BY <1>2, CancelStays
<1> QED
  BY <1>1, <1>3, CancelStays, TypeCorrect, PTL DEF Spec, CancelKeepsPlan
=============================================================================
