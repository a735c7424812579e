--------------------------- MODULE MCSubscriptions ---------------------------
(* Small accounts for Subscriptions. *)
EXTENDS Subscriptions

Paying(end) == [plan |-> "personal", status |-> "active", period_end |-> end,
                method |-> TRUE, cancelled |-> FALSE]

\* A personal plan with a saved card, paid up to tomorrow.
DueSoon == {Paying(1)}

\* Two deliveries of an upgrade's payment, on the day it was made: one of them
\* has committed, the other had read the tables before and has yet to flush.
LostRace(h) ==
  LET paid == [plan |-> "pro", status |-> "active", method |-> TRUE,
               period_end |-> BILLING_PERIOD_DAYS, cancelled |-> FALSE]
  IN  /\ now = 0 /\ run_day = -1
      /\ sub = paid /\ work = paid /\ lock = None
      /\ ledger = <<[kind |-> "checkout", key |-> <<"checkout", 0>>,
                    plan |-> "pro", status |-> "succeeded", aim |-> NoEnd]>>
      /\ payments = {1} /\ inserted = [k \in Hooks |-> 0]
      /\ pc = [t \in Txns |-> IF t = h THEN "flush" ELSE "idle"]
      /\ object = [t \in Txns |-> IF t = h THEN paid ELSE None]
      /\ dirty = [t \in Txns |-> IF t = h THEN {"plan", "period_end"} ELSE {}]
      /\ event = [k \in Hooks |-> IF k = h THEN 1 ELSE 0]

RaceSpec == (Init \/ \E h \in Hooks : LostRace(h)) /\ [][Next]_vars
=============================================================================
