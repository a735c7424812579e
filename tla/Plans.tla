------------------------------- MODULE Plans -------------------------------
(***************************************************************************)
(* The tariff rules of backend/app/services/limits.py: which plan a        *)
(* subscription row gives its owner at a moment, whether the row counts as *)
(* active, and how many simulations the plan allows.                       *)
(*                                                                         *)
(* Time is an integer number of days.  A subscription row is a record that *)
(* has at least the fields plan, status and period_end; a period_end of    *)
(* None is NoEnd, a limit of None is Unlimited.                            *)
(***************************************************************************)
EXTENDS Integers

CONSTANTS
  GRACE_PERIOD_DAYS,    \* 3 in the code
  BILLING_PERIOD_DAYS,  \* 30 in the code
  FreeSimulations,      \* 1: lifetime simulations of the free plan
  PersonalSimulations   \* 10: monthly simulations of personal and starter

ASSUME PlansAssumption ==
  /\ GRACE_PERIOD_DAYS \in Nat
  /\ BILLING_PERIOD_DAYS \in Nat \ {0}
  /\ FreeSimulations \in Nat
  /\ PersonalSimulations \in Nat

PlanType == {"free", "per_session", "starter", "personal", "pro", "team"}
SubscriptionStatus == {"active", "trialing", "past_due", "cancelled"}

NoEnd == -1
Unlimited == -1

SubscriptionPlans == {"personal", "pro", "team", "starter"}

\* The legacy plan starter is personal for every limit.
NormalizePlan(plan) == IF plan = "starter" THEN "personal" ELSE plan

SimulationsPerMonth ==
  [plan \in PlanType |->
     CASE plan = "free"                     -> FreeSimulations
       [] plan = "per_session"              -> 0
       [] plan \in {"starter", "personal"}  -> PersonalSimulations
       [] plan \in {"pro", "team"}          -> Unlimited]

\* The last day on which an unpaid period still counts.
GraceDeadline(sub) == sub.period_end + GRACE_PERIOD_DAYS

\* The plan the owner of sub has on day now; the status plays no part.
EffectivePlan(sub, now) ==
  IF /\ sub.plan \in SubscriptionPlans
     /\ sub.period_end # NoEnd
     /\ now > GraceDeadline(sub)
  THEN "free"
  ELSE sub.plan

\* Active, or cancelled and still inside the paid period and its grace.
IsSubscriptionActive(sub, now) ==
  \/ sub.status \in {"active", "trialing"}
  \/ /\ sub.status = "cancelled"
     /\ sub.period_end = NoEnd \/ now <= GraceDeadline(sub)

LimitOf(sub, now) == SimulationsPerMonth[NormalizePlan(EffectivePlan(sub, now))]

\* The limit of sub's effective plan leaves room for one more simulation.
WithinLimit(sub, used, now) ==
  \/ LimitOf(sub, now) = Unlimited
  \/ used < LimitOf(sub, now)
=============================================================================
