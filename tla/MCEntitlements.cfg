\* A start, a conversion, a look at the status and two deliveries, over the
\* billing period and the grace, on a free account and on one whose plan was
\* cancelled, before they have a counter; a credit and a plan are bought.
SPECIFICATION Spec
CONSTANTS
  GRACE_PERIOD_DAYS = 1
  BILLING_PERIOD_DAYS = 1
  FreeSimulations = 1
  PersonalSimulations = 2
  Starts = {s1}
  Conversions = {c1}
  Views = {v1}
  Hooks = {h1, h2}
  p1 = p1
  p2 = p2
  Payments = {p1, p2}
  PlanBought <- CreditAndPlan
  InitialSubscriptions <- FreeOrPaying
  InitialCounters <- NewAccount
  MaxDay = 2
  None = None
SYMMETRY Symmetry
INVARIANTS TypeOK CreditsNonNegative PaymentAppliedOnce CreditsBackedByPayments
PROPERTY ChargedExactly
