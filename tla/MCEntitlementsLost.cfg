\* Two payments, delivered at the same time.
SPECIFICATION Spec
CONSTANTS
  GRACE_PERIOD_DAYS = 1
  BILLING_PERIOD_DAYS = 1
  FreeSimulations = 1
  PersonalSimulations = 2
  Starts = {}
  Conversions = {}
  Views = {}
  Hooks = {h1, h2}
  p1 = p1
  p2 = p2
  Payments = {p1, p2}
  PlanBought <- OneCredit
  InitialSubscriptions <- OnlyFree
  InitialCounters <- FreshRow
  MaxDay = 0
  None = None
INVARIANT EveryPaymentCredited
