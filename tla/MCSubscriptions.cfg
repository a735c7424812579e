\* The worker, a cancellation and a delivery at a time, an upgrade, two payments,
\* three days; also from the middle of a second delivery of the same payment.
SPECIFICATION RaceSpec
CONSTANTS
  GRACE_PERIOD_DAYS = 1
  BILLING_PERIOD_DAYS = 2
  FreeSimulations = 1
  PersonalSimulations = 2
  Worker = w
  Cancels = {c1}
  Hooks = {h1}
  Offers = {"pro"}
  InitialSubscriptions <- DueSoon
  MaxDay = 2
  MaxPayments = 2
  None = None
INVARIANTS TypeOK  PaidPlansEnd
PROPERTY CancelKeepsPlan
