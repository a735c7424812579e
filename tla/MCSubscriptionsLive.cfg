\* Without new checkouts an unpaid plan ends.
SPECIFICATION FairSpec
CONSTANTS
  GRACE_PERIOD_DAYS = 1
  BILLING_PERIOD_DAYS = 2
  FreeSimulations = 1
  PersonalSimulations = 2
  Worker = w
  Cancels = {}
  Hooks = {h1}
  Offers = {}
  InitialSubscriptions <- DueSoon
  MaxDay = 3
  MaxPayments = 1
  None = None
PROPERTY ExpiredIsDowngraded
