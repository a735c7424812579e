\* Charges in a paid period.
SPECIFICATION Spec
CONSTANTS
  GRACE_PERIOD_DAYS = 1
  BILLING_PERIOD_DAYS = 3
  FreeSimulations = 1
  PersonalSimulations = 2
  Worker = w
  Cancels = {}
  Hooks = {h1}
  Offers = {}
  InitialSubscriptions <- DueSoon
  MaxDay = 4
  MaxPayments = 3
  None = None
PROPERTY ChargesAreDue
