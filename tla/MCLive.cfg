\* A start, a status request and two deliveries; two sessions and the task that
\* expires them; a report and its brief; an upload.
SPECIFICATION FairSpec
CONSTANTS
  GRACE_PERIOD_DAYS = 1
  BILLING_PERIOD_DAYS = 1
  FreeSimulations = 1
  PersonalSimulations = 2
  Starts = {t1}
  Conversions = {}
  Views = {v1}
  Hooks = {h1, h2}
  p1 = p1
  p2 = p2
  Payments = {p1, p2}
  MaxDay = 0
  s1 = s1
  s2 = s2
  Sessions = {s1, s2}
  MaxTurns = 2
  Sends = {m1}
  Expirer = w
  Tasks = {b1}
  Reruns = {r1}
  Answers = {a1}
  MaxVisits = 2
  Docs = {d1}
  Kinds = {"text", "large"}
  None = None
PROPERTIES RequestsEnd StaleSessionsEnd WaitingEnds ProcessingEnds
CHECK_DEADLOCK FALSE
