\* A choice of opponent, a dialogue of two questions, a report, a guest of two accounts.
SPECIFICATION PracticeSpec
CONSTANTS
  Documents = {d1}
  Drafts = {x1}
  Roles = {ro}
  Personas = {pe}
  Meetings = {m1}
  MaxPages = 2
  MaxStarts = 1
  PageRequests = {r1, r2, r3}
  MaxTurns = 2
  PageMaxTurns = 1
  MaxLoads = 2
  First = First
  Tasks = {t1, t2}
  Reruns = {r1, r2, r3}
  Answers = {a1}
  MaxVisits = 2
  GUEST_MAX_TURNS = 2
  Requests = {r1, r2, r3}
  UserOf <- Visitor
  b1 = b1
  u1 = u1
  Bridges = {b1, b2}
  Users = {u1, u2}
  MaxCredits = 1
  MaxTimeouts = 1
  None = None
SYMMETRY Symmetry
INVARIANTS TypesOK OneOpponent ShownIsRecorded OneRerun
PROPERTY ImplementsConversion
CHECK_DEADLOCK FALSE
