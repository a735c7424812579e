\* Two payments, two meetings, an opponent, three scenarios, two notifications,
\* a browser of two users.
SPECIFICATION CabinetSpec
CONSTANTS
  p1 = p1
  p2 = p2
  Payments = {p1, p2}
  PlanOf <- Offered
  InitialPlans = {"free"}
  Fetches = {f1, f2}
  MaxAttempts = 2
  MaxVisits = 3
  Meets = {m1, m2}
  Titles = {ta}
  MaxDate = 0
  Offset = 0
  People = {o1}
  Ages = {18}
  Words = {w}
  Lines <- SomeLines
  w = w
  Comma = Comma
  Blank = Blank
  Slugs = {wedge, client, people}
  Embedded <- SomeEmbedded
  Served <- SomeServed
  Clients = {client}
  Investors = {}
  Qbrs = {}
  Roadmaps = {wedge}
  WEDGE_SCENARIO_SLUG = wedge
  wedge = wedge
  client = client
  people = people
  Notes = {n1, n2}
  Marks = {one, all}
  TargetsOf <- SomeTargets
  n1 = n1
  n2 = n2
  one = one
  all = all
  Mounts = 1
  Users = {u1, u2}
  UserOf <- SomeUsers
  u1 = u1
  Tasks = {t1}
  None = None
SYMMETRY Symmetry
INVARIANTS TypesOK ReportedOnce ConfirmationIsEarned SavedIntoItsOwn UntouchedIsUnchanged ListedOnce ShownReadIsRead AnsweredIsNotAsked
PROPERTY ListIsOfItsTab
CHECK_DEADLOCK FALSE
