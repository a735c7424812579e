\* A stale session about a draft.
SPECIFICATION FairSpec
CONSTANTS
  s1 = s1
  s2 = s2
  Sessions = {s1, s2}
  Source <- DraftAndDocument
  InitialRows <- Started
  MaxTurns = 2
  Sends = {m1}
  Completes = {}
  Abandons = {}
  Expirer = w
  None = None
PROPERTY EveryStaleSessionEnds
