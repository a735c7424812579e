\* Two sends, a completion, an abandon and the task, on an open session about a
\* document or about a draft, beside one that has ended.
SPECIFICATION OneActiveSpec
CONSTANTS
  s1 = s1
  s2 = s2
  Sessions = {s1, s2}
  Source <- DraftAndDocument
  InitialRows <- Started
  MaxTurns = 2
  Sends = {m1, m2}
  Completes = {c1}
  Abandons = {a1}
  Expirer = w
  None = None
SYMMETRY Symmetry
INVARIANTS TypeOK CompletedHasAnswer EvaluatedHasEnded TurnsBounded
