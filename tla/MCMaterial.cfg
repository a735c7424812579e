\* Two uploads, a list of three documents, an analysis of two annotations, briefs.
SPECIFICATION MaterialSpec
CONSTANTS
  Docs = {u1, u2}
  Kinds = {"text", "large"}
  ListedDocs = {d1, d2, d3}
  Texts = {d2}
  Named = {d1}
  Drafted = {d1}
  DOCUMENTS_PAGE_SIZE = 1
  Requests = {r1, r2}
  Length = 3
  Notes <- SomeNotes
  MaxNotes = 2
  MaxItems = 1
  MaxVisits = 2
  None = None
INVARIANTS TypesOK DraftHasDocument PageIsNotEmpty SegmentsAreTheText BriefIsOrdered ShownIsStored FileIsWellFormed
SYMMETRY Symmetry
CHECK_DEADLOCK FALSE
