CONSTANTS
  j1 = j1
  j2 = j2
  d1 = d1
  d2 = d2
  x = x
  X = X
  y = y
  Names = {x, X, y}
  Docs = {d1, d2}
  Jobs = {j1, j2}
  None = None
  Embed = Embed
  Level <- Likeness
  DocsOf <- TwoJobs
  Mentions <- Papers
  Mishaps = 2
SPECIFICATION FairSpec
CHECK_DEADLOCK FALSE
INVARIANTS
  NamesAreDistinct
PROPERTIES
  SuccessIsBackedUp
