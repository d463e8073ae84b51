CONSTANTS
  narrow = narrow
  NARROW = NARROW
  wide = wide
  influence = influence
  suggested = suggested
  k1 = k1
  Askers = {k1}
  Queries = {narrow, NARROW, wide}
  None = None
  Finds <- Hits
  MaxAttempts = 3
  Key <- CaseFolded
  Viewers = {"v1"}
  Views = {influence, suggested}
  Over <- MadeFrom
  Changes = 1
  Moves = 2
  Asks = 2
SPECIFICATION FairSpec
CHECK_DEADLOCK FALSE
INVARIANTS
  StaleMeansLate
  AnswersMatchTheirCypher
PROPERTIES
  EveryQuestionEnds
