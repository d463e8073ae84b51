CONSTANTS
  k1 = k1
  k2 = k2
  t1 = t1
  t2 = t2
  Threads = {t1, t2}
  Askers = {k1, k2}
  None = None
  Window = 2
  Turns = {1, 2, 3, 4}
  Deletions = 1
  MaxSubquestions = 2
  Concurrency = 1
SYMMETRY Symmetric
SPECIFICATION Spec
CHECK_DEADLOCK FALSE
INVARIANTS
  EveryTurnIsRemembered
  TurnsAreNumbered
  DoneMeansSaved
PROPERTIES
  NoTurnForADeletedThread
