CONSTANTS
  s1 = s1
  d1 = d1
  d2 = d2
  Workers = {w1, w2}
  Docs = {d1, d2}
  Sources = {s1}
  SourceOf <- OneSource
  BatchIds = {1, 2, 3}
  Limits = {1, 2}
  Nobody = Nobody
  NoBatch = NoBatch
  Faults = {"crash", "restart", "stop", "network", "heartbeat", "report", "database", "slow", "fast"}
  Mishaps = 2
SYMMETRY Symmetry
SPECIFICATION Spec
CHECK_DEADLOCK FALSE
INVARIANTS
  TypeOK
  RowsFollowAcceptedReports
  VerdictsAreEarned
PROPERTIES
  SuccessIsFinal
