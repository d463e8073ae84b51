CONSTANTS
  s1 = s1
  d1 = d1
  d2 = d2
  Workers = {w1, w2}
  Docs = {d1, d2}
  Sources = {s1}
  SourceOf <- OneSource
  BatchIds = {1, 2, 3, 4, 5, 6}
  Limits = {1, 2}
  Nobody = Nobody
  NoBatch = NoBatch
  Faults = {"crash", "heartbeat"}
  Mishaps = 2
SPECIFICATION FairSpec
CHECK_DEADLOCK FALSE
INVARIANTS
  NoBatchIsStranded
PROPERTIES
  EveryDocumentIsSettled
  EverySourceFinishes
