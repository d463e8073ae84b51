CONSTANTS
  Workers = {w1, w2}
  Docs = {d1, d2, d3}
  BatchIds = {1, 2, 3}
  Limits = {1, 2}
  Nobody = Nobody
  NoBatch = NoBatch
SYMMETRY Symmetry
SPECIFICATION Spec
INVARIANTS
  TypeOK
  OnePlaceEach
  RecordPointsAtOwnOpenBatch
  RetriesComeFirst
PROPERTIES
  ClosedBatchStaysClosed
  ImplementsPool
