CONSTANTS
  s1 = s1
  s2 = s2
  d1 = d1
  d2 = d2
  d3 = d3
  Sources = {s1, s2}
  Docs = {d1, d2}
  None = None
  Feeds <- SharedFeeds
  Concurrency = 2
  Forced = {FALSE}
  Requests = 3
  Faults = {"enqueue", "crash", "redis", "unguarded", "database"}
  Mishaps = 2
SPECIFICATION Spec
CHECK_DEADLOCK FALSE
INVARIANTS
  TypeOK
  SuccessIsSearchable
  SuccessfulRowsAreSearchable
  CheckpointIsDone
