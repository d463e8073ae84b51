CONSTANTS
  s1 = s1
  s2 = s2
  d1 = d1
  d2 = d2
  d3 = d3
  Sources = {s1, s2}
  Docs = {d1, d2, d3}
  None = None
  Feeds <- OwnFeeds
  Concurrency = 2
  Forced = {TRUE, FALSE}
  Requests = 2
  Faults = {"enqueue", "crash", "redis", "unguarded", "database", "reboot", "chroma", "delete", "cleanup"}
  Mishaps = 2
SPECIFICATION FairSpec
CHECK_DEADLOCK FALSE
INVARIANTS
  RunningMeansWorking
  DeletedLeavesNothing
PROPERTIES
  CleanupTakesLeftovers
  EveryRequestIsServed
