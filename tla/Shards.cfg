CONSTANTS
  d1 = d1
  d2 = d2
  s1 = s1
  p1 = p1
  p2 = p2
  a = a
  b = b
  c = c
  f = f
  r = r
  Nodes = {p1, p2, a, b, c, f, r}
  Papers = {p1, p2, r}
  MaxHops = 3
  Sources = {s1}
  Docs = {d1, d2}
  Embed = Embed
  None = None
  Script <- Disagreement
  SourceOf <- OneSource
  Tries = 2
  Shards = {1, 2, 3}
  Home <- Spread
SPECIFICATION RouterSpec
CHECK_DEADLOCK FALSE
INVARIANTS
  ReadsAreWhole
  PathsAreSound
  GapsAreReal
PROPERTIES
  ImplementsGraph
