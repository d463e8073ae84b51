CONSTANTS
  d1 = d1
  d2 = d2
  s1 = s1
  s2 = s2
  d3 = d3
  p3 = p3
  p1 = p1
  p2 = p2
  a = a
  b = b
  q = q
  Nodes = {p1, p2, p3, a, b, q}
  Papers = {p1, p2, p3}
  Sources = {s1, s2}
  Docs = {d1, d2, d3}
  Embed = Embed
  None = None
  Script <- Disagreement
  SourceOf <- TwoSources
  Tries = 2
  Deletable = {s1, s2}
SPECIFICATION Spec
CHECK_DEADLOCK FALSE
INVARIANTS
  EdgesAreAnchored
  RunsAreWritten
  ContradictionsAreFlagged
PROPERTIES
  DeletionSpares
