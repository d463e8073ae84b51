CONSTANTS
  ann = ann
  bob = bob
  laptop = laptop
  other = other
  t1 = t1
  t2 = t2
  t3 = t3
  Users = {ann, bob}
  Browsers = {laptop, other}
  Tabs = {t1, t2, t3}
  None = None
  UserOf <- Owner
  BrowserOf <- Where
  MaxTokens = 3
SYMMETRY Symmetric
SPECIFICATION Spec
CHECK_DEADLOCK FALSE
INVARIANTS
  SessionsSurvive
PROPERTIES
  EndedSessionsStayEnded
