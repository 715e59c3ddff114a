SPECIFICATION FairSpec
CONSTANTS
  Kinds = {"timeline", "sessions", "daily", "first_seen", "identity"}
  Rows = {c1, c2, g1}
  CloudtrailRows = {c1, c2}
  Passes = {p1}
  MARGIN = 2
  STEP = 2
  LIMIT = 1
  DELAY = 1
  SKEW = 0
  MaxTime = 5
INVARIANTS
  TypeOK
  TallyExact
PROPERTIES
  ImplementsTally
  EventuallyFolded
CHECK_DEADLOCK FALSE
