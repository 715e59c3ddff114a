SPECIFICATION Spec
CONSTANTS
  Rows = {c1, c2}
  CloudtrailRows = {c1, c2}
  Passes = {p1, p2}
  Kinds = {"daily", "first_seen", "identity"}
  MARGIN = 3
  STEP = 2
  LIMIT = 1
  DELAY = 0
  SKEW = 1
  MaxTime = 4
SYMMETRY Symmetry
INVARIANTS
  NothingSkipped
CHECK_DEADLOCK FALSE
