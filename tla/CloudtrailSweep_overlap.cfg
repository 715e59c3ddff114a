SPECIFICATION Spec
CONSTANTS
  NA = 1
  NR = 1
  ND = 1
  NK = 3
  WINDOW = 1
  BUDGET = 0
  CAP = 0
  BATCH = 2
  Sweepers = {w1, w2}
  MaxFaults = 2
SYMMETRY Symmetry
INVARIANTS
  CursorSound
  EventsNotOvercounted
