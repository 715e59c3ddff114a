SPECIFICATION FairSpec
CONSTANTS
  NA = 2
  NR = 1
  ND = 2
  NK = 2
  WINDOW = 2
  BUDGET = 2
  CAP = 1
  BATCH = 1
  Sweepers = {w1}
  MaxFaults = 1
INVARIANTS
  TypeOK
  RotationMoves
  NoDuplicateGrinding
PROPERTIES
  Drained
