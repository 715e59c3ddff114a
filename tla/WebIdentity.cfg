SPECIFICATION FairSpec
CONSTANTS
  N = 5
  Legacy = {1, 2}
  Mints = {4, 5}
  NSubjects = 2
  Raw <- MCRaw
  Sessions = {"s1", "s2"}
  SessionOf <- MCSessionOf
  Tasks = {t1}
  BATCH = 1
  LIMIT = 1
  LAG = 2
  WINDOW = 3
  DELAY = 1
  MaxTime = 4
  MaxFaults = 1
INVARIANTS
  TypeOK
  NamedBehind
  MarkerMeansDone
  HistoryAgrees
PROPERTIES
  PassesEnd
CHECK_DEADLOCK FALSE
