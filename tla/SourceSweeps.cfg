SPECIFICATION FairSpec
CONSTANTS
  Sources = {"github", "github_s3", "guardduty"}
  N = 4
  Findings = {1, 2, 3}
  Regions = 2
  Blank = {2}
  PAGE = 1
  FLUSH = 2
  MAXWAITS = 1
  MAXOBJ = 1
  DAY = 2
  WINDOW = 2
  LATE = 1
  MaxTime = 4
  MaxFaults = 2
INVARIANTS
  TypeOK
  NoGapBelowFloor
  QuietFindingsKept
PROPERTIES
  EventuallyStored
