SPECIFICATION FairSpec
CONSTANTS
  Replicas = {r1, r2}
  Partitions = {p1}
  End = 3
  Junk <- FirstIsJunk
  MaxRestarts = 2
  MaxRebalances = 2
INVARIANTS
  TypeOK
  NothingSkipped
PROPERTIES
  WritersAsPromised
  Delivered
