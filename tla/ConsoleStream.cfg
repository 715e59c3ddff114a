SPECIFICATION FairSpec
CONSTANTS
  Replicas = {"r1", "r2"}
  Workers = {"w1", "w2"}
  HostOf <- MCHostOf
  Consoles = {"c"}
  ServedBy <- MCServedBy
  MaxWrites = 3
  MaxFaults = 1
INVARIANTS
  TypeOK
  StaleIsKnown
PROPERTIES
  CatchesUp
