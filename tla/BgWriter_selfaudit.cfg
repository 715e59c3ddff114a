SPECIFICATION WriterFairSpec
CONSTANTS
  UserRows = {u1}
  SelfRows = {s1}
  Poison = {}
  PERIOD = 1
  MaxChan = 1
PROPERTIES
  SelfAuditPersisted
