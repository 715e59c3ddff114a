SPECIFICATION FairSpec
CONSTANTS
  Replicas = {r1, r2}
  None = None
  TTL = 3
  RENEW = 1
  RETRY = 1
  LAG = 1
  MaxFaults = 4
INVARIANTS
  TypeOK
  TokenDetectsTakeover
  NoEarlyTakeover
  RelinquishBound
PROPERTIES
  LeadershipSettles
