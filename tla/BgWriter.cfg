SPECIFICATION WriterSpec
CONSTANTS
  UserRows = {u1, u2}
  SelfRows = {s1}
  Poison = {u2}
  PERIOD = 2
  MaxChan = 2
INVARIANTS
  WriterTypeOK
  UserActionsPrompt
PROPERTIES
  HeldUntilSettled
