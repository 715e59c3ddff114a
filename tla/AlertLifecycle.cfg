SPECIFICATION Spec
CONSTANTS
  Sources = {"rule", "guardduty"}
  Analysts = {ann, bob}
  Absent = Absent
  THRESHOLD = 2
  WINDOW = 2
  AUTO = 1
  DERIVED = 2
  MaxTime = 6
INVARIANTS
  TypeOK
  NoResurrection
  TrailMatchesStatus
PROPERTIES
  TriageStands
  NothingHidden
