SPECIFICATION Spec
CONSTANTS
  Procs = {p1, p2}
  Half = 8
  MaxKills = 2
  Sizes = {1, 2}
  MaxSegments = 2
  MaxEdits = 1
  Cap = 2
INVARIANTS
  FreshUntilSized
  LockExcludes
  OneRing
  Startable
PROPERTIES
  SeesItFree
CHECK_DEADLOCK FALSE
