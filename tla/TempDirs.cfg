CONSTANTS
  Upload = {u1}
  Path = {f1}
  Skipped = {}
  TTL = 1
  MaxTime = 2
  MaxEdits = 0
  Faults = {"kill"}
SPECIFICATION Spec
INVARIANTS
  TempDirsRemoved
CHECK_DEADLOCK FALSE
