CONSTANTS
  Upload = {u1, u2}
  Path = {f1, f2, t1}
  Skipped = {t1}
  TTL = 1
  MaxTime = 2
  MaxEdits = 1
  Faults = {"service", "size", "io", "remove", "kill"}
SYMMETRY Symmetry
SPECIFICATION Spec
INVARIANTS
  TypeOK
  NeverNested
  ArchiveIsComplete
  WalkErrorsAreReal
  ReportIsWhatWasStored
  TempDirsAreOwned
CHECK_DEADLOCK FALSE
