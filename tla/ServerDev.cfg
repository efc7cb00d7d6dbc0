CONSTANTS
  s1 = s1
  s2 = s2
  small = small
  large = large
  Snapshot = {s1, s2}
  Request = {r1, r2, r3}
  Content = {small, large}
  Oversize = {large}
  Form <- MixedForms
  Mode = "development"
  TTL = 1
  MaxTime = 2
  Faults = {"create", "copy", "open", "restart"}
  Absent = Absent
  Partial = Partial
  NoFile = NoFile
SYMMETRY RequestSymmetry
SPECIFICATION Spec
INVARIANTS
  TypeOK
  SingleWriter
  AckedIsDurable
  StoredIsAccountedFor
  LoggedOnce
  LogMatchesStore
  RefusedForCause
PROPERTIES
  DeadStaysDead
  ImplementsLedger
CHECK_DEADLOCK FALSE
