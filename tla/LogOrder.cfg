CONSTANTS
  s1 = s1
  s2 = s2
  small = small
  large = large
  Snapshot = {s1, s2}
  Request = {r1, r2}
  Content = {small, large}
  Oversize = {large}
  Form <- GenuineForms
  Mode = "development"
  TTL = 1
  MaxTime = 2
  Faults = {}
  Absent = Absent
  Partial = Partial
  NoFile = NoFile
SPECIFICATION Spec
INVARIANT NewestFirst
CHECK_DEADLOCK FALSE
