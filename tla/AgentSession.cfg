CONSTANTS
  s1 = s1
  small = small
  Snapshot = {s1}
  Request = {c1, r1}
  Call = {c1}
  c1 = c1
  Script <- Scripts
  Content = {small}
  Oversize = {}
  Form <- GenuineForms
  Mode = "development"
  TTL = 1
  MaxTime = 2
  Faults = {"create", "copy", "remove", "open", "short", "close", "restart"}
  Absent = Absent
  Partial = Partial
  NoFile = NoFile
SPECIFICATION FairSession
INVARIANTS
  AckedIsDurable
  RefusedForCause
  AnsweredInOrder
PROPERTIES
  Answered
  LoopCatchesUp
  ImplementsOutcome
CHECK_DEADLOCK FALSE
