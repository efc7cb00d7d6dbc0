CONSTANTS
  Process = {p1, p2}
  Key = {k1, k2, k3}
  Publish = {p1}
  Faults = {"read", "write"}
  Absent = Absent
  Torn = Torn
SPECIFICATION Spec
INVARIANTS
  TypeOK
  Recoverable
  NeverTwoKeys
  PublicMatches
