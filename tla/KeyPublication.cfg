CONSTANTS
  Process = {p1}
  Key = {k1, k2, k3}
  Publish = {p1}
  Faults = {}
  Absent = Absent
  Torn = Torn
SPECIFICATION Spec
INVARIANT PublicKeyProvided
