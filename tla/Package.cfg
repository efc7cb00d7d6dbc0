CONSTANTS
  Upload = {u1, u2}
  Path = {1, 2, 3, 4, 5}
  Dir = {2}
  Parent <- Tree
  Link <- Links
  Skipped = {1}
  Extra <- Candidates
  Present = {1, 3, 5}
  MaxEdits = 1
  Faults = {"io", "close"}
  MaxInt = 31
  MiB = 4
  DefaultMax = 8
  Framing = 2
  Config <- Configs
SPECIFICATION PackageSpec
INVARIANTS
  ManifestIsOlder
  ManifestIsCovered
  LimitIsExact
  AllowedIsStored
  RoundTrip
  OnlyWholeIsAccepted
SYMMETRY Uploads
CHECK_DEADLOCK FALSE
