CONSTANTS
  Setup = {p1, p2}
  Server = {a}
  NoServer = NoServer
  NoFile = NoFile
  Faults = {}
SPECIFICATION Spec
INVARIANT ReinstallIsSilent
