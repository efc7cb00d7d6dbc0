CONSTANTS
  Setup = {p1, p2}
  Server = {a, b}
  NoServer = NoServer
  NoFile = NoFile
  Faults = {"read", "save"}
SPECIFICATION Spec
INVARIANTS
  TypeOK
  ConsentBeforeUse
PROPERTIES
  InstallationSticks
  SetupIsKept
