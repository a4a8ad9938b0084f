CONSTANTS
  p1 = p1
  p2 = p2
  p3 = p3
  old = old
  new = new
  Process = {p1, p2, p3}
  Alert = {old, new}
  OldAlert = {old}
  Start <- AnyFile
  NoTask = NoTask
  MaxCrashes = 1
SPECIFICATION FairSpec
INVARIANTS
  OpenIsComplete
  NoVanishedIncident
PROPERTIES
  OpensInTheEnd
