CONSTANTS
  cpu = cpu
  Project = {p1, p2}
  Alarm = {cpu}
  Event <- Flapping
  NoProject = NoProject
  NoIncident = NoIncident
SPECIFICATION LedgerSpec
INVARIANTS
  AtMostOneOpen
  LatestDecides
  LastEventIsNewest
PROPERTIES
  NoResurrection
  ImplementsRegister
