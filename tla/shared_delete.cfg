CONSTANTS
  p1 = p1
  p2 = p2
  cpu = cpu
  Project = {p1, p2}
  Alarm = {cpu}
  NoProject = NoProject
  NoIncident = NoIncident
  Malformed = Malformed
  Event <- SharedEvents
  Message <- SharedMessages
  Listener <- OnePerProject
  Peeked = {}
  MaxReceive = 2
  MaxMessages = 1
SPECIFICATION Spec
INVARIANTS
  DeletedAfterEffects
CHECK_DEADLOCK FALSE
