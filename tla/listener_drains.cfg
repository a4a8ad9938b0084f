CONSTANTS
  p1 = p1
  p2 = p2
  cpu = cpu
  Project = {p1}
  Alarm = {cpu}
  NoProject = NoProject
  NoIncident = NoIncident
  Malformed = Malformed
  Event <- RecoveryEvents
  Message <- PoisonedMessages
  Listener <- OneListener
  Peeked = {p1}
  MaxReceive = 2
  MaxMessages = 1
SPECIFICATION FairSpec
PROPERTIES
  EveryIncidentCarded
  QueueDrains
CHECK_DEADLOCK FALSE
