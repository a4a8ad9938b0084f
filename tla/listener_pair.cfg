CONSTANTS
  p1 = p1
  p2 = p2
  cpu = cpu
  Project = {p1}
  Alarm = {cpu}
  NoProject = NoProject
  NoIncident = NoIncident
  Malformed = Malformed
  Event <- FlappingEvents
  Message <- FlappingMessages
  Listener <- TwoListeners
  Peeked = {}
  MaxReceive = 2
  MaxMessages = 2
SPECIFICATION Spec
CONSTRAINT ThirdForOneListener
INVARIANTS
  ListenerTypeOK
  DeletedAfterEffects
  NotedEffectsAreDone
  QueueOutcome
PROPERTY ImplementsIntake
CHECK_DEADLOCK FALSE
