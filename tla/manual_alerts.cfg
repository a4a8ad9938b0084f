CONSTANTS
  cpu = cpu
  m1 = m1
  m2 = m2
  m3 = m3
  Handler = {h1, h2}
  Operator = {o1}
  Call <- MCCall
  Update <- Closing
  Status <- MCStatus
  NoTask = NoTask
SYMMETRY Alike
SPECIFICATION Spec
INVARIANTS
  OneOpenPerAlarm
  OrphanIsReused
  AnsweredHasIncident
