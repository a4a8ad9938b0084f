CONSTANTS
  cpu = cpu
  m1 = m1
  m2 = m2
  m3 = m3
  Handler = {h1}
  Operator = {u1, u2}
  Call <- MCCall
  Update <- RelyingOnRecord
  Status <- MCStatus
  NoTask = NoTask
SPECIFICATION Spec
INVARIANTS
  ManualClosedHasFinal
