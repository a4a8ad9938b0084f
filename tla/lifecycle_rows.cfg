CONSTANTS
  p1 = p1
  cpu = cpu
  Project = {p1}
  Alarm = {cpu}
  NoProject = NoProject
  NoIncident = NoIncident
  Event <- Recovering
  Debugger = {d1}
  Coder = {c1}
  Watchdog = {w1}
  Verdicts = {"self-recovered/transient", "infra-ops-needed", "code-fix-likely"}
SPECIFICATION Spec
INVARIANTS
  LifecycleTypeOK
  NoSilence
  ClosedHasFinal
  CoderStatusHasTask
  HandOffVisible
CHECK_DEADLOCK FALSE
