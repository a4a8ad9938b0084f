CONSTANTS
  Message = {m1, m2}
  MaxMessages = 2
  MaxReceive = 2
  MaxFaults = 2
SPECIFICATION FairSpec
INVARIANTS
  OutageCostsOneReceive
  
PROPERTY AllHandled
CHECK_DEADLOCK FALSE
