CONSTANTS
  alpha = alpha
  beta = beta
  i1 = i1
  i2 = i2
  i3 = i3
  Incident = {i1, i2, i3}
  ScopeOfIncident <- MCScope
  NamespaceOf <- MCNamespace
  Projects <- BothProjects
  RouteOf <- Boards
  NoProject = NoProject
  DefaultSlug = DefaultSlug
  AckSla = 1
  ProgressSla = 2
  StalledAfter = 3
  Broken = {}
SPECIFICATION FairSpec

  
PROPERTIES
  NoSilentIncident
