SPECIFICATION FairSpec
CONSTANTS
  Sandboxes = {s1, s2}
  Clients = {s1}
  Targets = {t1}
  NoTarget = NoTarget
  Scopes <- MCScopes
  Grants <- MCGrants
  Shapes <- MCShapes
  MaxTtl = 2
  MaxTime = 2
  MaxOutput = 1
  PipeSize = 2
  MaxBytes = 3
  Root <- MCRoot
  MaxFileLen = 2
  MaxLinks = 4
  Trees <- MCTrees
  Requested <- MCRequested
INVARIANTS ScopeTablesAgree OutputIsWhole FilesStayInside WrittenIsRead
PROPERTIES ExecutesOnlyAsGranted HonouredForItsTtl RequestIsAnswered EnvdStops
