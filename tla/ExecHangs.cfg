SPECIFICATION TimeoutSpec
CONSTANTS
  Sandboxes = {s1, s2}
  Clients = {s1}
  Targets = {t1}
  NoTarget = NoTarget
  Scopes <- MCScopes
  Grants <- MCGrants
  Shapes <- MCShapes
  MaxTtl = 1
  MaxTime = 1
  MaxOutput = 1
  PipeSize = 2
  MaxBytes = 2
  Root <- MCRoot
  MaxFileLen = 2
  MaxLinks = 4
  Trees <- MCTrees
  Requested <- MCRequested
PROPERTY ExecReturns
