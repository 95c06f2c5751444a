SPECIFICATION FairSpec
CONSTANTS
  Sandboxes = {s1, s2}
  Targets = {t1, t2}
  NoTarget = NoTarget
  FailThreshold = 3
PROPERTIES EvictsAfterFailures DeadRouteLeaves
