SPECIFICATION Spec
CONSTANTS
  c1 = c1
  c2 = c2
  p1 = p1
  p2 = p2
  Controllers = {w1}
  Claims = {c1}
  Sandboxes = {c1}
  PodNames = {p1}
  PodNameOf <- OwnPod
  Targets = {ip1}
  NoTarget = NoTarget
  NoClaim = NoClaim
  TTL = 1
  MaxTime = 1
  Faults = {}
PROPERTY DeletedIsUnrouted
