SPECIFICATION PlaneSpec
CONSTANTS
  c1 = c1
  p1 = p1
  Controllers = {w1}
  Claims = {c1}
  Sandboxes = {c1}
  PodNames = {p1}
  PodNameOf <- OwnPod
  Targets = {ip1, ip2}
  NoTarget = NoTarget
  NoClaim = NoClaim
  TTL = 1
  MaxTime = 0
  Faults = {"evict"}
  FailThreshold = 1
  Shared = {ip2}
  ProxyRestarts = TRUE
PROPERTIES RouteConverges LeakIsTemporary
