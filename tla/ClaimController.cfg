SPECIFICATION Spec
CONSTANTS
  c1 = c1
  c2 = c2
  p1 = p1
  p2 = p2
  Controllers = {w1}
  Claims = {c1}
  Sandboxes = {c1}
  PodNames = {p1}
  PodNameOf <- OwnPod
  Targets = {ip1}
  NoTarget = NoTarget
  NoClaim = NoClaim
  TTL = 2
  MaxTime = 2
  Faults = {"api", "lostAck", "unreachable", "restart", "edit", "flap", "evict"}
INVARIANTS DeletedHasNoPod ReadyHasFinalizer
PROPERTIES DeletedIsFinal ExpiryIsStable FinalizerAwaitsRoute
