SPECIFICATION Spec
CONSTANTS
  k1 = k1
  k2 = k2
  k3 = k3
  Replicas = {r1, r2}
  Tenants = {t1}
  Owners = {o1, o2}
  Keys = {k1, k2, k3}
  Requests <- MCRequests
  Limits <- MCLimits
  MaxSeq = 4
  Backends = {"none", "memory", "sql"}
  Load <- MCLoad
  Faults = {"error", "lostAck", "restart"}
  NoAccount = NoAccount
  NoKey = NoKey
  NoRequest = NoRequest
INVARIANTS
  ReadyIsPaidFor ReadyWithinLimit DrainedIsReleased MapsAgree
  NoStuckKey ProjectionInSync OneSandboxPerKey
PROPERTY OutcomeIsStable
SYMMETRY Symmetry
