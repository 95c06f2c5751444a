SPECIFICATION Spec
CONSTANTS
  k1 = k1
  k2 = k2
  k3 = k3
  Replicas = {r1, r2}
  Tenants = {t1}
  Owners = {o1}
  Keys = {k1, k2, k3}
  Requests <- MCRequests
  Limits <- MCLimits
  MaxSeq = 4
  Backends = {"sql"}
  Load <- MCLoad
  Faults = {}
  NoAccount = NoAccount
  NoKey = NoKey
  NoRequest = NoRequest
INVARIANT KeyIsSharedByReplicas
