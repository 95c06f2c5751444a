SPECIFICATION FairSpec
CONSTANTS
  Accounts = {a1}
  Allocations = {x1, x2}
  Limits <- MCLimits
  IdemKeys = {k1}
  Claims = {c1}
  NoAccount = NoAccount
  NoClaim = NoClaim
  NoAllocation = NoAllocation
  Sessions = {s1, s2}
INVARIANTS ChecksStayTrue CreditNeverMisses DeadlockNeedsSharedId
PROPERTIES Serializable CallsReturn
