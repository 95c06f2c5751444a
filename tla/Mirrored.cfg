SPECIFICATION MirrorSpec
CONSTANTS
  Accounts = {a1, a2}
  Allocations = {x1, x2, x3}
  Limits <- MCLimits
  IdemKeys = {k1}
  Claims = {c1, c2}
  NoAccount = NoAccount
  NoClaim = NoClaim
INVARIANTS LedgerBalanced WithinLimit TablesAgree RepliesAgreeOnceConfigured
PROPERTY AllocationIsOneShot
