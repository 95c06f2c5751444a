SPECIFICATION FairSpec
CONSTANTS
  Replicas = {r1, r2, r3}
  Statements = 3
  DefaultLimit = 2
  MaxFaults = 2
  Nobody = Nobody
  Orphan = Orphan
INVARIANTS MigrationsDoNotRace OpenedHasSchema
PROPERTY ReplicasServe
