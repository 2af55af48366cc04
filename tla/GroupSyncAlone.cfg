\* As GroupSync.cfg; only of logins one after the other.
CONSTANTS
  Logins = {r1, r2}
  Nobody = Nobody
  Seed = Seed
  AdminVersions = {1}
  MaxDirectory = 2
SPECIFICATION Spec
INVARIANTS
  AloneIsConsistent
CHECK_DEADLOCK FALSE
