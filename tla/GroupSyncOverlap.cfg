\* Two logins that overlap; nothing fails.
CONSTANTS
  Logins = {r1, r2}
  Nobody = Nobody
  Seed = Seed
  AdminVersions = {2}
  MaxDirectory = 2
SPECIFICATION QuietSpec
INVARIANT PivotIsLatest
CHECK_DEADLOCK FALSE
