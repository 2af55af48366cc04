\* Two logins while the user leaves the admin group, with
\* outages, failed statements and crashes.
CONSTANTS
  Logins = {r1, r2}
  Nobody = Nobody
  Seed = Seed
  AdminVersions = {1}
  MaxDirectory = 2
SPECIFICATION FairSpec
INVARIANTS
  TypeOK
  OldOnlyFromOverlap
PROPERTIES
  RowNeverVanishes
  EveryLoginAnswered
CHECK_DEADLOCK FALSE
