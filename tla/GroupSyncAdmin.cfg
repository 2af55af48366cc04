\* Two logins around the user's removal from the admin group.
CONSTANTS
  Logins = {r1, r2}
  Nobody = Nobody
  Seed = Seed
  AdminVersions = {1}
  MaxDirectory = 2
SPECIFICATION QuietSpec
INVARIANT AdminLostIsRemoved
CHECK_DEADLOCK FALSE
