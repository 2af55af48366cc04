\* One worker, two users: the window moves past the log twice.
CONSTANTS
  Workers = {w1}
  Users = {u1, u2}
  Limit = 2
  Window = 2
  Horizon = 6
SPECIFICATION Spec
INVARIANTS
  TypeOK
  WindowBound
  RefusedOnlyWhenFull
