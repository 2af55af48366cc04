\* Two workers (startup.sh), one user.
CONSTANTS
  Workers = {w1, w2}
  Users = {u1}
  Limit = 2
  Window = 2
  Horizon = 3
SPECIFICATION Spec
INVARIANT ServiceWideBound
