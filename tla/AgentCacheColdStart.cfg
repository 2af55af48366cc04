\* Redis starts without the version key; no call needs to fail.
CONSTANTS
  Readers = {r1, r2, r3}
  Writers = {w1, w2}
  Deletes = {}
  Nobody = Nobody
  FirstVersion = 0
  MaxVersion = 3
SPECIFICATION SteadySpec
INVARIANT StaleOnlyFromOverlappingFill
CHECK_DEADLOCK FALSE
