\* The version key is there; a fill and an invalidation overlap.
CONSTANTS
  Readers = {r1, r2}
  Writers = {w1, w2}
  Deletes = {}
  Nobody = Nobody
  FirstVersion = 1
  MaxVersion = 3
SPECIFICATION SteadySpec
INVARIANT NextRequestIsFresh
CHECK_DEADLOCK FALSE
