\* Redis starts empty, may lose its keys and fail any call.
CONSTANTS
  Readers = {r1, r2}
  Writers = {w1, w2}
  Deletes = {w1, w2}
  Nobody = Nobody
  FirstVersion = 0
  MaxVersion = 3
SPECIFICATION CacheSpec
SYMMETRY Symmetry
INVARIANT ServedNeverDeleted
CHECK_DEADLOCK FALSE
