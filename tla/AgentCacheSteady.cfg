\* The version key is there: two writers and three readers of one page.
CONSTANTS
  Readers = {r1, r2, r3}
  Writers = {w1, w2}
  Deletes = {w1}
  Nobody = Nobody
  FirstVersion = 1
  MaxVersion = 3
SPECIFICATION SteadySpec
SYMMETRY Symmetry
INVARIANTS
  CacheTypeOK
  StaleOnlyFromOverlappingFill
CHECK_DEADLOCK FALSE
