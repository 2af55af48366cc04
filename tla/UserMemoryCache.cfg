\* Two readers and two writers, and AIQ's own changes, with every failure.
CONSTANTS
  Readers = {r1, r2}
  Writers = {w1, w2}
  MaxChanges = 3
  Faults = TRUE
SPECIFICATION FairSpec
INVARIANTS
  CacheTypeOK
  OldOnlyFromOverlappingFill
PROPERTIES
  PromiseKept
  ChangesAreSeen
CHECK_DEADLOCK FALSE
