\* Three requests of any kind, and a user who may keep two items.
CONSTANTS
  Requests = {r1, r2, r3}
  Nobody = Nobody
  Limit = 2
SPECIFICATION Spec
INVARIANTS
  TypeOK
  DuplicateOnlyFromOverlap
  OverLimitOnlyFromOverlap
  MixedOnlyFromOverlap
PROPERTIES
  DeletedIsFinal
SYMMETRY Symmetry
CHECK_DEADLOCK FALSE
