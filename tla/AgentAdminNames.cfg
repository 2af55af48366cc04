\* Three requests that give nothing but fields.
CONSTANTS
  Requests = {r1, r2, r3}
  Old = Old
  Theirs = {}
  Names = {n1, n2}
  Texts = {x1, x2}
  Categories = {None}
  Types = {None}
  Tools = {None}
  Features = {None}
  None = None
  Faults = FALSE
SPECIFICATION Spec
INVARIANTS
  SameNameOnlyFromOverlap
SYMMETRY Symmetry
CHECK_DEADLOCK FALSE
