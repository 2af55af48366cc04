\* Two requests of any kind, about one agent or two; a word may be category or type.
CONSTANTS
  Requests = {r1, r2}
  Old = Old
  Theirs = {}
  Names = {n1, n2}
  Texts = {x1}
  Categories = {None, w1, w2}
  Types = {None, w1}
  Tools = {t1}
  Features = {f1}
  None = None
  Faults = TRUE
SPECIFICATION Spec
INVARIANTS
  FreshIsWhole
  MixedOnlyUnlocked
SYMMETRY Symmetry
CHECK_DEADLOCK FALSE
