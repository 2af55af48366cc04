\* Two requests of any kind and a user, about one agent or several; a word may be
\* category or type.
CONSTANTS
  Requests = {r1, r2}
  Old = Old
  Theirs = {u1}
  Names = {n1, n2}
  Texts = {x1}
  Categories = {None, w1}
  Types = {None, w1}
  Tools = {t1}
  Features = {f1}
  None = None
  Faults = TRUE
SPECIFICATION Spec
INVARIANTS
  TypeOK
  FreshIsWhole
  MixedOnlyUnlocked
  SameNameOnlyFromOverlap
SYMMETRY Symmetry
CHECK_DEADLOCK FALSE
