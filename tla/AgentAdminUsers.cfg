\* Two requests and a user, whose agent they may update; no tags, and two features.
CONSTANTS
  Requests = {r1, r2}
  Old = Old
  Theirs = {u1}
  Names = {n1, n2}
  Texts = {x1, x2}
  Categories = {None}
  Types = {None}
  Tools = {t1}
  Features = {f1, f2}
  None = None
  Faults = FALSE
SPECIFICATION Spec
INVARIANTS
  FreshIsWhole
  MixedOnlyUnlocked
  SameNameOnlyFromOverlap
SYMMETRY Symmetry
CHECK_DEADLOCK FALSE
