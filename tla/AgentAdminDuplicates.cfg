\* Two requests, with no statement failing.
CONSTANTS
  Requests = {r1, r2}
  Old = Old
  Theirs = {}
  Names = {n1, n2}
  Texts = {x1}
  Categories = {w1, w2}
  Types = {None, w1}
  Tools = {t1}
  Features = {f1}
  None = None
  Faults = FALSE
SPECIFICATION Spec
PROPERTIES
  DuplicatesAreNotFatal
CHECK_DEADLOCK FALSE
