\* Three requests about a message with two texts, analysed before or not.
CONSTANTS
  Requests = {r1, r2, r3}
  Texts = {t1, t2}
  Earlier = Earlier
  NoRow = NoRow
SPECIFICATION Spec
INVARIANTS
  TypeOK
  SavedHasRow
  DecisionLostOnlyByOverlap
SYMMETRY Symmetry
CHECK_DEADLOCK FALSE
