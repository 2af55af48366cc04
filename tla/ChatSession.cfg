\* Three requests of any kind about a session that exists or is being created.
CONSTANTS
  Requests = {r1, r2, r3}
  Nobody = Nobody
  Absent = Absent
  Created = Created
  Minimal = Minimal
  Agno = Agno
SPECIFICATION Spec
INVARIANTS
  TypeOK
  RenameLostOnlyByOverlap
  MarkLostOnlyByOverlap
  MessagesHaveSession
  SaidIsDone
CHECK_DEADLOCK FALSE
SYMMETRY Symmetry
