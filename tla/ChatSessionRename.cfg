\* The requests of ChatSession.cfg, and what the comment at chat.py:1024 promises.
CONSTANTS
  Requests = {r1, r2}
  Nobody = Nobody
  Absent = Absent
  Created = Created
  Minimal = Minimal
  Agno = Agno
SPECIFICATION Spec
INVARIANTS
  AgnoNeverOverwritesRename
CHECK_DEADLOCK FALSE
