\* Two requests, and what the comment at chat.py:5083 says of reactions.
CONSTANTS
  Requests = {r1, r2}
  Nobody = Nobody
  Limit = 2
SPECIFICATION Spec
INVARIANTS
  OneReaction
CHECK_DEADLOCK FALSE
