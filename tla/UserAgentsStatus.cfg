\* One request at a time, and what the status at azure_ad_obo.py:3573 means.
CONSTANTS
  Requests = {r1, r2}
  Old = Old
  Admin = Admin
SPECIFICATION Spec
INVARIANTS
  StatusIsTheOneAskedFor
CHECK_DEADLOCK FALSE
