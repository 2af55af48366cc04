\* Three requests of any kind about an agent there is or one of them creates.
CONSTANTS
  Requests = {r1, r2, r3}
  Old = Old
  Admin = Admin
SPECIFICATION Spec
INVARIANTS
  TypeOK
  ListsAgree
  FieldsAgree
SYMMETRY Symmetry
CHECK_DEADLOCK FALSE
