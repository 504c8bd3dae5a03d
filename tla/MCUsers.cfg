\* Three users: someone to act, someone to act on, and a bystander.
CONSTANTS
  Users = {u1, u2, u3}
  Privileges = {0, 5, 9, 10}

SPECIFICATION Spec
SYMMETRY UserSymmetry
INVARIANTS
  TypeOK
  OneRoot
PROPERTIES
  AuthorityNeverGrows
  RootDemotesItself
