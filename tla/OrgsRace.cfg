SPECIFICATION Spec

CONSTANTS
  None = NoValue
  User = {u1}
  Name = {n1}
  CustomName = {c1}
  Selections <- OnePermission
  Request = {r1, r2}
  Ops <- AllOps
  Lossy = TRUE
  MaxOrgs = 1
  MaxRoles = 5

SYMMETRY Symmetry
CHECK_DEADLOCK FALSE
INVARIANT NoDangling
INVARIANT DefaultRolesKept
