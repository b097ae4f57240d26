SPECIFICATION Spec

CONSTANTS
  None = NoValue
  User = {u1, u2}
  Name = {n1, n2}
  CustomName = {c1}
  Selections <- TwoPermissions
  Request = {r1}
  Ops <- AllOps
  Lossy = FALSE
  MaxOrgs = 2
  MaxRoles = 6

SYMMETRY Symmetry
CHECK_DEADLOCK FALSE
INVARIANT NamesUnique
PROPERTY LastMemberStays
PROPERTY EditKeepsSelected
PROPERTY MembershipExact
